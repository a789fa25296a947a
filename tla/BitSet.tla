------------------------------- MODULE BitSet -------------------------------
(***************************************************************************)
(* What the callers of bitmap.c take a bitmap for: a set of block numbers  *)
(* in memory and a copy of it on the device.  Every step is a call and     *)
(* says in the variable call which one it was and with which index, so     *)
(* that what it changes is tied to the index that the caller gave.         *)
(***************************************************************************)
EXTENDS Integers

CONSTANTS Blocks, \* the block numbers of the device
          Indexes \* the indexes that callers give, blocks or not

VARIABLES bits,  \* the blocks marked in memory
          saved, \* the blocks marked on the device
          call   \* the last call, with its index

Init == bits = {} /\ saved = {} /\ call = <<>>

Mark(i) == /\ call' = <<"set", i>>
           /\ bits' = bits \cup ({i} \cap Blocks)
           /\ UNCHANGED saved

Unmark(i) == /\ call' = <<"unset", i>>
             /\ bits' = bits \ {i}
             /\ UNCHANGED saved

Save == call' = <<"write">> /\ saved' = bits /\ UNCHANGED bits
Load == call' = <<"read">> /\ bits' = saved /\ UNCHANGED saved
List == call' = <<"list">> /\ UNCHANGED <<bits, saved>>

Next == \/ \E i \in Indexes : Mark(i) \/ Unmark(i)
        \/ Save
        \/ Load
        \/ List

Spec == Init /\ [][Next]_<<bits, saved, call>>

=============================================================================
