----------------------------- MODULE BlockStore -----------------------------
(***************************************************************************)
(* What a client of the file system is promised, without a device, slots,  *)
(* handles or a shared file position: a file is a growing run of cells,    *)
(* no cell appears that was not accepted, and the size a release publishes *)
(* is the number of cells accepted, overwriting included.                  *)
(***************************************************************************)
EXTENDS Naturals

CONSTANT Files

VARIABLES sent,   \* per file: how many cells were accepted
          stored, \* per file: how many cells can be read back
          size    \* per file: the length that a stat reports

store == <<sent, stored, size>>

Init == /\ sent = [f \in Files |-> 0]
        /\ stored = [f \in Files |-> 0]
        /\ size = [f \in Files |-> 0]

\* lfs_write counts a cell before it is transferred.
Accept(f) ==
    /\ sent' = [sent EXCEPT ![f] = @ + 1]
    /\ UNCHANGED <<stored, size>>

\* The cell arrives at the end of the file; one that is overwritten is
\* replaced by itself.
Land(f) ==
    /\ stored[f] < sent[f]
    /\ stored' = [stored EXCEPT ![f] = @ + 1]
    /\ UNCHANGED <<sent, size>>

\* lfs_release publishes the length.
Publish(f) ==
    /\ size' = [size EXCEPT ![f] = sent[f]]
    /\ UNCHANGED <<sent, stored>>

Next == \E f \in Files : Accept(f) \/ Land(f) \/ Publish(f)

Spec == Init /\ [][Next]_store

=============================================================================
