------------------------------- MODULE Bitmap -------------------------------
(***************************************************************************)
(* lisafuse/bitmap.c: a bitmap of Size bits in a buffer of Bytes bytes,    *)
(* the loops that list its bits, and its transfer from and to the device.  *)
(* A byte is the set of the positions, 0 to 7, of its bits that are 1.     *)
(*                                                                         *)
(* The two loops run one iteration per step, so that a step of them is a   *)
(* test of one bit, and what they have listed is visible while they run.   *)
(* The history variable call says which function was called last and with  *)
(* which index; no guard reads it.                                         *)
(*                                                                         *)
(* MaskPacked and FullLate are plausible bugs of the definitions that      *)
(* follow them, which the model never uses.                                *)
(***************************************************************************)
EXTENDS Integers, Sequences

CONSTANTS
    Size,      \* bits, the parameter size of the functions
    Bytes,     \* bytes of the buffer, BITMAP_SIZE
    Indexes,   \* bound: the indexes that callers set and unset
    MaxWant    \* bound: the most blocks a caller asks for

ASSUME BitmapAssumption ==
    /\ Size \in Nat
    /\ Bytes \in Nat \ {0}
    /\ Size <= 8 * Bytes
    /\ Indexes \subseteq Int
    /\ MaxWant \in Nat

Blocks == 0 .. Size - 1
Buffers == [0 .. Bytes - 1 -> SUBSET (0 .. 7)]

VARIABLES
    buf,     \* p_bitmap, the buffer in memory
    device,  \* the bytes at BITMAP_OFFSET
    at,      \* where the program is: "idle", in one of the loops, or after it
    i,       \* the loop variable
    want,    \* n, how many free blocks are asked for
    list,    \* p_blocklist or availablelist, up to index
    call     \* history: the last call and its index

vars == <<buf, device, at, i, want, list, call>>

Calls == ({"set", "unset"} \X Indexes)
             \cup {<<>>, <<"write">>, <<"read">>, <<"list">>}

TypeOK ==
    /\ buf \in Buffers
    /\ device \in Buffers
    /\ at \in {"idle", "using", "used", "finding", "found"}
    /\ i \in 0 .. Size
    /\ want \in 0 .. MaxWant
    /\ list \in Seq(Blocks)
    /\ call \in Calls

-----------------------------------------------------------------------------
(* One bit.  The only negative index is -1, of a full device: the division  *)
(* yields byte 0 and the shift an empty mask.                               *)

find_bitmap_char(index) == IF index < 0 THEN 0 ELSE index \div 8

MaskPacked(index) == IF index < 0 THEN {} ELSE {index % 7}
Mask(index) == IF index < 0 THEN {} ELSE {index % 8}

bitmap_set(index, p) ==
    IF index >= Size THEN p
    ELSE [p EXCEPT ![find_bitmap_char(index)] = @ \cup Mask(index)]

bitmap_unset(index, p) ==
    IF index >= Size THEN p
    ELSE [p EXCEPT ![find_bitmap_char(index)] = @ \ Mask(index)]

bitmap_get(index, p) ==
    index < Size /\ Mask(index) \cap p[find_bitmap_char(index)] # {}

\* The set that a buffer stands for.
BitsOf(p) == {index \in Blocks : bitmap_get(index, p)}

-----------------------------------------------------------------------------
Set(index) ==
    /\ at = "idle"
    /\ buf' = bitmap_set(index, buf)
    /\ call' = <<"set", index>>
    /\ UNCHANGED <<device, at, i, want, list>>

Unset(index) ==
    /\ at = "idle"
    /\ buf' = bitmap_unset(index, buf)
    /\ call' = <<"unset", index>>
    /\ UNCHANGED <<device, at, i, want, list>>

write_bitmap ==
    /\ at = "idle"
    /\ device' = buf
    /\ call' = <<"write">>
    /\ UNCHANGED <<buf, at, i, want, list>>

read_bitmap ==
    /\ at = "idle"
    /\ buf' = device
    /\ call' = <<"read">>
    /\ UNCHANGED <<device, at, i, want, list>>

(* The loops of bitmap_usedblockid and bitmap_availableblockid. *)

Start(place, n) ==
    /\ at = "idle"
    /\ at' = place
    /\ i' = 0
    /\ want' = n
    /\ list' = <<>>
    /\ call' = <<"list">>
    /\ UNCHANGED <<buf, device>>

bitmap_usedblockid == Start("using", 0)
bitmap_availableblockid(n) == Start("finding", n)

Extend(l, index) == Append(l, index)

\* The free blocks are listed until there are as many as wanted.
FullLate(l) == Len(l) > want
Full(l) == Len(l) = want

Wanted(index) == IF at = "using" THEN bitmap_get(index, buf)
                 ELSE ~bitmap_get(index, buf)

LoopBody ==
    LET l == IF Wanted(i) THEN Extend(list, i) ELSE list
    IN  /\ at \in {"using", "finding"}
        /\ i < Size
        /\ list' = l
        /\ IF at = "finding" /\ Full(l)
             THEN at' = "found" /\ UNCHANGED i
             ELSE i' = i + 1 /\ UNCHANGED at
        /\ UNCHANGED <<buf, device, want, call>>

LoopEnd ==
    /\ at \in {"using", "finding"}
    /\ i >= Size
    /\ at' = IF at = "using" THEN "used" ELSE "found"
    /\ UNCHANGED <<buf, device, i, want, list, call>>

Return ==
    /\ at \in {"used", "found"}
    /\ at' = "idle"
    /\ i' = 0
    /\ want' = 0
    /\ list' = <<>>
    /\ UNCHANGED <<buf, device, call>>

Init ==
    /\ buf = [b \in 0 .. Bytes - 1 |-> {}]
    /\ device = buf
    /\ at = "idle"
    /\ i = 0
    /\ want = 0
    /\ list = <<>>
    /\ call = <<>>

Next ==
    \/ \E index \in Indexes : Set(index) \/ Unset(index)
    \/ write_bitmap
    \/ read_bitmap
    \/ bitmap_usedblockid
    \/ \E n \in 1 .. MaxWant : bitmap_availableblockid(n)
    \/ LoopBody
    \/ LoopEnd
    \/ Return

Spec == Init /\ [][Next]_vars

-----------------------------------------------------------------------------
Listed == {list[k] : k \in 1 .. Len(list)}
Ascending == \A k, m \in 1 .. Len(list) : k < m => list[k] < list[m]

\* bitmap_usedblockid returns exactly the used blocks, in ascending order, so
\* that the first block_info that getattr matches is the lowest one.
UsedAreListed == at = "used" => Ascending /\ Listed = BitsOf(buf)

\* bitmap_availableblockid returns the lowest free blocks, as many as wanted or
\* all there are: with one wanted, open gets the lowest free block, and none
\* only when the device is full.
FoundAreLowest == at = "found" =>
    /\ Ascending
    /\ Listed \subseteq Blocks \ BitsOf(buf)
    /\ Len(list) <= want
    /\ \A b \in Blocks \ (BitsOf(buf) \cup Listed) :
          Len(list) = want /\ \A j \in Listed : j < b

\* What holds in the middle of the loops.
LoopInv ==
    /\ at \in {"using", "finding"} =>
          Ascending /\ Listed = {b \in 0 .. i - 1 : Wanted(b)}
    /\ at = "finding" => Len(list) < want

\* The bytes, the masks and the size test behave as a set of block numbers:
\* bitmap_set(i) and bitmap_unset(i) change the bit of block i and of no other
\* block, neither changes any for an index outside the bitmap, -1 of a full
\* device included, and the two searches change nothing.
Abstract == INSTANCE BitSet WITH bits <- BitsOf(buf), saved <- BitsOf(device)

ImplementsBitSet == Abstract!Spec

=============================================================================
