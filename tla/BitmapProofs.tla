---------------------------- MODULE BitmapProofs ----------------------------
(***************************************************************************)
(* Facts about Bitmap for every number of bits and bytes: the bytes        *)
(* implement a set of block numbers, and the two loops list what they are  *)
(* called for.                                                             *)
(***************************************************************************)
EXTENDS Bitmap, SequenceTheorems, TLAPS

-----------------------------------------------------------------------------
(* Bits and bytes.                                                         *)

\* Inside the bitmap an index has its own byte and position in the byte.
LEMMA IndexPlace ==
    ASSUME NEW index \in Blocks
    PROVE  /\ index \in Nat /\ ~(index < 0) /\ ~(index >= Size)
           /\ index \div 8 \in 0 .. Bytes - 1
           /\ index % 8 \in 0 .. 7
           /\ index = 8 * (index \div 8) + (index % 8)
<1>1. index \in Nat /\ index < 8 * Bytes /\ Bytes \in Nat /\ index < Size /\ Size \in Nat
  BY BitmapAssumption DEF Blocks
<1>2. /\ index \div 8 \in Nat /\ index % 8 \in 0 .. 7
      /\ index = 8 * (index \div 8) + (index % 8)
  BY <1>1
<1>3. \A d, b, r \in Nat : 8 * d + r < 8 * b => d < b
  OBVIOUS
<1>4. index \div 8 < Bytes
  BY <1>1, <1>2, <1>3
<1> QED BY <1>1, <1>2, <1>4

\* The byte and the position in it tell the block.
LEMMA PlaceUnique ==
    ASSUME NEW a \in Blocks, NEW b \in Blocks, a \div 8 = b \div 8, a % 8 = b % 8
    PROVE  a = b
BY IndexPlace

\* bitmap_get of a block looks for its position in its byte.
LEMMA GetBit ==
    ASSUME NEW index \in Blocks, NEW p
    PROVE  bitmap_get(index, p) <=> index % 8 \in p[index \div 8]
<1>1. index < Size /\ ~(index < 0)
  BY BitmapAssumption DEF Blocks
<1>2. bitmap_get(index, p) <=> {index % 8} \cap p[index \div 8] # {}
  BY <1>1 DEF bitmap_get, Mask, find_bitmap_char
<1> QED BY <1>2, Zenon

\* bitmap_set adds its index to the set, and nothing when it is outside.
LEMMA SetView ==
    ASSUME NEW p \in Buffers, NEW index \in Int
    PROVE  /\ bitmap_set(index, p) \in Buffers
           /\ BitsOf(bitmap_set(index, p)) = BitsOf(p) \cup ({index} \cap Blocks)
<1>1. CASE index >= Size
  BY <1>1, BitmapAssumption DEF bitmap_set, Blocks
<1>2. CASE index < 0 /\ ~(index >= Size)
  <2>1. bitmap_set(index, p) = p
    BY <1>2, BitmapAssumption DEF bitmap_set, Mask, find_bitmap_char, Buffers
  <2> QED BY <1>2, <2>1 DEF Blocks
<1>3. CASE index \in Blocks
  <2> DEFINE d == index \div 8
             r == index % 8
             q == bitmap_set(index, p)
  <2>1. d \in 0 .. Bytes - 1 /\ r \in 0 .. 7
    BY <1>3, IndexPlace
  <2>2. q = [p EXCEPT ![d] = @ \cup {r}]
    BY <1>3, IndexPlace DEF bitmap_set, Mask, find_bitmap_char
  <2>3. q \in Buffers
    BY <2>1, <2>2 DEF Buffers
  <2>4. ASSUME NEW b \in Blocks
        PROVE  bitmap_get(b, q) <=> bitmap_get(b, p) \/ b = index
    <3>1. b \div 8 \in 0 .. Bytes - 1 /\ (b \div 8 = d /\ b % 8 = r => b = index)
      BY <1>3, IndexPlace, PlaceUnique
    <3>2. b % 8 \in q[b \div 8] <=> b % 8 \in p[b \div 8] \/ b = index
      BY <2>1, <2>2, <3>1 DEF Buffers
    <3> QED BY <3>2, GetBit
  <2> HIDE DEF q
  <2>5. BitsOf(q) = BitsOf(p) \cup ({index} \cap Blocks)
    BY <2>4, <1>3 DEF BitsOf
  <2> QED BY <2>3, <2>5 DEF q
<1> QED BY <1>1, <1>2, <1>3, BitmapAssumption DEF Blocks

\* bitmap_unset removes its index from the set.
LEMMA UnsetView ==
    ASSUME NEW p \in Buffers, NEW index \in Int
    PROVE  /\ bitmap_unset(index, p) \in Buffers
           /\ BitsOf(bitmap_unset(index, p)) = BitsOf(p) \ {index}
<1>1. CASE index >= Size
  BY <1>1, BitmapAssumption DEF bitmap_unset, Blocks, BitsOf
<1>2. CASE index < 0 /\ ~(index >= Size)
  <2>1. bitmap_unset(index, p) = p
    BY <1>2, BitmapAssumption DEF bitmap_unset, Mask, find_bitmap_char, Buffers
  <2> QED BY <1>2, <2>1 DEF Blocks, BitsOf
<1>3. CASE index \in Blocks
  <2> DEFINE d == index \div 8
             r == index % 8
             q == bitmap_unset(index, p)
  <2>1. d \in 0 .. Bytes - 1 /\ r \in 0 .. 7
    BY <1>3, IndexPlace
  <2>2. q = [p EXCEPT ![d] = @ \ {r}]
    BY <1>3, IndexPlace DEF bitmap_unset, Mask, find_bitmap_char
  <2>3. q \in Buffers
    BY <2>1, <2>2 DEF Buffers
  <2>4. ASSUME NEW b \in Blocks
        PROVE  bitmap_get(b, q) <=> bitmap_get(b, p) /\ b # index
    <3>1. b \div 8 \in 0 .. Bytes - 1 /\ (b \div 8 = d /\ b % 8 = r => b = index)
      BY <1>3, IndexPlace, PlaceUnique
    <3>2. b % 8 \in q[b \div 8] <=> b % 8 \in p[b \div 8] /\ b # index
      BY <2>1, <2>2, <3>1 DEF Buffers
    <3> QED BY <3>2, GetBit
  <2> HIDE DEF q
  <2>5. BitsOf(q) = BitsOf(p) \ {index}
    BY <2>4 DEF BitsOf
  <2> QED BY <2>3, <2>5 DEF q
<1> QED BY <1>1, <1>2, <1>3, BitmapAssumption DEF Blocks

-----------------------------------------------------------------------------
(* Types and loops.                                                        *)

\* Every call and every iteration keeps the types: in particular only block
\* numbers are listed.
LEMMA StepType == TypeOK /\ [Next]_vars => TypeOK'
<1> SUFFICES ASSUME TypeOK, [Next]_vars
             PROVE  TypeOK'
  OBVIOUS
<1>1. ASSUME NEW index \in Indexes, Set(index) \/ Unset(index)
      PROVE  TypeOK'
  <2>1. buf \in Buffers /\ index \in Int
    BY BitmapAssumption DEF TypeOK
  <2>2. bitmap_set(index, buf) \in Buffers /\ bitmap_unset(index, buf) \in Buffers
    BY <2>1, SetView, UnsetView
  <2>3. buf' \in Buffers /\ UNCHANGED <<device, at, i, want, list>>
    BY <1>1, <2>2 DEF Set, Unset
  <2>4. call' \in Calls
    BY <1>1 DEF Set, Unset, Calls
  <2> QED BY <2>3, <2>4 DEF TypeOK
<1>2. CASE write_bitmap \/ read_bitmap
  BY <1>2 DEF write_bitmap, read_bitmap, TypeOK, Calls
<1>3. ASSUME NEW place \in {"using", "finding"}, NEW n \in 0 .. MaxWant, Start(place, n)
      PROVE  TypeOK'
  BY <1>3, BitmapAssumption DEF Start, TypeOK, Calls
<1>4. CASE LoopBody
  <2>1. i \in Blocks /\ i + 1 \in 0 .. Size
    BY <1>4, BitmapAssumption DEF LoopBody, TypeOK, Blocks
  <2>2. Append(list, i) \in Seq(Blocks)
    BY <2>1, AppendProperties DEF TypeOK
  <2>3. list' \in Seq(Blocks)
    BY <1>4, <2>2 DEF LoopBody, Extend, TypeOK
  <2> QED BY <1>4, <2>1, <2>3 DEF LoopBody, TypeOK
<1>5. CASE LoopEnd \/ Return
  <2>1. CASE LoopEnd
    BY <2>1 DEF LoopEnd, TypeOK
  <2>2. CASE Return
    BY <2>2, EmptySeq, BitmapAssumption DEF Return, TypeOK
  <2> QED BY <1>5, <2>1, <2>2
<1>6. CASE UNCHANGED vars
  BY <1>6 DEF vars, TypeOK
<1>7. 0 \in 0 .. MaxWant /\ \A n \in 1 .. MaxWant : n \in 0 .. MaxWant
  BY BitmapAssumption
<1> QED BY <1>1, <1>2, <1>3, <1>4, <1>5, <1>6, <1>7
        DEF Next, bitmap_usedblockid, bitmap_availableblockid

\* Type correctness of the bitmap: the buffers stay inside their bytes and the
\* lists inside the block numbers.
THEOREM BitmapTypes == Spec => []TypeOK
<1>1. Init => TypeOK
  BY BitmapAssumption DEF Init, TypeOK, Calls, Buffers
<1> QED BY <1>1, StepType, PTL DEF Spec

\* One iteration lists its index exactly if it is wanted, behind smaller ones.
LEMMA Iteration ==
    ASSUME TypeOK, LoopInv, LoopBody
    PROVE  /\ Ascending' /\ Listed' = {b \in 0 .. i : Wanted(b)}
           /\ Len(list') <= Len(list) + 1
<1>1. /\ at \in {"using", "finding"} /\ i \in Blocks /\ i \in Nat
      /\ Ascending /\ Listed = {b \in 0 .. i - 1 : Wanted(b)}
      /\ list \in Seq(Blocks) /\ Len(list) \in Nat
  BY BitmapAssumption DEF LoopBody, TypeOK, LoopInv, Blocks
<1>2. \A k \in 1 .. Len(list) : list[k] < i
  <2> SUFFICES ASSUME NEW k \in 1 .. Len(list)
               PROVE  list[k] < i
    OBVIOUS
  <2>1. list[k] \in Listed
    BY DEF Listed
  <2> QED BY <2>1, <1>1
<1>3. CASE Wanted(i)
  <2>1. list' = Append(list, i)
    BY <1>3 DEF LoopBody, Extend
  <2>2. /\ Len(list') = Len(list) + 1
        /\ \A k \in 1 .. Len(list) : list'[k] = list[k]
        /\ list'[Len(list) + 1] = i
    BY <1>1, <2>1, AppendProperties
  <2>3. \A k, m \in 1 .. Len(list') : k < m => list'[k] < list'[m]
    <3> SUFFICES ASSUME NEW k \in 1 .. Len(list'), NEW m \in 1 .. Len(list'), k < m
                 PROVE  list'[k] < list'[m]
      OBVIOUS
    <3>1. k \in 1 .. Len(list) /\ list'[k] = list[k]
      BY <1>1, <2>2
    <3>2. CASE m = Len(list) + 1
      BY <3>1, <3>2, <1>2, <2>2
    <3>3. CASE m # Len(list) + 1
      <4>1. m \in 1 .. Len(list)
        BY <3>3, <1>1, <2>2
      <4> QED BY <3>1, <4>1, <1>1, <2>2 DEF Ascending
    <3> QED BY <3>2, <3>3
  <2>4. 1 .. Len(list') = 1 .. Len(list) \cup {Len(list) + 1}
    BY <1>1, <2>2
  <2>5. Listed' = Listed \cup {i}
    BY <2>2, <2>4 DEF Listed
  <2>6. {b \in 0 .. i : Wanted(b)} = {b \in 0 .. i - 1 : Wanted(b)} \cup {i}
    BY <1>1, <1>3
  <2> QED BY <1>1, <2>2, <2>3, <2>5, <2>6 DEF Ascending
<1>4. CASE ~Wanted(i)
  <2>1. list' = list
    BY <1>4 DEF LoopBody
  <2>2. {b \in 0 .. i : Wanted(b)} = {b \in 0 .. i - 1 : Wanted(b)}
    BY <1>1, <1>4
  <2> QED BY <1>1, <2>1, <2>2 DEF Ascending, Listed
<1> QED BY <1>3, <1>4

\* An iteration keeps what both loops have listed, and the test of the exit
\* stops the search for free blocks exactly when it has enough of them.
LEMMA LoopBodyStep ==
    ASSUME TypeOK, LoopInv, LoopBody
    PROVE  LoopInv' /\ UsedAreListed' /\ FoundAreLowest'
<1>1. /\ Ascending' /\ Listed' = {b \in 0 .. i : Wanted(b)}
      /\ Len(list') <= Len(list) + 1
  BY Iteration
<1>2. /\ at \in {"using", "finding"} /\ i \in Nat /\ i < Size /\ Size \in Nat
      /\ Len(list) \in Nat /\ want \in Nat
      /\ UNCHANGED <<buf, device, want>>
  BY BitmapAssumption DEF LoopBody, TypeOK
<1>3. Len(list') \in Nat /\ list' \in Seq(Blocks)
  BY StepType DEF TypeOK, Next
<1>4. CASE at = "finding" /\ Full(list')
  <2>1. at' = "found" /\ i' = i /\ Len(list') = want
    BY <1>4 DEF LoopBody, Full
  <2>2. LoopInv' /\ UsedAreListed'
    BY <2>1 DEF LoopInv, UsedAreListed
  <2>3. Listed' = {b \in 0 .. i : ~bitmap_get(b, buf)}
    BY <1>1, <1>4 DEF Wanted
  <2>4. Listed' = {b \in Blocks : b <= i /\ b \notin BitsOf(buf)}
    BY <2>3, <1>2 DEF Blocks, BitsOf
  <2>5. \A b \in Blocks \ (BitsOf(buf) \cup Listed') : \A j \in Listed' : j < b
    BY <2>4, <1>2 DEF Blocks
  <2> QED BY <2>1, <2>2, <2>4, <2>5, <1>1, <1>2, <1>3 DEF FoundAreLowest, BitsOf
<1>5. CASE ~(at = "finding" /\ Full(list'))
  <2>1. at' = at /\ i' = i + 1
    BY <1>5 DEF LoopBody, Full
  <2>2. i' - 1 = i
    BY <2>1, <1>2
  <2>3. Listed' = {b \in 0 .. i' - 1 : Wanted(b)'}
    BY <1>1, <1>2, <2>1, <2>2 DEF Wanted
  <2>4. at' = "finding" => Len(list') < want'
    BY <1>1, <1>2, <1>3, <1>5, <2>1 DEF LoopInv, Full
  <2>5. at' \notin {"used", "found"}
    BY <1>2, <2>1
  <2> QED BY <1>1, <2>3, <2>4, <2>5 DEF LoopInv, UsedAreListed, FoundAreLowest
<1> QED BY <1>4, <1>5

\* A loop that runs to its end has seen every block.
LEMMA LoopEndStep ==
    ASSUME TypeOK, LoopInv, LoopEnd
    PROVE  LoopInv' /\ UsedAreListed' /\ FoundAreLowest'
<1>1. /\ at \in {"using", "finding"} /\ i = Size /\ Size \in Nat
      /\ UNCHANGED <<buf, device, i, want, list>>
      /\ Len(list) \in Nat /\ want \in Nat
  BY BitmapAssumption DEF LoopEnd, TypeOK
<1>2. Ascending /\ Listed = {b \in Blocks : Wanted(b)}
  BY <1>1 DEF LoopInv, Blocks
<1>3. Ascending' /\ Listed' = Listed /\ BitsOf(buf') = BitsOf(buf)
  BY <1>1, <1>2 DEF Ascending, Listed
<1>4. CASE at = "using"
  <2>1. at' = "used"
    BY <1>4 DEF LoopEnd
  <2>2. Listed = BitsOf(buf)
    BY <1>2, <1>4 DEF Wanted, BitsOf
  <2> QED BY <2>1, <2>2, <1>3 DEF LoopInv, UsedAreListed, FoundAreLowest
<1>5. CASE at = "finding"
  <2>1. at' = "found"
    BY <1>5 DEF LoopEnd
  <2>2. Listed = Blocks \ BitsOf(buf)
    BY <1>2, <1>5 DEF Wanted, BitsOf
  <2>3. Len(list) <= want
    BY <1>1, <1>5 DEF LoopInv
  <2> QED BY <2>1, <2>2, <2>3, <1>1, <1>3 DEF LoopInv, UsedAreListed, FoundAreLowest
<1> QED BY <1>1, <1>4, <1>5

\* The start of a loop, and every call that is no loop.
LEMMA OtherSteps ==
    ASSUME TypeOK, LoopInv, UsedAreListed, FoundAreLowest, [Next]_vars, ~LoopBody, ~LoopEnd
    PROVE  LoopInv' /\ UsedAreListed' /\ FoundAreLowest'
<1>1. ASSUME NEW place \in {"using", "finding"}, NEW n \in 0 .. MaxWant, Start(place, n),
             place = "finding" => n > 0
      PROVE  LoopInv' /\ UsedAreListed' /\ FoundAreLowest'
  <2>1. at' = place /\ i' = 0 /\ list' = <<>> /\ want' = n /\ Len(list') = 0
    BY <1>1, EmptySeq DEF Start
  <2>2. Ascending' /\ Listed' = {}
    BY <2>1 DEF Ascending, Listed
  <2>3. 0 .. i' - 1 = {}
    BY <2>1
  <2> QED BY <1>1, <2>1, <2>2, <2>3 DEF LoopInv, UsedAreListed, FoundAreLowest
<1>2. CASE at' = "idle"
  BY <1>2 DEF LoopInv, UsedAreListed, FoundAreLowest
<1>3. CASE UNCHANGED vars
  BY <1>3 DEF vars, LoopInv, UsedAreListed, FoundAreLowest, Ascending, Listed, Wanted
<1>4. ASSUME NEW index \in Indexes, Set(index) \/ Unset(index)
      PROVE  at' = "idle"
  BY <1>4 DEF Set, Unset
<1>5. write_bitmap \/ read_bitmap \/ Return => at' = "idle"
  BY DEF write_bitmap, read_bitmap, Return
<1>6. 0 \in 0 .. MaxWant /\ \A n \in 1 .. MaxWant : n \in 0 .. MaxWant /\ n > 0
  BY BitmapAssumption
<1> QED BY <1>1, <1>2, <1>3, <1>4, <1>5, <1>6
        DEF Next, bitmap_usedblockid, bitmap_availableblockid

\* bitmap_usedblockid lists exactly the used blocks, for every bitmap.
THEOREM UsedListed == Spec => []UsedAreListed
<1>1. Init => TypeOK /\ LoopInv /\ UsedAreListed /\ FoundAreLowest
  BY BitmapAssumption DEF Init, TypeOK, Calls, Buffers, LoopInv, UsedAreListed, FoundAreLowest
<1>2. TypeOK /\ LoopInv /\ UsedAreListed /\ FoundAreLowest /\ [Next]_vars
        => (TypeOK /\ LoopInv /\ UsedAreListed /\ FoundAreLowest)'
  BY StepType, LoopBodyStep, LoopEndStep, OtherSteps
<1> QED BY <1>1, <1>2, PTL DEF Spec

\* bitmap_availableblockid returns the lowest free blocks, for every bitmap and
\* every number that is asked for: open never gets a block in use, and gets one
\* whenever there is one.
THEOREM FoundLowest == Spec => []FoundAreLowest
<1>1. Init => TypeOK /\ LoopInv /\ UsedAreListed /\ FoundAreLowest
  BY BitmapAssumption DEF Init, TypeOK, Calls, Buffers, LoopInv, UsedAreListed, FoundAreLowest
<1>2. TypeOK /\ LoopInv /\ UsedAreListed /\ FoundAreLowest /\ [Next]_vars
        => (TypeOK /\ LoopInv /\ UsedAreListed /\ FoundAreLowest)'
  BY StepType, LoopBodyStep, LoopEndStep, OtherSteps
<1> QED BY <1>1, <1>2, PTL DEF Spec

\* The bytes implement a set of block numbers and its copy on the device: each
\* call changes in the set what its own index says.
THEOREM BytesAreSet == Spec => ImplementsBitSet
<1>1. Init => Abstract!Init
  BY BitmapAssumption, GetBit, IndexPlace DEF Init, Abstract!Init, BitsOf
<1>2. TypeOK /\ [Next]_vars => [Abstract!Next]_<<BitsOf(buf), BitsOf(device), call>>
  <2> SUFFICES ASSUME TypeOK, [Next]_vars
               PROVE  [Abstract!Next]_<<BitsOf(buf), BitsOf(device), call>>
    OBVIOUS
  <2>1. ASSUME NEW index \in Indexes, Set(index)
        PROVE  Abstract!Mark(index)
    <3>1. buf \in Buffers /\ index \in Int
      BY BitmapAssumption DEF TypeOK
    <3>2. BitsOf(buf') = BitsOf(buf) \cup ({index} \cap Blocks)
      BY <2>1, <3>1, SetView DEF Set
    <3> QED BY <2>1, <3>2 DEF Abstract!Mark, Set
  <2>2. ASSUME NEW index \in Indexes, Unset(index)
        PROVE  Abstract!Unmark(index)
    <3>1. buf \in Buffers /\ index \in Int
      BY BitmapAssumption DEF TypeOK
    <3>2. BitsOf(buf') = BitsOf(buf) \ {index}
      BY <2>2, <3>1, UnsetView DEF Unset
    <3> QED BY <2>2, <3>2 DEF Abstract!Unmark, Unset
  <2>3. CASE write_bitmap
    BY <2>3 DEF write_bitmap, Abstract!Next, Abstract!Save
  <2>4. CASE read_bitmap
    BY <2>4 DEF read_bitmap, Abstract!Next, Abstract!Load
  <2>5. ASSUME NEW place, NEW n, Start(place, n)
        PROVE  Abstract!List
    BY <2>5 DEF Start, Abstract!List
  <2>6. CASE UNCHANGED <<buf, device, call>>
    BY <2>6
  <2> QED BY <2>1, <2>2, <2>3, <2>4, <2>5, <2>6
          DEF Next, bitmap_usedblockid, bitmap_availableblockid, LoopBody, LoopEnd,
              Return, vars, Abstract!Next
<1> QED BY <1>1, <1>2, BitmapTypes, PTL DEF Spec, ImplementsBitSet, Abstract!Spec

=============================================================================
