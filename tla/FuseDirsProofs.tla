--------------------------- MODULE FuseDirsProofs ---------------------------
(***************************************************************************)
(* Theorems about the directory handles of libfuse, for any number of      *)
(* threads, open files and names, any room in a reply and any number of    *)
(* requests.                                                               *)
(***************************************************************************)
EXTENDS FuseDirs, WellFoundedInduction, SequenceTheorems, FiniteSetTheorems, TLAPS

-----------------------------------------------------------------------------
(* The inductive invariant.                                                *)

Reading == {"readdir", "fill", "reply"}
Holding == {"fill", "reply", "unlock"}
Closing == {"releasedir", "wait_reader", "free"}
Places == Reading \cup Holding \cup Closing \cup {"idle", "opendir", "reply_open"}
Requests == [op : {"opendir", "readdir", "releasedir"}, h : Handles, off : Nat,
             size : Sizes \cup {0}]

ThreadType ==
    /\ pc \in [Threads -> Places]
    /\ req \in [Threads -> Requests \cup {NoReq}]
    /\ \A t \in Threads : pc[t] = "idle" <=> req[t] = NoReq

\* Types, but for the counts of the nodes.
TypeInv ==
    /\ dir \subseteq Names
    /\ mode \in {"list", "offsets"}
    /\ fsopen \subseteq Handles
    /\ dh \in [Handles -> Dhs \cup {NoDh}]
    /\ ThreadType
    /\ open \subseteq Handles
    /\ pos \in [Handles -> Nat]
    /\ got \in [Handles -> Seq(Names)]
    /\ atend \subseteq Handles
    /\ seen \in [Handles -> SUBSET Names]
    /\ stays \in [Handles -> SUBSET Names]

\* What the place of a thread says of the handle it uses.
PlaceInv(t) ==
    LET h == req[t].h
    IN  /\ pc[t] = "opendir" => h \notin open /\ dh[h] = NoDh /\ h \notin fsopen
        /\ pc[t] = "reply_open" => h \notin open /\ dh[h] # NoDh /\ dh[h].lock = Nobody
        /\ pc[t] \in Reading => h \in open
        /\ pc[t] \in Closing => h \notin open /\ dh[h] # NoDh
        /\ pc[t] \in {"wait_reader", "free"} => h \notin fsopen
        /\ pc[t] = "free" => dh[h].lock = Nobody
        /\ pc[t] \in Holding => dh[h] # NoDh /\ dh[h].lock = t
        /\ pc[t] = "unlock" =>
              h \in open \/ \E u \in Threads : req[u].h = h /\ pc[u] \in {"releasedir", "wait_reader"}

\* What a handle says of the threads.
DhInv(h) ==
    /\ h \in open => dh[h] # NoDh
    /\ dh[h] # NoDh /\ dh[h].lock # Nobody =>
          pc[dh[h].lock] \in Holding /\ req[dh[h].lock].h = h
    /\ dh[h] # NoDh \/ h \in fsopen => h \in open \/ Using(h) # {}

\* The kernel has one request at a time for an open file, but for the threads that
\* have yet to give up the lock.
OneRequest == \A t, u \in Threads :
    /\ req[t].h = req[u].h
    /\ pc[t] \notin {"idle", "unlock"}
    /\ pc[u] \notin {"idle", "unlock"}
    => t = u

HandleInv ==
    /\ \A t \in Threads : PlaceInv(t)
    /\ \A h \in Handles : DhInv(h)
    /\ OneRequest

\* The kernel is told a node by the number of its name.
CountInv ==
    /\ nlookup \in [Names -> Nat]
    /\ known \in [Names -> Nat]
    /\ \A h \in Handles : dh[h] # NoDh =>
          \A i \in DOMAIN dh[h].contents :
             dh[h].contents[i].ino => dh[h].contents[i].off = dh[h].contents[i].name
    /\ KnownCounted

\* A reader of a closed file saw nothing; that of an open file saw what is there.
SeenInv(h) ==
    /\ h \notin open => got[h] = <<>> /\ seen[h] = {} /\ pos[h] = 0 /\ h \notin atend
    /\ h \in open => dir \subseteq seen[h]
    /\ stays[h] \subseteq dir \cap seen[h]
    /\ pos[h] = 0 => got[h] = <<>>

\* All names of a list are apart, were seen, and hold what stays.
ListInv(h, first) ==
    /\ IsInjective(first)
    /\ ToSet(first) \subseteq seen[h]
    /\ stays[h] \subseteq ToSet(first)

\* With a handle d, the offset says how much of the list the reader of h got, or up
\* to which name.
PosInv(h, d) ==
    IF mode = "list"
    THEN pos[h] > 0 => /\ d.filled
                       /\ ListInv(h, d.first)
                       /\ pos[h] <= Len(d.first)
                       /\ got[h] = SubSeq(d.first, 1, pos[h])
    ELSE /\ d # NoDh => ~d.filled
         /\ \A n \in ToSet(got[h]) : n <= pos[h]
         /\ \A n \in stays[h] : n <= pos[h] => n \in ToSet(got[h])

\* A reply of d that goes on behind the offset of the reader of h: a part of the
\* list, or the names that follow, in order, without a gap.
ReplyInv(h, d) ==
    LET c == d.contents
    IN  IF mode = "list"
        THEN /\ ListInv(h, d.first)
             /\ c = <<>> => pos[h] >= Len(d.first)
             /\ c # <<>> => d.filled /\ pos[h] + Len(c) <= Len(d.first)
             /\ \A i \in DOMAIN c : c[i].name = d.first[pos[h] + i] /\ c[i].off = pos[h] + i
        ELSE /\ \A i \in DOMAIN c : /\ c[i].name = c[i].off
                                    /\ c[i].name > pos[h]
                                    /\ c[i].name \in seen[h]
             /\ \A i, j \in DOMAIN c : i < j => c[i].name < c[j].name
             /\ \A n \in stays[h] : /\ n > pos[h]
                                    /\ c # <<>> => n <= Last(c).off
                                    => \E i \in DOMAIN c : c[i].name = n

ReaderInv ==
    /\ \A h \in Handles : SeenInv(h) /\ PosInv(h, dh[h])
    /\ EntriesOnce
    /\ \A t \in Threads :
          /\ pc[t] \in Reading => req[t].off = pos[req[t].h] /\ req[t].size \in Sizes
          /\ pc[t] = "reply" /\ ~dh[req[t].h].error => ReplyInv(req[t].h, dh[req[t].h])

DirsInv == TypeInv /\ HandleInv /\ CountInv /\ ReaderInv

-----------------------------------------------------------------------------
(* The names of a directory in order.                                      *)

\* Every non-empty set of natural numbers has a least element.
LEMMA LeastElement ==
    ASSUME NEW S \in SUBSET Nat, S # {}
    PROVE  \E n \in S : \A m \in S : n <= m
<1> DEFINE R == OpToRel(<, Nat)
<1>1. PICK n \in S : \A m \in S : ~ <<m, n>> \in R
  <2>1. IsWellFoundedOn(R, Nat)
    BY NatLessThanWellFounded, Zenon
  <2> HIDE DEF R
  <2> QED BY <2>1, WFMin
<1>2. ASSUME NEW m \in S
      PROVE  n <= m
  <2>1. m \in Nat /\ n \in Nat
    OBVIOUS
  <2>2. ~ m < n
    BY <1>1, <2>1 DEF OpToRel
  <2> QED BY <2>1, <2>2
<1> QED BY <1>2

\* Sorted(S): the numbers of S can be written in ascending order.
Sorted(S) == \E s \in [1 .. Cardinality(S) -> S] : Ascending(s)

\* A set can be sorted if it can without its least number.
LEMMA SortedMore ==
    ASSUME NEW S \in SUBSET Nat, IsFiniteSet(S), NEW m \in S, \A k \in S : m <= k,
           Sorted(S \ {m})
    PROVE  Sorted(S)
<1>1. /\ Cardinality(S) \in Nat \ {0}
      /\ Cardinality(S \ {m}) = Cardinality(S) - 1
  BY FS_CardinalityType, FS_RemoveElement, FS_EmptySet
<1>2. PICK n \in Nat : n = Cardinality(S) - 1
  BY <1>1
<1>3. Cardinality(S \ {m}) = n /\ Cardinality(S) = n + 1
  BY <1>1, <1>2
<1>4. PICK q \in [1 .. n -> S \ {m}] : Ascending(q)
  BY <1>3 DEF Sorted
<1> DEFINE s == [i \in 1 .. n + 1 |-> IF i = 1 THEN m ELSE q[i - 1]]
<1>5. \A i \in 1 .. n + 1 : i # 1 => i - 1 \in 1 .. n
  OBVIOUS
<1>6. s \in [1 .. n + 1 -> S]
  BY <1>4, <1>5
<1>7. ASSUME NEW i \in 1 .. n + 1, NEW j \in 1 .. n + 1, i < j
      PROVE  s[i] < s[j]
  <2>1. j - 1 \in 1 .. n /\ s[j] = q[j - 1]
    BY <1>5, <1>7
  <2>2. q[j - 1] \in S /\ q[j - 1] # m
    BY <1>4, <2>1
  <2>3. CASE i = 1
    <3>1. s[i] = m
      BY <2>3
    <3>2. m \in Nat /\ q[j - 1] \in Nat /\ m <= q[j - 1]
      BY <2>2
    <3> HIDE DEF s
    <3> QED BY <2>1, <2>2, <3>1, <3>2
  <2>4. CASE i # 1
    <3>1. i - 1 \in 1 .. n /\ s[i] = q[i - 1] /\ i - 1 < j - 1
      BY <1>5, <1>7, <2>4
    <3> QED BY <1>4, <2>1, <3>1 DEF Ascending
  <2> QED BY <2>3, <2>4
<1>8. Ascending(s)
  BY <1>6, <1>7 DEF Ascending
<1> HIDE DEF s
<1> QED BY <1>3, <1>6, <1>8 DEF Sorted

\* Every finite set of numbers can be sorted: a smallest one that cannot is one more
\* than one that can.
LEMMA Sorts ==
    ASSUME NEW S \in SUBSET Nat, IsFiniteSet(S)
    PROVE  Sorted(S)
<1> DEFINE Bad == {n \in Nat : \E T \in SUBSET Nat :
                      IsFiniteSet(T) /\ Cardinality(T) = n /\ ~Sorted(T)}
<1>1. Bad = {}
  <2> SUFFICES ASSUME Bad # {} PROVE FALSE
    OBVIOUS
  <2>1. PICK n \in Bad : \A k \in Bad : n <= k
    BY LeastElement
  <2>2. PICK T \in SUBSET Nat : IsFiniteSet(T) /\ Cardinality(T) = n /\ ~Sorted(T)
    BY <2>1
  <2>3. T # {}
    <3> SUFFICES ASSUME T = {} PROVE FALSE
      OBVIOUS
    <3>1. Cardinality(T) = 0
      BY FS_EmptySet
    <3> DEFINE s == [i \in 1 .. 0 |-> 0]
    <3>2. s \in [1 .. 0 -> T] /\ Ascending(s)
      BY DEF Ascending
    <3> QED BY <2>2, <3>1, <3>2 DEF Sorted
  <2>4. PICK m \in T : \A k \in T : m <= k
    BY <2>3, LeastElement
  <2>5. /\ IsFiniteSet(T \ {m})
        /\ Cardinality(T \ {m}) = n - 1
        /\ n \in Nat \ {0}
    BY <2>2, <2>3, FS_RemoveElement, FS_CardinalityType, FS_EmptySet
  <2>6. Sorted(T \ {m})
    <3> SUFFICES ASSUME ~Sorted(T \ {m}) PROVE FALSE
      OBVIOUS
    <3>1. n - 1 \in Bad
      BY <2>5
    <3>2. n <= n - 1
      BY <2>1, <3>1
    <3> QED BY <2>5, <3>2
  <2> QED BY <2>2, <2>4, <2>6, SortedMore
<1>2. Cardinality(S) \in Nat
  BY FS_CardinalityType
<1> QED BY <1>1, <1>2

\* InOrder, the order in which a filesystem names its entries.
LEMMA InOrderIs ==
    ASSUME NEW S \in SUBSET Names
    PROVE  /\ InOrder(S) \in Seq(Names)
           /\ InOrder(S) \in Seq(S)
           /\ Ascending(InOrder(S))
           /\ IsInjective(InOrder(S))
           /\ ToSet(InOrder(S)) = S
<1>1. S \in SUBSET Nat /\ IsFiniteSet(S)
  BY DirsAssumption, FS_Subset
<1>2. Cardinality(S) \in Nat
  BY <1>1, FS_CardinalityType
<1> DEFINE s == InOrder(S)
           n == Cardinality(S)
<1>3. s \in [1 .. n -> S] /\ Ascending(s)
  BY <1>1, Sorts DEF Sorted, InOrder
<1> HIDE DEF s, n
<1>4. n \in Nat
  BY <1>2 DEF n
<1>5. s \in Seq(S) /\ DOMAIN s = 1 .. n
  BY <1>3, <1>4, SeqDef
<1>6. s \in Seq(Names)
  BY <1>5, SeqMonotonic
<1>7. IsInjective(s)
  <2> SUFFICES ASSUME NEW a \in 1 .. n, NEW b \in 1 .. n, s[a] = s[b] PROVE a = b
    BY <1>5 DEF IsInjective
  <2>1. s[a] \in Nat /\ s[b] \in Nat
    BY <1>1, <1>3
  <2>2. ~ a < b /\ ~ b < a
    BY <1>3, <1>5, <2>1 DEF Ascending
  <2> QED BY <1>4, <2>2
<1>8. s \in Surjection(1 .. n, S)
  <2>1. IsFiniteSet(1 .. n) /\ Cardinality(1 .. n) = n
    BY <1>4, FS_Interval
  <2>2. s \in Injection(1 .. n, S)
    BY <1>3, <1>7 DEF Injection
  <2> QED BY <1>1, <2>1, <2>2, FS_Injection DEF n
<1>9. ToSet(s) = S
  BY <1>3, <1>5, <1>8 DEF ToSet, Surjection
<1> QED BY <1>3, <1>5, <1>6, <1>7, <1>9 DEF s

-----------------------------------------------------------------------------
(* What fits into a reply.                                                 *)

\* Nothing takes no room, and an entry takes two units at most.
LEMMA RoomIs ==
    /\ Room(<<>>) = 0
    /\ \A e \in Seq(Entries) : Len(e) = 1 => Room(e) <= 2
    /\ \A e \in Seq(Entries) : Room(e) \in Nat
<1>1. Room(<<>>) = 0
  <2>1. {i \in DOMAIN <<>> : <<>>[i].name \in Long} = {}
    OBVIOUS
  <2> QED BY <2>1, FS_EmptySet DEF Room
<1>2. ASSUME NEW e \in Seq(Entries)
      PROVE  Room(e) \in Nat /\ Room(e) <= Len(e) + Len(e)
  <2> DEFINE S == {i \in DOMAIN e : e[i].name \in Long}
  <2>1. DOMAIN e = 1 .. Len(e) /\ Len(e) \in Nat
    BY LenProperties
  <2>2. IsFiniteSet(1 .. Len(e)) /\ Cardinality(1 .. Len(e)) = Len(e)
    BY <2>1, FS_Interval
  <2>3. S \in SUBSET (1 .. Len(e))
    BY <2>1
  <2>4. /\ Cardinality(S) \in Nat
        /\ Cardinality(S) <= Len(e)
    <3> HIDE DEF S
    <3>1. IsFiniteSet(S) /\ Cardinality(S) <= Len(e)
      BY <2>2, <2>3, FS_Subset
    <3> QED BY <3>1, FS_CardinalityType
  <2>5. Room(e) = Len(e) + Cardinality(S)
    BY DEF Room
  <2> HIDE DEF S
  <2> QED BY <2>1, <2>4, <2>5
<1>3. ASSUME NEW e \in Seq(Entries), Len(e) = 1
      PROVE  Room(e) <= 2
  <2>1. Room(e) \in Nat /\ Room(e) <= Len(e) + Len(e)
    BY <1>2
  <2> QED BY <1>3, <2>1
<1> QED BY <1>1, <1>2, <1>3

\* The filler takes the first entries, and at least one if there is one.
LEMMA FitsIs ==
    ASSUME NEW e \in Seq(Entries), NEW size \in Nat \ {0, 1}
    PROVE  \E k \in 0 .. Len(e) :
              /\ Fits(e, size) = SubSeq(e, 1, k)
              /\ k = 0 => Len(e) = 0
<1> DEFINE Good(k) == /\ Room(SubSeq(e, 1, k)) <= size
                      /\ k < Len(e) => Room(SubSeq(e, 1, k + 1)) > size
           Over == {j \in 1 .. Len(e) : Room(SubSeq(e, 1, j)) > size}
<1>1. Len(e) \in Nat /\ \A i \in 1 .. Len(e) : e[i] \in Entries
  BY LenProperties, ElementOfSeq
<1>2. \A k \in 0 .. Len(e) : /\ SubSeq(e, 1, k) \in Seq(Entries)
                             /\ Len(SubSeq(e, 1, k)) = k
  <2> SUFFICES ASSUME NEW k \in 0 .. Len(e)
               PROVE  SubSeq(e, 1, k) \in Seq(Entries) /\ Len(SubSeq(e, 1, k)) = k
    OBVIOUS
  <2>1. k \in Int /\ 1 \in Int /\ \A i \in 1 .. k : e[i] \in Entries
    BY <1>1
  <2> QED BY <1>1, <2>1, SubSeqProperties
<1>3. \E k \in 0 .. Len(e) : Good(k)
  <2>1. CASE Over = {}
    <3>1. CASE Len(e) = 0
      <4>1. SubSeq(e, 1, 0) = <<>>
        BY SubSeqEmpty
      <4>2. Good(0)
        <5>1. Room(SubSeq(e, 1, 0)) = 0
          BY <4>1, RoomIs, Zenon
        <5> QED BY <3>1, <5>1
      <4> QED BY <1>1, <4>2
    <3>2. CASE Len(e) # 0
      <4>1. Len(e) \in 1 .. Len(e)
        BY <1>1, <3>2
      <4>2. ~ Room(SubSeq(e, 1, Len(e))) > size
        BY <2>1, <4>1
      <4>3. Room(SubSeq(e, 1, Len(e))) \in Nat
        <5>1. Len(e) \in 0 .. Len(e)
          BY <1>1
        <5>2. SubSeq(e, 1, Len(e)) \in Seq(Entries)
          BY <1>2, <5>1
        <5> QED BY <5>2, RoomIs
      <4>4. Good(Len(e))
        BY <1>1, <4>2, <4>3
      <4> QED BY <1>1, <4>4
    <3> QED BY <3>1, <3>2
  <2>2. CASE Over # {}
    <3>1. Over \in SUBSET Nat
      BY <1>1
    <3>2. PICK j \in Over : \A i \in Over : j <= i
      <4> HIDE DEF Over
      <4> QED BY <2>2, <3>1, LeastElement
    <3>3. j \in 1 .. Len(e) /\ Room(SubSeq(e, 1, j)) > size
      BY <3>2
    <3>4. j - 1 \in 0 .. Len(e) /\ j - 1 < Len(e) /\ j - 1 + 1 = j
      BY <1>1, <3>3
    <3>5. Room(SubSeq(e, 1, j - 1)) <= size
      <4>1. CASE j = 1
        <5>1. SubSeq(e, 1, j - 1) = <<>>
          BY <4>1, SubSeqEmpty
        <5>2. Room(SubSeq(e, 1, j - 1)) = 0
          BY <5>1, RoomIs, Zenon
        <5> QED BY <5>2
      <4>2. CASE j # 1
        <5>1. j - 1 \in 1 .. Len(e) /\ ~ j <= j - 1
          BY <3>3, <4>2
        <5>2. j - 1 \notin Over
          BY <3>2, <5>1
        <5>3. ~ Room(SubSeq(e, 1, j - 1)) > size
          BY <5>1, <5>2
        <5>4. Room(SubSeq(e, 1, j - 1)) \in Nat
          BY <1>2, <3>4, RoomIs
        <5> QED BY <5>3, <5>4
      <4> QED BY <4>1, <4>2
    <3>6. Good(j - 1)
      BY <3>3, <3>4, <3>5
    <3> QED BY <3>4, <3>6
  <2> QED BY <2>1, <2>2
<1> DEFINE k == CHOOSE k \in 0 .. Len(e) : Good(k)
<1>4. k \in 0 .. Len(e) /\ Good(k)
  <2> HIDE DEF Good
  <2> QED BY <1>3
<1>5. Fits(e, size) = SubSeq(e, 1, k)
  BY DEF Fits
<1>6. k = 0 => Len(e) = 0
  <2> HIDE DEF k
  <2> SUFFICES ASSUME k = 0, Len(e) # 0 PROVE FALSE
    OBVIOUS
  <2>1. 1 \in 0 .. Len(e) /\ 0 < Len(e)
    BY <1>1
  <2>2. Room(SubSeq(e, 1, 0 + 1)) > size
    BY <1>4, <2>1
  <2>3. SubSeq(e, 1, 1) \in Seq(Entries) /\ Len(SubSeq(e, 1, 1)) = 1
    BY <1>2, <2>1
  <2>4. Room(SubSeq(e, 1, 1)) <= 2 /\ Room(SubSeq(e, 1, 1)) \in Nat
    BY <2>3, RoomIs
  <2>5. 0 + 1 = 1
    OBVIOUS
  <2> QED BY <2>2, <2>4, <2>5
<1> HIDE DEF k
<1> QED BY <1>4, <1>5, <1>6

\* The same, entry by entry.
LEMMA FitsEntries ==
    ASSUME NEW e \in Seq(Entries), NEW size \in Nat \ {0, 1}
    PROVE  /\ Fits(e, size) \in Seq(Entries)
           /\ Len(Fits(e, size)) \in 0 .. Len(e)
           /\ Fits(e, size) = <<>> => e = <<>>
           /\ \A i \in 1 .. Len(Fits(e, size)) : Fits(e, size)[i] = e[i]
<1>1. Len(e) \in Nat /\ \A i \in 1 .. Len(e) : e[i] \in Entries
  BY LenProperties, ElementOfSeq
<1>2. PICK k \in 0 .. Len(e) : Fits(e, size) = SubSeq(e, 1, k) /\ (k = 0 => Len(e) = 0)
  BY FitsIs
<1>3. k \in Int /\ 1 \in Int /\ \A i \in 1 .. k : e[i] \in Entries
  BY <1>1
<1>4. /\ SubSeq(e, 1, k) \in Seq(Entries)
      /\ Len(SubSeq(e, 1, k)) = k
      /\ \A i \in 1 .. k : SubSeq(e, 1, k)[i] = e[i]
  <2>1. /\ SubSeq(e, 1, k) \in Seq(Entries)
        /\ Len(SubSeq(e, 1, k)) = IF 1 <= k THEN k - 1 + 1 ELSE 0
        /\ \A i \in 1 .. k - 1 + 1 : SubSeq(e, 1, k)[i] = e[1 + i - 1]
    BY <1>3, SubSeqProperties
  <2>2. \A i \in 1 .. k : 1 + i - 1 = i
    OBVIOUS
  <2>3. k - 1 + 1 = k
    BY <1>3
  <2> QED BY <1>3, <2>1, <2>2, <2>3
<1>5. SubSeq(e, 1, k) = <<>> => e = <<>>
  <2>1. Len(<<>>) = 0 /\ (e # <<>> => Len(e) # 0)
    BY EmptySeq
  <2> QED BY <1>2, <1>4, <2>1
<1> QED BY <1>2, <1>4, <1>5

-----------------------------------------------------------------------------
(* What the filesystem and libfuse fill a handle with.                     *)

\* What a handle without a request holds, and the one that an error leaves.
LEMMA NewDhIs ==
    /\ NewDh \in Dhs
    /\ NewDh.first = <<>> /\ NewDh.contents = <<>>
    /\ ~NewDh.filled /\ ~NewDh.error /\ NewDh.lock = Nobody
BY EmptySeq DEF NewDh, Dhs

\* The entries for names, as functions of them.
LEMMA OffsetEntries ==
    ASSUME NEW names \in Seq(Names)
    PROVE  LET e == [i \in DOMAIN names |-> Entry(names[i], names[i], Plus)]
           IN  e \in Seq(Entries) /\ Len(e) = Len(names) /\ (e = <<>> => names = <<>>)
<1> DEFINE e == [i \in DOMAIN names |-> Entry(names[i], names[i], Plus)]
<1>1. /\ Len(names) \in Nat
      /\ DOMAIN names = 1 .. Len(names)
      /\ \A i \in 1 .. Len(names) : names[i] \in Names
  BY LenProperties, ElementOfSeq
<1>2. \A i \in 1 .. Len(names) : Entry(names[i], names[i], Plus) \in Entries
  BY <1>1, DirsAssumption DEF Entry, Entries
<1>3. e \in [1 .. Len(names) -> Entries]
  BY <1>1, <1>2
<1> HIDE DEF e
<1>4. e \in Seq(Entries) /\ Len(e) = Len(names)
  BY <1>1, <1>3, SeqDef
<1>5. e = <<>> => names = <<>>
  BY <1>4, EmptySeq
<1> QED BY <1>4, <1>5 DEF e

\* FillOffsets: the names behind the offset, in order and without a gap; each was
\* looked up.
LEMMA FillOffsetsIs ==
    ASSUME dir \subseteq Names, NEW off \in Nat, NEW size \in Sizes
    PROVE  LET f == FillOffsets(off, size)
               c == f.dh.contents
           IN  /\ f.dh = [NewDh EXCEPT !.contents = c]
               /\ c \in Seq(Entries)
               /\ f.tried \subseteq Names
               /\ \A i \in DOMAIN c : /\ c[i].name = c[i].off
                                      /\ c[i].name > off
                                      /\ c[i].name \in dir
                                      /\ c[i].name \in f.tried
                                      /\ c[i].ino = Plus
               /\ \A i, j \in DOMAIN c : i < j => c[i].name < c[j].name
               /\ \A n \in dir : /\ n > off
                                 /\ c # <<>> => n <= Last(c).off
                                 => \E i \in DOMAIN c : c[i].name = n
<1> DEFINE S == {n \in dir : n > off}
           names == InOrder(S)
           e == [i \in DOMAIN names |-> Entry(names[i], names[i], Plus)]
           c == Fits(e, size)
           asked == IF Len(c) < Len(names) THEN Len(c) + 1 ELSE Len(c)
           tried == {names[i] : i \in 1 .. asked}
<1>1. FillOffsets(off, size) = [dh |-> [NewDh EXCEPT !.contents = c], tried |-> tried]
  BY DEF FillOffsets
<1>2. S \in SUBSET Names /\ size \in Nat \ {0, 1} /\ Names \subseteq Nat
  BY DirsAssumption
<1>3. /\ names \in Seq(Names)
      /\ names \in Seq(S)
      /\ Ascending(names)
      /\ ToSet(names) = S
  <2> HIDE DEF S
  <2> QED BY <1>2, InOrderIs
<1> HIDE DEF names
<1>4. /\ Len(names) \in Nat
      /\ DOMAIN names = 1 .. Len(names)
      /\ \A i \in 1 .. Len(names) : names[i] \in Names /\ names[i] \in S
  <2> HIDE DEF S
  <2> QED BY <1>3, LenProperties, ElementOfSeq
<1>5. e \in Seq(Entries) /\ Len(e) = Len(names) /\ (e = <<>> => names = <<>>)
  BY <1>3, OffsetEntries
<1>6. \A i \in 1 .. Len(names) : e[i] = Entry(names[i], names[i], Plus)
  BY <1>4
<1> HIDE DEF e
<1>7. /\ c \in Seq(Entries)
      /\ Len(c) \in 0 .. Len(names)
      /\ c = <<>> => e = <<>>
      /\ \A i \in 1 .. Len(c) : c[i] = e[i]
  BY <1>2, <1>5, FitsEntries
<1> HIDE DEF c
<1>8. Len(c) \in Nat /\ DOMAIN c = 1 .. Len(c) /\ (c # <<>> => Len(c) # 0)
  BY <1>7, LenProperties, EmptySeq
<1>9. \A i \in DOMAIN c : i \in 1 .. Len(names) /\ c[i] = Entry(names[i], names[i], Plus)
  BY <1>4, <1>6, <1>7, <1>8
<1>10. asked \in Nat /\ asked <= Len(names) /\ Len(c) <= asked
  BY <1>4, <1>7, <1>8
<1>11. tried \subseteq Names
  BY <1>4, <1>10
<1>12. ASSUME NEW i \in DOMAIN c
       PROVE  /\ c[i].name = c[i].off
              /\ c[i].name > off
              /\ c[i].name \in dir
              /\ c[i].name \in tried
              /\ c[i].ino = Plus
  <2>1. c[i].name = names[i] /\ c[i].off = names[i] /\ c[i].ino = Plus
    BY <1>9 DEF Entry
  <2>2. names[i] \in S
    BY <1>4, <1>9
  <2>3. i \in 1 .. asked
    BY <1>8, <1>10
  <2> QED BY <2>1, <2>2, <2>3
<1>13. ASSUME NEW i \in DOMAIN c, NEW j \in DOMAIN c, i < j
       PROVE  c[i].name < c[j].name
  <2>1. c[i].name = names[i] /\ c[j].name = names[j]
    BY <1>9 DEF Entry
  <2>2. names[i] < names[j]
    BY <1>3, <1>4, <1>9, <1>13 DEF Ascending
  <2> QED BY <2>1, <2>2
<1>14. ASSUME NEW n \in dir, n > off, c # <<>> => n <= Last(c).off
       PROVE  \E i \in DOMAIN c : c[i].name = n
  <2>1. PICK k \in 1 .. Len(names) : names[k] = n
    BY <1>3, <1>4, <1>14 DEF ToSet
  <2>2. c # <<>>
    <3>1. names # <<>>
      BY <2>1, EmptySeq
    <3> QED BY <1>5, <1>7, <3>1
  <2>3. Len(c) \in DOMAIN c
    BY <1>8, <2>2
  <2>4. n <= names[Len(c)]
    BY <1>9, <1>14, <2>2, <2>3 DEF Last, Entry
  <2>5. k <= Len(c)
    <3> SUFFICES ASSUME ~ k <= Len(c) PROVE FALSE
      OBVIOUS
    <3>1. Len(c) < k /\ Len(c) \in 1 .. Len(names)
      BY <1>8, <1>9, <2>1, <2>3
    <3>2. names[Len(c)] < names[k]
      BY <1>3, <1>4, <2>1, <3>1 DEF Ascending
    <3>3. names[Len(c)] \in Nat /\ names[k] \in Nat
      BY <1>2, <1>4, <2>1, <3>1
    <3> QED BY <2>1, <2>4, <3>2, <3>3
  <2>6. k \in DOMAIN c
    BY <1>8, <2>1, <2>5
  <2> QED BY <1>9, <2>1, <2>6 DEF Entry
<1>15. [NewDh EXCEPT !.contents = c].contents = c
  BY DEF NewDh
<1> HIDE DEF tried, S
<1>16. /\ FillOffsets(off, size).dh = [NewDh EXCEPT !.contents = c]
       /\ FillOffsets(off, size).dh.contents = c
       /\ FillOffsets(off, size).tried = tried
  <2>1. PICK d : d = [NewDh EXCEPT !.contents = c]
    OBVIOUS
  <2>2. FillOffsets(off, size) = [dh |-> d, tried |-> tried]
    BY <1>1, <2>1, Zenon
  <2>3. FillOffsets(off, size).dh = d /\ FillOffsets(off, size).tried = tried
    BY <2>2
  <2> QED BY <1>15, <2>1, <2>3, Zenon
<1> QED BY <1>7, <1>11, <1>12, <1>13, <1>14, <1>16

\* FillList: all names of the directory, each once.
LEMMA FillListIs ==
    ASSUME dir \subseteq Names
    PROVE  LET d == FillList.dh
           IN  /\ d = [NewDh EXCEPT !.first = d.first, !.filled = dir # {}]
               /\ d.first \in Seq(Names)
               /\ IsInjective(d.first)
               /\ ToSet(d.first) = dir
               /\ FillList.tried = dir
<1> DEFINE first == InOrder(dir)
<1>1. /\ first \in Seq(Names)
      /\ IsInjective(first)
      /\ ToSet(first) = dir
  BY InOrderIs
<1> HIDE DEF first
<1>2. FillList = [dh |-> [NewDh EXCEPT !.first = first, !.filled = dir # {}], tried |-> dir]
  BY DEF FillList, first
<1>3. FillList.dh = [NewDh EXCEPT !.first = first, !.filled = dir # {}] /\ FillList.tried = dir
  BY <1>2
<1>4. FillList.dh.first = first
  BY <1>3 DEF NewDh
<1> QED BY <1>1, <1>3, <1>4

\* fill_from_list: the part of the list behind the offset.
LEMMA FromListIs ==
    ASSUME NEW first \in Seq(Names), NEW off \in Nat, NEW size \in Sizes
    PROVE  LET c == fill_from_list(first, off, size)
           IN  /\ c \in Seq(Entries)
               /\ c = <<>> => off >= Len(first)
               /\ c # <<>> => off + Len(c) <= Len(first)
               /\ \A i \in DOMAIN c : /\ c[i].name = first[off + i]
                                      /\ c[i].off = off + i
                                      /\ ~c[i].ino
<1> DEFINE n == Len(first) - off
           e == [i \in 1 .. n |-> Entry(first[off + i], off + i, FALSE)]
           c == fill_from_list(first, off, size)
<1>1. Len(first) \in Nat /\ \A i \in 1 .. Len(first) : first[i] \in Names
  BY LenProperties, ElementOfSeq
<1>2. CASE off >= Len(first)
  <2>1. c = <<>>
    BY <1>2 DEF fill_from_list
  <2>2. DOMAIN <<>> = {} /\ <<>> \in Seq(Entries)
    BY EmptySeq
  <2> HIDE DEF c
  <2> QED BY <1>2, <2>1, <2>2 DEF c
<1>3. CASE ~ off >= Len(first)
  <2>1. n \in Nat \ {0} /\ \A i \in 1 .. n : off + i \in 1 .. Len(first)
    BY <1>1, <1>3
  <2>2. c = Fits(e, size)
    BY <1>3 DEF fill_from_list
  <2> HIDE DEF n, c
  <2>3. \A i \in 1 .. n : Entry(first[off + i], off + i, FALSE) \in Entries
    BY <1>1, <2>1 DEF Entry, Entries
  <2>4. e \in [1 .. n -> Entries]
    BY <2>3
  <2>5. \A i \in 1 .. n : e[i] = Entry(first[off + i], off + i, FALSE)
    OBVIOUS
  <2> HIDE DEF e
  <2>6. e \in Seq(Entries) /\ Len(e) = n
    BY <2>1, <2>4, SeqDef
  <2>7. size \in Nat \ {0, 1} /\ e # <<>>
    BY <2>1, <2>6, DirsAssumption, EmptySeq
  <2>8. /\ c \in Seq(Entries)
        /\ Len(c) \in 0 .. n
        /\ c # <<>>
        /\ \A i \in 1 .. Len(c) : c[i] = e[i]
    BY <2>2, <2>6, <2>7, FitsEntries
  <2>9. DOMAIN c = 1 .. Len(c) /\ Len(c) \in Nat
    BY <2>8, LenProperties
  <2>10. \A i \in DOMAIN c : c[i] = Entry(first[off + i], off + i, FALSE)
    <3> SUFFICES ASSUME NEW i \in DOMAIN c
                 PROVE  c[i] = Entry(first[off + i], off + i, FALSE)
      OBVIOUS
    <3>1. i \in 1 .. Len(c) /\ i \in 1 .. n
      BY <2>1, <2>8, <2>9
    <3> QED BY <2>5, <2>8, <3>1
  <2>11. off + Len(c) <= Len(first)
    BY <1>1, <2>1, <2>8 DEF n
  <2> QED BY <2>8, <2>10, <2>11 DEF Entry, c
<1> QED BY <1>2, <1>3

-----------------------------------------------------------------------------
(* Threads and their handles.                                              *)

\* A thread that serves a request has a handle, and one that is idle has none.
LEMMA HandleOf ==
    ASSUME TypeInv, NEW t \in Threads
    PROVE  /\ pc[t] # "idle" => req[t] \in Requests /\ req[t].h \in Handles
           /\ pc[t] = "idle" => req[t].h \notin Handles
<1>1. NoReq.h = NoDh
  BY DEF NoReq
<1>2. req[t] \in Requests \cup {NoReq} /\ (pc[t] = "idle" <=> req[t] = NoReq)
  BY DEF TypeInv, ThreadType
<1> QED BY <1>1, <1>2, DirsAssumption DEF Requests

\* While a thread serves a request for a handle, other threads only have to give up
\* its lock; and a thread that has the lock has it alone.
LEMMA Alone ==
    ASSUME TypeInv, HandleInv, NEW t \in Threads, NEW u \in Threads,
           t # u, req[t].h = req[u].h, pc[t] # "idle"
    PROVE  /\ pc[u] # "idle"
           /\ pc[t] # "unlock" => pc[u] = "unlock"
           /\ pc[t] \in Holding => pc[u] \notin Holding
           /\ pc[t] \in Reading \cup Closing => pc[u] \notin Reading \cup {"opendir", "reply_open"} \cup Closing
<1>1. req[t].h \in Handles /\ pc[u] # "idle"
  BY HandleOf
<1>2. pc[t] # "unlock" => pc[u] = "unlock"
  BY <1>1 DEF HandleInv, OneRequest
<1>3. pc[t] \in Holding => pc[u] \notin Holding
  <2> SUFFICES ASSUME pc[t] \in Holding, pc[u] \in Holding PROVE FALSE
    OBVIOUS
  <2>1. dh[req[t].h].lock = t /\ dh[req[u].h].lock = u
    BY DEF HandleInv, PlaceInv
  <2> QED BY <2>1
<1> QED BY <1>1, <1>2, <1>3 DEF Reading, Closing

\* A request goes to an idle thread.
LEMMA SendIs ==
    ASSUME TypeInv, NEW op, NEW h \in Handles, NEW off, NEW size, Send(op, h, off, size)
    PROVE  /\ \A u \in Threads : req[u].h = h => pc[u] = "unlock"
           /\ \E t \in Threads :
                /\ pc[t] = "idle"
                /\ req' = [req EXCEPT ![t] = [op |-> op, h |-> h, off |-> off, size |-> size]]
                /\ pc' = [pc EXCEPT ![t] = op]
BY DEF Send, Waits, Goto

\* The dh of a reader in use.
LEMMA DhType ==
    ASSUME TypeInv, NEW h \in Handles, dh[h] # NoDh
    PROVE  dh[h] \in Dhs
BY DEF TypeInv

-----------------------------------------------------------------------------
(* What Readdir leaves in the handle.                                      *)

\* A handle d that a thread t may leave for h, when entries of tried were looked up.
Filled(h, t, d, tried) ==
    /\ d \in Dhs
    /\ d.lock = t
    /\ \A i \in DOMAIN d.contents : d.contents[i].ino =>
          /\ d.contents[i].off = d.contents[i].name
          /\ ~d.error => Plus /\ d.contents[i].name \in tried
    /\ PosInv(h, d)
    /\ ~d.error => ReplyInv(h, d)

\* A record with fields of these types is a dh.
LEMMA DhIs ==
    ASSUME NEW d, NEW first \in Seq(Names), NEW c \in Seq(Entries), NEW filled \in BOOLEAN,
           NEW error \in BOOLEAN, NEW lock \in Threads \cup {Nobody},
           d = [first |-> first, filled |-> filled, contents |-> c, error |-> error,
                lock |-> lock]
    PROVE  d \in Dhs
BY DEF Dhs

\* An error leaves no entries.
LEMMA FailedIs ==
    ASSUME TypeInv, NEW h \in Handles, NEW t \in Threads, NEW tried, PosInv(h, dh[h]),
           Refills(dh[h], pos[h]),
           NEW d, d = [NewDh EXCEPT !.error = TRUE, !.lock = t]
    PROVE  Filled(h, t, d, tried)
<1>1. d = [first |-> <<>>, filled |-> FALSE, contents |-> <<>>, error |-> TRUE, lock |-> t]
  BY DEF NewDh
<1>2. /\ d \in Dhs /\ d.lock = t /\ d.error /\ ~d.filled /\ d.contents = <<>>
  <2>1. <<>> \in Seq(Names) /\ <<>> \in Seq(Entries)
    BY EmptySeq
  <2>2. d \in Dhs
    BY <1>1, <2>1, DhIs
  <2>3. d.lock = t /\ d.error = TRUE /\ d.filled = FALSE /\ d.contents = <<>>
    BY <1>1 DEF NewDh
  <2> QED BY <2>2, <2>3
<1>3. DOMAIN d.contents = {}
  BY <1>2
<1>4. PosInv(h, d)
  <2>1. pos[h] \in Nat
    BY DEF TypeInv
  <2> QED BY <1>2, <2>1 DEF PosInv, Refills
<1> QED BY <1>2, <1>3, <1>4 DEF Filled

\* The names from the offset.
LEMMA OffsetsIs ==
    ASSUME TypeInv, NEW h \in Handles, NEW t \in Threads, NEW size \in Sizes,
           SeenInv(h), PosInv(h, dh[h]), h \in open, mode # "list",
           NEW f, f = FillOffsets(pos[h], size),
           NEW d, d = [f.dh EXCEPT !.lock = t]
    PROVE  /\ ~f.dh.filled
           /\ Filled(h, t, d, f.tried)
           /\ f.tried \subseteq Names
<1>1. dir \subseteq Names /\ pos[h] \in Nat
  BY DEF TypeInv
<1>2. PICK c : c = f.dh.contents
  OBVIOUS
<1>3. /\ f.dh = [NewDh EXCEPT !.contents = c]
      /\ c \in Seq(Entries)
      /\ f.tried \subseteq Names
      /\ \A i \in DOMAIN c : /\ c[i].name = c[i].off
                             /\ c[i].name > pos[h]
                             /\ c[i].name \in dir
                             /\ c[i].name \in f.tried
                             /\ c[i].ino = Plus
      /\ \A i, j \in DOMAIN c : i < j => c[i].name < c[j].name
      /\ \A n \in dir : /\ n > pos[h]
                        /\ c # <<>> => n <= Last(c).off
                        => \E i \in DOMAIN c : c[i].name = n
  BY <1>1, <1>2, FillOffsetsIs
<1>4. d = [first |-> <<>>, filled |-> FALSE, contents |-> c, error |-> FALSE, lock |-> t]
  BY <1>3 DEF NewDh
<1>5. /\ d \in Dhs /\ d.lock = t /\ ~d.error /\ ~d.filled /\ d.contents = c
      /\ ~f.dh.filled
  <2>1. <<>> \in Seq(Names)
    BY EmptySeq
  <2>2. d \in Dhs
    BY <1>3, <1>4, <2>1, DhIs
  <2> QED BY <1>3, <1>4, <2>2 DEF NewDh
<1>6. PosInv(h, d)
  BY <1>5 DEF PosInv
<1>7. dir \subseteq seen[h] /\ stays[h] \subseteq dir
  BY DEF SeenInv
<1>8. ReplyInv(h, d)
  BY <1>3, <1>5, <1>7 DEF ReplyInv
<1>9. \A i \in DOMAIN d.contents : d.contents[i].ino =>
         /\ d.contents[i].off = d.contents[i].name
         /\ ~d.error => Plus /\ d.contents[i].name \in f.tried
  BY <1>3, <1>5
<1> QED BY <1>3, <1>5, <1>6, <1>8, <1>9 DEF Filled

\* A part of a list: that of the handle, or a new one at offset 0.
LEMMA PartIs ==
    ASSUME TypeInv, NEW h \in Handles, NEW t \in Threads, NEW size \in Sizes, NEW tried,
           mode = "list", NEW e \in Dhs, e.filled, ListInv(h, e.first), PosInv(h, e),
           NEW d, d = [e EXCEPT !.lock = t, !.contents = fill_from_list(e.first, pos[h], size)]
    PROVE  Filled(h, t, d, tried)
<1>1. pos[h] \in Nat /\ e.first \in Seq(Names)
  BY DEF TypeInv, Dhs
<1>2. PICK c : c = fill_from_list(e.first, pos[h], size)
  OBVIOUS
<1>3. /\ c \in Seq(Entries)
      /\ c = <<>> => pos[h] >= Len(e.first)
      /\ c # <<>> => pos[h] + Len(c) <= Len(e.first)
      /\ \A i \in DOMAIN c : /\ c[i].name = e.first[pos[h] + i]
                             /\ c[i].off = pos[h] + i
                             /\ ~c[i].ino
  BY <1>1, <1>2, FromListIs
<1>4. /\ d \in Dhs /\ d.lock = t /\ d.contents = c
      /\ d.first = e.first /\ d.filled = e.filled
  BY <1>2, <1>3 DEF Dhs
<1>5. PosInv(h, d)
  BY <1>4 DEF PosInv, ListInv
<1>6. ReplyInv(h, d)
  BY <1>3, <1>4 DEF ReplyInv
<1>7. \A i \in DOMAIN d.contents : ~d.contents[i].ino
  BY <1>3, <1>4
<1> QED BY <1>4, <1>5, <1>6, <1>7 DEF Filled

\* The list that a filesystem fills at offset 0.
LEMMA NewListIs ==
    ASSUME TypeInv, NEW h \in Handles, SeenInv(h), h \in open, mode = "list", pos[h] = 0,
           NEW e, e = FillList.dh
    PROVE  /\ e \in Dhs
           /\ e.contents = <<>>
           /\ ~e.error
           /\ e.filled \/ e.first = <<>>
           /\ ListInv(h, e.first)
           /\ PosInv(h, e)
           /\ FillList.tried \subseteq Names
<1>1. dir \subseteq Names
  BY DEF TypeInv
<1>2. /\ e = [NewDh EXCEPT !.first = e.first, !.filled = dir # {}]
      /\ e.first \in Seq(Names)
      /\ IsInjective(e.first)
      /\ ToSet(e.first) = dir
      /\ FillList.tried = dir
  BY <1>1, FillListIs
<1>3. PICK first : first = e.first
  OBVIOUS
<1>4. e = [first |-> first, filled |-> dir # {}, contents |-> <<>>, error |-> FALSE,
           lock |-> Nobody]
  BY <1>2, <1>3 DEF NewDh
<1>5. /\ e \in Dhs /\ e.contents = <<>> /\ ~e.error
      /\ dir # {} => e.filled
  <2>1. PICK b \in BOOLEAN : b = (dir # {})
    OBVIOUS
  <2>2. e = [first |-> first, filled |-> b, contents |-> <<>>, error |-> FALSE,
             lock |-> Nobody]
    BY <1>4, <2>1
  <2>3. first \in Seq(Names) /\ <<>> \in Seq(Entries)
    BY <1>2, <1>3, EmptySeq
  <2>4. e \in Dhs
    BY <2>2, <2>3, DhIs
  <2>5. e.contents = <<>> /\ ~e.error /\ e.filled = b
    BY <2>2
  <2> QED BY <2>1, <2>4, <2>5
<1>6. dir = {} => e.first = <<>>
  <2> SUFFICES ASSUME dir = {}, e.first # <<>> PROVE FALSE
    OBVIOUS
  <2>1. DOMAIN e.first = 1 .. Len(e.first) /\ Len(e.first) \in Nat \ {0}
    BY <1>2, LenProperties, EmptySeq
  <2>2. 1 \in DOMAIN e.first
    BY <2>1
  <2>3. e.first[1] \in ToSet(e.first)
    BY <2>2 DEF ToSet
  <2> QED BY <1>2, <2>3
<1>7. ListInv(h, e.first)
  BY <1>2 DEF ListInv, SeenInv
<1>8. PosInv(h, e)
  BY DEF PosInv
<1> QED BY <1>1, <1>2, <1>5, <1>6, <1>7, <1>8

\* What Readdir leaves, in every case.
LEMMA ReaddirIs ==
    ASSUME TypeInv, HandleInv, CountInv, ReaderInv, NEW t \in Threads, NEW h \in Handles,
           h = req[t].h, Readdir(t)
    PROVE  \E d \in Dhs, tried \in SUBSET Names :
              /\ dh' = [dh EXCEPT ![h] = d]
              /\ nlookup' = IF Plus THEN Counts(tried) ELSE nlookup
              /\ Filled(h, t, d, tried)
<1>1. pc[t] = "fill"
  BY DEF Readdir
<1>2. /\ h \in open /\ dh[h] # NoDh /\ dh[h] \in Dhs
      /\ req[t].off = pos[h] /\ req[t].size \in Sizes
      /\ pos[h] \in Nat
  BY <1>1, DhType DEF HandleInv, PlaceInv, ReaderInv, Reading, Holding, TypeInv
<1>3. SeenInv(h) /\ PosInv(h, dh[h])
  BY DEF ReaderInv
<1> DEFINE fills == IF Refills(dh[h], pos[h]) THEN readdir_fill(pos[h], req[t].size)
                    ELSE {[dh |-> [dh[h] EXCEPT !.error = FALSE], tried |-> {}]}
           Left(f, full) == IF ~f.dh.filled THEN [f.dh EXCEPT !.lock = t]
                            ELSE IF ~full THEN [f.dh EXCEPT !.lock = t, !.error = TRUE]
                            ELSE [f.dh EXCEPT !.lock = t,
                                  !.contents = fill_from_list(f.dh.first, pos[h], req[t].size)]
<1>4. PICK f \in fills, full \in BOOLEAN :
         /\ nlookup' = IF Plus THEN Counts(f.tried) ELSE nlookup
         /\ dh' = [dh EXCEPT ![h] = Left(f, full)]
  BY <1>2 DEF Readdir
<1> SUFFICES f.tried \subseteq Names /\ Filled(h, t, Left(f, full), f.tried)
  BY <1>4 DEF Filled
<1>5. \A e \in Dhs : /\ ListInv(h, e.first)
                     /\ PosInv(h, e)
                     /\ e.contents = <<>> \/ \A i \in DOMAIN e.contents :
                           e.contents[i].ino => e.contents[i].off = e.contents[i].name
                     => Filled(h, t, [e EXCEPT !.lock = t, !.error = TRUE], f.tried)
  <2> SUFFICES ASSUME NEW e \in Dhs, ListInv(h, e.first), PosInv(h, e),
                      e.contents = <<>> \/ \A i \in DOMAIN e.contents :
                           e.contents[i].ino => e.contents[i].off = e.contents[i].name,
                      NEW d, d = [e EXCEPT !.lock = t, !.error = TRUE]
               PROVE  Filled(h, t, d, f.tried)
    OBVIOUS
  <2>1. /\ d \in Dhs /\ d.lock = t /\ d.error
        /\ d.first = e.first /\ d.filled = e.filled /\ d.contents = e.contents
    BY DEF Dhs
  <2>2. PosInv(h, d)
    <3>1. d # NoDh /\ e # NoDh
      BY <2>1, DirsAssumption
    <3> QED BY <2>1, <3>1 DEF PosInv, ListInv
  <2>3. DOMAIN <<>> = {}
    OBVIOUS
  <2> QED BY <2>1, <2>2, <2>3 DEF Filled
<1>6. CASE Refills(dh[h], pos[h]) /\ \E some \in {{}, dir} :
              f = [dh |-> [NewDh EXCEPT !.error = TRUE], tried |-> some]
  <2>1. f.dh = [NewDh EXCEPT !.error = TRUE] /\ f.tried \in {{}, dir}
    BY <1>6
  <2>2. ~f.dh.filled /\ f.tried \subseteq Names
    BY <2>1 DEF NewDh, TypeInv
  <2>3. Left(f, full) = [NewDh EXCEPT !.error = TRUE, !.lock = t]
    BY <2>1, <2>2 DEF NewDh
  <2> HIDE DEF Left
  <2> QED BY <1>3, <1>6, <2>2, <2>3, FailedIs
<1>7. CASE Refills(dh[h], pos[h]) /\ mode # "list" /\ f = FillOffsets(pos[h], req[t].size)
  <2>1. PICK d : d = [f.dh EXCEPT !.lock = t]
    OBVIOUS
  <2>2. PICK size \in Sizes : size = req[t].size
    BY <1>2
  <2>3. /\ ~f.dh.filled
        /\ Filled(h, t, d, f.tried)
        /\ f.tried \subseteq Names
    BY <1>2, <1>3, <1>7, <2>1, <2>2, OffsetsIs
  <2>4. Left(f, full) = d
    BY <2>1, <2>3
  <2> HIDE DEF Left
  <2> QED BY <2>3, <2>4
<1>8. CASE Refills(dh[h], pos[h]) /\ mode = "list" /\ f = FillList
  <2>1. pos[h] = 0
    BY <1>2, <1>3, <1>8 DEF Refills, PosInv
  <2>2. PICK e : e = f.dh
    OBVIOUS
  <2>3. /\ e \in Dhs
        /\ e.contents = <<>>
        /\ ~e.error
        /\ e.filled \/ e.first = <<>>
        /\ ListInv(h, e.first)
        /\ PosInv(h, e)
        /\ f.tried \subseteq Names
    BY <1>2, <1>3, <1>8, <2>1, <2>2, NewListIs
  <2>4. CASE ~e.filled
    <3>1. PICK d : d = [e EXCEPT !.lock = t]
      OBVIOUS
    <3>2. Left(f, full) = d
      BY <2>2, <2>4, <3>1
    <3>3. /\ d \in Dhs /\ d.lock = t /\ ~d.error
          /\ d.first = <<>> /\ d.first = e.first /\ ~d.filled /\ d.contents = <<>>
      BY <2>3, <2>4, <3>1 DEF Dhs
    <3>4. DOMAIN <<>> = {} /\ Len(<<>>) = 0
      BY EmptySeq
    <3>5. PosInv(h, d)
      BY <1>8, <2>1 DEF PosInv
    <3>6. ReplyInv(h, d)
      BY <1>8, <2>1, <2>3, <3>3, <3>4 DEF ReplyInv
    <3> HIDE DEF Left
    <3> QED BY <2>3, <3>2, <3>3, <3>4, <3>5, <3>6 DEF Filled
  <2>5. CASE e.filled /\ ~full
    <3>1. Left(f, full) = [e EXCEPT !.lock = t, !.error = TRUE]
      BY <2>2, <2>5
    <3> HIDE DEF Left
    <3> QED BY <1>5, <2>3, <3>1
  <2>6. CASE e.filled /\ full
    <3>1. PICK size \in Sizes : size = req[t].size
      BY <1>2
    <3>2. PICK d : d = [e EXCEPT !.lock = t, !.contents = fill_from_list(e.first, pos[h], size)]
      OBVIOUS
    <3>3. Left(f, full) = d
      BY <2>2, <2>6, <3>1, <3>2
    <3>4. Filled(h, t, d, f.tried)
      BY <1>8, <2>3, <2>6, <3>2, PartIs
    <3> HIDE DEF Left
    <3> QED BY <2>3, <3>3, <3>4
  <2> QED BY <2>4, <2>5, <2>6
<1>9. CASE /\ ~Refills(dh[h], pos[h])
           /\ f = [dh |-> [dh[h] EXCEPT !.error = FALSE], tried |-> {}]
  <2>1. PICK e : e = [dh[h] EXCEPT !.error = FALSE]
    OBVIOUS
  <2>2. f.dh = e /\ f.tried = {}
    BY <1>9, <2>1
  <2>3. /\ e \in Dhs
        /\ e.first = dh[h].first /\ e.filled = dh[h].filled /\ e.contents = dh[h].contents
    BY <1>2, <2>1 DEF Dhs
  <2>4. e.filled /\ pos[h] > 0
    BY <1>2, <1>9, <2>3 DEF Refills
  <2>5. mode = "list"
    BY <1>2, <1>3, <2>3, <2>4 DEF PosInv
  <2>6. ListInv(h, e.first) /\ PosInv(h, e)
    BY <1>3, <2>3, <2>4, <2>5 DEF PosInv, ListInv
  <2>7. \A i \in DOMAIN e.contents : e.contents[i].ino => e.contents[i].off = e.contents[i].name
    BY <1>2, <2>3 DEF CountInv
  <2>8. CASE ~full
    <3>1. Left(f, full) = [e EXCEPT !.lock = t, !.error = TRUE]
      BY <2>2, <2>4, <2>8
    <3> HIDE DEF Left
    <3> QED BY <1>5, <2>2, <2>3, <2>6, <2>7, <3>1
  <2>9. CASE full
    <3>1. PICK size \in Sizes : size = req[t].size
      BY <1>2
    <3>2. PICK d : d = [e EXCEPT !.lock = t, !.contents = fill_from_list(e.first, pos[h], size)]
      OBVIOUS
    <3>3. Left(f, full) = d
      BY <2>2, <2>4, <2>9, <3>1, <3>2
    <3>4. Filled(h, t, d, f.tried)
      BY <2>3, <2>4, <2>5, <2>6, <3>2, PartIs
    <3> HIDE DEF Left
    <3> QED BY <2>2, <3>3, <3>4
  <2> QED BY <2>8, <2>9
<1> QED BY <1>6, <1>7, <1>8, <1>9 DEF readdir_fill

-----------------------------------------------------------------------------
(* Steps keep the types.                                                   *)

\* A thread that gets a request, goes on with it, or ends it.
LEMMA ThreadGets ==
    ASSUME TypeInv, NEW t \in Threads, NEW r \in Requests, NEW place \in Places \ {"idle"},
           pc' = [pc EXCEPT ![t] = place], req' = [req EXCEPT ![t] = r]
    PROVE  ThreadType'
<1>1. r # NoReq
  BY DirsAssumption DEF Requests, NoReq
<1> QED BY <1>1 DEF TypeInv, ThreadType

LEMMA ThreadGoes ==
    ASSUME TypeInv, NEW t \in Threads, pc[t] # "idle", NEW place \in Places \ {"idle"},
           Goto(t, place), req' = req
    PROVE  ThreadType'
BY DEF TypeInv, ThreadType, Goto

LEMMA ThreadEnds ==
    ASSUME TypeInv, NEW t \in Threads, Ends(t)
    PROVE  ThreadType'
<1>1. "idle" \in Places
  BY DEF Places
<1> QED BY <1>1 DEF TypeInv, ThreadType, Ends, Goto

\* The kernel's requests.
LEMMA SendTypes ==
    ASSUME TypeInv, NEW op \in {"opendir", "readdir", "releasedir"}, NEW h \in Handles,
           NEW off \in Nat, NEW size \in Sizes \cup {0}, Send(op, h, off, size)
    PROVE  ThreadType'
<1>1. PICK t \in Threads :
         /\ req' = [req EXCEPT ![t] = [op |-> op, h |-> h, off |-> off, size |-> size]]
         /\ pc' = [pc EXCEPT ![t] = op]
  BY SendIs
<1>2. PICK r \in Requests : r = [op |-> op, h |-> h, off |-> off, size |-> size]
  BY DEF Requests
<1>3. op \in Places \ {"idle"}
  BY DEF Places, Reading, Closing
<1>4. req' = [req EXCEPT ![t] = r]
  BY <1>1, <1>2
<1> QED BY <1>1, <1>3, <1>4, ThreadGets

\* Begins starts a reader with some names.
LEMMA BeginsTypes ==
    ASSUME TypeInv, NEW h \in Handles, NEW names \in SUBSET Names, Begins(h, names)
    PROVE  /\ pos' \in [Handles -> Nat]
           /\ got' \in [Handles -> Seq(Names)]
           /\ atend' \subseteq Handles
           /\ seen' \in [Handles -> SUBSET Names]
           /\ stays' \in [Handles -> SUBSET Names]
BY EmptySeq DEF TypeInv, Begins

\* Types hold after every step of the kernel and of the directory.
LEMMA KernelTypes ==
    ASSUME TypeInv, Kernel \/ Changes
    PROVE  TypeInv'
<1>1. ASSUME NEW h \in Handles, SendOpendir(h) PROVE TypeInv'
  <2>1. ThreadType'
    BY <1>1, SendTypes DEF SendOpendir
  <2> QED BY <1>1, <2>1 DEF SendOpendir, Send, reader, TypeInv
<1>2. ASSUME NEW h \in Handles, SendReaddir(h) PROVE TypeInv'
  <2>0. pos[h] \in Nat
    BY DEF TypeInv
  <2>1. PICK size \in Sizes : Send("readdir", h, pos[h], size)
    BY <1>2 DEF SendReaddir
  <2>2. ThreadType'
    BY <2>0, <2>1, SendTypes
  <2> QED BY <1>2, <2>1, <2>2 DEF SendReaddir, Send, reader, TypeInv
<1>3. ASSUME NEW h \in Handles, SendReleasedir(h) PROVE TypeInv'
  <2>1. ThreadType'
    BY <1>3, SendTypes DEF SendReleasedir
  <2>2. /\ pos' \in [Handles -> Nat]
        /\ got' \in [Handles -> Seq(Names)]
        /\ atend' \subseteq Handles
        /\ seen' \in [Handles -> SUBSET Names]
        /\ stays' \in [Handles -> SUBSET Names]
    BY <1>3, BeginsTypes DEF SendReleasedir
  <2> QED BY <1>3, <2>1, <2>2 DEF SendReleasedir, Send, TypeInv
<1>4. ASSUME NEW h \in Handles, Rewinddir(h) PROVE TypeInv'
  <2>1. /\ pos' \in [Handles -> Nat]
        /\ got' \in [Handles -> Seq(Names)]
        /\ atend' \subseteq Handles
        /\ seen' \in [Handles -> SUBSET Names]
        /\ stays' \in [Handles -> SUBSET Names]
    BY <1>4, BeginsTypes DEF Rewinddir, TypeInv
  <2> QED BY <1>4, <2>1 DEF Rewinddir, TypeInv, ThreadType
<1>5. ASSUME NEW n \in Names, Forget(n) PROVE TypeInv'
  BY <1>5 DEF Forget, reader, TypeInv, ThreadType
<1>6. ASSUME NEW n \in Names, Create(n) PROVE TypeInv'
  BY <1>6 DEF Create, kernel, TypeInv, ThreadType
<1>7. ASSUME NEW n \in Names, Unlink(n) PROVE TypeInv'
  BY <1>7 DEF Unlink, kernel, TypeInv, ThreadType
<1> QED BY <1>1, <1>2, <1>3, <1>4, <1>5, <1>6, <1>7 DEF Kernel, Changes

\* ReplyDir tells the reader the names of new, the entries of the handle, and leaves
\* none.
LEMMA ReplyDirIs ==
    ASSUME TypeInv, HandleInv, NEW t \in Threads, NEW h \in Handles, h = req[t].h, ReplyDir(t)
    PROVE  /\ dh[h] \in Dhs
           /\ dh[h].contents \in Seq(Entries)
           /\ [i \in DOMAIN dh[h].contents |-> dh[h].contents[i].name] \in Seq(Names)
           /\ dh[h].contents # <<>> => /\ Last(dh[h].contents).off \in Nat
                                       /\ Len(dh[h].contents) \in DOMAIN dh[h].contents
           /\ \E d \in Dhs : /\ dh' = [dh EXCEPT ![h] = d]
                             /\ d.first = dh[h].first /\ d.filled = dh[h].filled
                             /\ d.contents = <<>> /\ ~d.error /\ d.lock = dh[h].lock
<1>1. dh[h] # NoDh /\ dh[h] \in Dhs
  BY DhType DEF ReplyDir, HandleInv, PlaceInv, Holding
<1> DEFINE c == dh[h].contents
<1>2. /\ c \in Seq(Entries)
      /\ Len(c) \in Nat
      /\ DOMAIN c = 1 .. Len(c)
      /\ \A i \in 1 .. Len(c) : c[i] \in Entries
      /\ c # <<>> => Len(c) # 0
  <2>1. c \in Seq(Entries)
    BY <1>1 DEF Dhs
  <2> HIDE DEF c
  <2> QED BY <2>1, LenProperties, ElementOfSeq, EmptySeq
<1>3. PICK d : d = [dh[h] EXCEPT !.contents = <<>>, !.error = FALSE]
  OBVIOUS
<1>4. /\ d \in Dhs
      /\ d.first = dh[h].first /\ d.filled = dh[h].filled
      /\ d.contents = <<>> /\ ~d.error /\ d.lock = dh[h].lock
  BY <1>1, <1>3, EmptySeq DEF Dhs
<1>5. dh' = [dh EXCEPT ![h] = d]
  BY <1>1, <1>3 DEF ReplyDir, TypeInv
<1> HIDE DEF c
<1>6. [i \in DOMAIN c |-> c[i].name] \in Seq(Names)
  <2>1. [i \in DOMAIN c |-> c[i].name] \in [1 .. Len(c) -> Names]
    BY <1>2 DEF Entries
  <2> QED BY <1>2, <2>1, SeqDef
<1>7. c # <<>> => Last(c).off \in Nat /\ Len(c) \in DOMAIN c
  BY <1>2 DEF Last, Entries
<1> QED BY <1>1, <1>2, <1>4, <1>5, <1>6, <1>7 DEF c

\* Types hold after every step of a thread.
LEMMA ThreadTypes ==
    ASSUME TypeInv, HandleInv, CountInv, ReaderInv, NEW t \in Threads, Step(t)
    PROVE  TypeInv'
<1> PICK h : h = req[t].h
  OBVIOUS
<1>1. pc[t] # "idle" => h \in Handles
  BY HandleOf
<1>2. CASE Opendir(t)
  <2>1. h \in Handles
    BY <1>1, <1>2 DEF Opendir
  <2>2. CASE Ends(t) /\ UNCHANGED <<dh, fsopen>>
    BY <1>2, <2>2, ThreadEnds DEF Opendir, kernel, reader, TypeInv
  <2>3. CASE /\ dh' = [dh EXCEPT ![h] = NewDh]
             /\ fsopen' = fsopen \cup {h}
             /\ Goto(t, "reply_open")
             /\ req' = req
    <3>1. "reply_open" \in Places \ {"idle"}
      BY DEF Places
    <3>2. ThreadType'
      BY <1>2, <2>3, <3>1, ThreadGoes DEF Opendir
    <3> QED BY <1>2, <2>1, <2>3, <3>2, NewDhIs DEF Opendir, kernel, reader, TypeInv
  <2> QED BY <1>2, <2>2, <2>3 DEF Opendir
<1>3. CASE ReplyOpen(t)
  <2>1. h \in Handles /\ dir \in SUBSET Names
    BY <1>1, <1>3 DEF ReplyOpen, TypeInv
  <2>2. /\ pos' \in [Handles -> Nat]
        /\ got' \in [Handles -> Seq(Names)]
        /\ atend' \subseteq Handles
        /\ seen' \in [Handles -> SUBSET Names]
        /\ stays' \in [Handles -> SUBSET Names]
    BY <1>3, <2>1, BeginsTypes DEF ReplyOpen
  <2>3. ThreadType'
    BY <1>3, ThreadEnds DEF ReplyOpen
  <2> QED BY <1>3, <2>1, <2>2, <2>3 DEF ReplyOpen, TypeInv
<1>4. CASE CancelOpen(t)
  <2>1. ThreadType' /\ h \in Handles
    BY <1>1, <1>4, ThreadEnds DEF CancelOpen
  <2> QED BY <1>4, <2>1 DEF CancelOpen, kernel, reader, TypeInv
<1>5. CASE Releasedir(t)
  <2>1. "wait_reader" \in Places \ {"idle"}
    BY DEF Places, Closing
  <2>2. ThreadType'
    BY <1>5, <2>1, ThreadGoes DEF Releasedir
  <2> QED BY <1>5, <2>2 DEF Releasedir, kernel, reader, TypeInv
<1>6. CASE WaitReader(t)
  <2>1. "free" \in Places \ {"idle"}
    BY DEF Places, Closing
  <2>2. ThreadType'
    BY <1>6, <2>1, ThreadGoes DEF WaitReader
  <2> QED BY <1>6, <2>2 DEF WaitReader, kernel, reader, TypeInv
<1>7. CASE FreeDh(t)
  <2>1. ThreadType' /\ h \in Handles
    BY <1>1, <1>7, ThreadEnds DEF FreeDh
  <2> QED BY <1>7, <2>1 DEF FreeDh, kernel, reader, TypeInv
<1>8. CASE LockDh(t)
  <2>1. "fill" \in Places \ {"idle"}
    BY DEF Places, Reading
  <2>2. ThreadType' /\ h \in Handles
    BY <1>1, <1>8, <2>1, ThreadGoes DEF LockDh
  <2>3. dh[h] \in Dhs
    BY <1>8, <2>2, DhType DEF LockDh, HandleInv, PlaceInv, DhInv, Reading
  <2>4. [dh[h] EXCEPT !.lock = t] \in Dhs
    BY <2>3 DEF Dhs
  <2>5. dh' = [dh EXCEPT ![h] = [dh[h] EXCEPT !.lock = t]]
    BY <1>8, <2>2 DEF LockDh, TypeInv
  <2> QED BY <1>8, <2>2, <2>4, <2>5 DEF LockDh, kernel, reader, TypeInv
<1>9. CASE Readdir(t)
  <2>1. "reply" \in Places \ {"idle"}
    BY DEF Places, Reading
  <2>2. ThreadType' /\ h \in Handles
    BY <1>1, <1>9, <2>1, ThreadGoes DEF Readdir
  <2>3. PICK d \in Dhs, tried \in SUBSET Names : dh' = [dh EXCEPT ![h] = d]
    BY <1>9, <2>2, ReaddirIs
  <2> QED BY <1>9, <2>2, <2>3 DEF Readdir, kernel, reader, TypeInv
<1>10. CASE ReplyDir(t)
  <2>1. "unlock" \in Places \ {"idle"}
    BY DEF Places, Holding
  <2>2. ThreadType' /\ h \in Handles
    BY <1>1, <1>10, <2>1, ThreadGoes DEF ReplyDir
  <2>3. PICK d \in Dhs : dh' = [dh EXCEPT ![h] = d]
    BY <1>10, <2>2, ReplyDirIs
  <2> DEFINE c == dh[h].contents
             names == [i \in DOMAIN c |-> c[i].name]
  <2>4. names \in Seq(Names) /\ (c # <<>> => Last(c).off \in Nat)
    BY <1>10, <2>2, ReplyDirIs
  <2>5. \/ UNCHANGED <<pos, got, atend>>
        \/ atend' = atend \cup {h} /\ UNCHANGED <<pos, got>>
        \/ /\ c # <<>>
           /\ pos' = [pos EXCEPT ![h] = Last(c).off]
           /\ got' = [got EXCEPT ![h] = @ \o names]
           /\ UNCHANGED atend
    BY <1>10 DEF ReplyDir
  <2> HIDE DEF c, names
  <2>6. got[h] \o names \in Seq(Names)
    BY <2>2, <2>4, ConcatProperties DEF TypeInv
  <2>7. /\ pos' \in [Handles -> Nat]
        /\ got' \in [Handles -> Seq(Names)]
        /\ atend' \subseteq Handles
    <3>1. /\ pos \in [Handles -> Nat]
          /\ got \in [Handles -> Seq(Names)]
          /\ atend \subseteq Handles
      BY DEF TypeInv
    <3>2. CASE /\ c # <<>>
               /\ pos' = [pos EXCEPT ![h] = Last(c).off]
               /\ got' = [got EXCEPT ![h] = @ \o names]
               /\ UNCHANGED atend
      <4>1. got' = [got EXCEPT ![h] = got[h] \o names]
        BY <2>2, <3>1, <3>2
      <4> QED BY <2>2, <2>4, <2>6, <3>1, <3>2, <4>1
    <3> QED BY <2>2, <2>5, <3>1, <3>2
  <2>8. UNCHANGED <<dir, mode, fsopen, open, seen, stays>>
    BY <1>10 DEF ReplyDir
  <2> QED BY <2>2, <2>3, <2>7, <2>8 DEF TypeInv
<1>11. CASE UnlockDh(t)
  <2>1. ThreadType' /\ h \in Handles
    BY <1>1, <1>11, ThreadEnds DEF UnlockDh
  <2>2. dh[h] \in Dhs
    BY <1>11, <2>1, DhType DEF UnlockDh, HandleInv, PlaceInv, Holding
  <2>3. [dh[h] EXCEPT !.lock = Nobody] \in Dhs
    BY <2>2 DEF Dhs
  <2>4. dh' = [dh EXCEPT ![h] = [dh[h] EXCEPT !.lock = Nobody]]
    BY <1>11, <2>1 DEF UnlockDh, TypeInv
  <2> QED BY <1>11, <2>1, <2>3, <2>4 DEF UnlockDh, kernel, reader, TypeInv
<1> QED BY <1>2, <1>3, <1>4, <1>5, <1>6, <1>7, <1>8, <1>9, <1>10, <1>11 DEF Step

-----------------------------------------------------------------------------
(* Steps keep handles and threads together.                                *)

\* A step of one thread on one handle keeps what other threads and handles say.
LEMMA HandleFrame ==
    ASSUME TypeInv, HandleInv, TypeInv', NEW t \in Threads, NEW h \in Handles,
           req[t].h = h \/ req[t].h \notin Handles,
           req'[t].h = h \/ req'[t].h \notin Handles,
           \A u \in Threads \ {t} : pc'[u] = pc[u] /\ req'[u] = req[u],
           \A g \in Handles \ {h} : /\ dh'[g] = dh[g]
                                    /\ g \in open' <=> g \in open
                                    /\ g \in fsopen' <=> g \in fsopen,
           PlaceInv(t)',
           \A u \in Threads \ {t} : req[u].h = h => PlaceInv(u)',
           pc'[t] \notin {"idle", "unlock"} =>
              \A u \in Threads \ {t} : req[u].h = h => pc[u] = "unlock",
           DhInv(h)'
    PROVE  HandleInv'
<1>1. ASSUME NEW u \in Threads, u # t, req[u].h # h
      PROVE  PlaceInv(u)'
  <2>1. PlaceInv(u) /\ pc'[u] = pc[u] /\ req'[u] = req[u]
    BY <1>1 DEF HandleInv
  <2>2. CASE pc[u] = "idle"
    BY <2>1, <2>2 DEF PlaceInv, Reading, Closing, Holding
  <2>3. CASE pc[u] # "idle"
    <3>1. PICK g \in Handles \ {h} : g = req[u].h
      BY <1>1, <2>3, HandleOf
    <3>2. /\ dh'[g] = dh[g]
          /\ g \in open' <=> g \in open
          /\ g \in fsopen' <=> g \in fsopen
      OBVIOUS
    <3>3. ASSUME NEW v \in Threads, req[v].h = g
          PROVE  req'[v].h = g /\ pc'[v] = pc[v]
      <4>1. v # t
        BY <3>1, <3>3
      <4> QED BY <3>3, <4>1
    <3> QED BY <2>1, <3>1, <3>2, <3>3 DEF PlaceInv
  <2> QED BY <2>2, <2>3
<1>2. ASSUME NEW g \in Handles, g # h
      PROVE  DhInv(g)'
  <2>1. /\ dh'[g] = dh[g]
        /\ g \in open' <=> g \in open
        /\ g \in fsopen' <=> g \in fsopen
        /\ DhInv(g)
    BY <1>2 DEF HandleInv
  <2>2. ASSUME NEW v \in Threads, req[v].h = g
        PROVE  req'[v].h = g /\ pc'[v] = pc[v]
    <3>1. v # t
      BY <1>2, <2>2
    <3> QED BY <2>2, <3>1
  <2>3. dh[g] # NoDh /\ dh[g].lock # Nobody => dh[g].lock \in Threads
    BY DhType DEF Dhs
  <2> QED BY <2>1, <2>2, <2>3 DEF DhInv, Using
<1>3. OneRequest'
  <2> SUFFICES ASSUME NEW u \in Threads, NEW v \in Threads,
                      req'[u].h = req'[v].h,
                      pc'[u] \notin {"idle", "unlock"}, pc'[v] \notin {"idle", "unlock"},
                      u # v
               PROVE  FALSE
    BY DEF OneRequest
  <2>1. ASSUME NEW w \in Threads, w # t, req'[w].h = req'[t].h,
               pc'[t] \notin {"idle", "unlock"}, pc'[w] \notin {"idle", "unlock"}
        PROVE  FALSE
    <3>1. pc[w] # "unlock" /\ pc[w] # "idle" /\ req'[w] = req[w]
      BY <2>1
    <3>2. req[w].h \in Handles
      BY <3>1, HandleOf
    <3>3. req[w].h = h
      BY <2>1, <3>1, <3>2
    <3> QED BY <2>1, <3>1, <3>3
  <2>2. CASE u # t /\ v # t
    BY <2>2 DEF HandleInv, OneRequest
  <2> QED BY <2>1, <2>2
<1> QED BY <1>1, <1>2, <1>3 DEF HandleInv

\* Requests are sent for open files, or for those that no thread uses.
LEMMA KernelHandles ==
    ASSUME TypeInv, HandleInv, TypeInv', Kernel \/ Changes
    PROVE  HandleInv'
<1>1. ASSUME NEW op \in {"opendir", "readdir", "releasedir"}, NEW h \in Handles,
             NEW off \in Nat, NEW size, Send(op, h, off, size),
             \A g \in Handles \ {h} : g \in open' <=> g \in open,
             op = "opendir" => h \notin open /\ h \notin open',
             op = "readdir" => h \in open /\ h \in open',
             op = "releasedir" => h \in open /\ h \notin open'
      PROVE  HandleInv'
  <2>1. PICK t \in Threads :
           /\ pc[t] = "idle"
           /\ req' = [req EXCEPT ![t] = [op |-> op, h |-> h, off |-> off, size |-> size]]
           /\ pc' = [pc EXCEPT ![t] = op]
    BY <1>1, SendIs
  <2>2. \A u \in Threads : req[u].h = h => pc[u] = "unlock"
    BY <1>1, SendIs
  <2>3. req[t].h \notin Handles
    BY <2>1, HandleOf
  <2>4. /\ pc'[t] = op /\ req'[t].h = h
        /\ \A u \in Threads \ {t} : pc'[u] = pc[u] /\ req'[u] = req[u]
        /\ dh' = dh /\ fsopen' = fsopen
    BY <1>1, <2>1 DEF Send, TypeInv, ThreadType
  <2>5. /\ h \in open => dh[h] # NoDh
        /\ h \notin open => dh[h] = NoDh /\ h \notin fsopen
    <3>1. DhInv(h)
      BY DEF HandleInv
    <3>2. ASSUME h \notin open PROVE Using(h) = {}
      <4> SUFFICES ASSUME NEW u \in Threads, req[u].h = h PROVE FALSE
        BY DEF Using
      <4>1. pc[u] = "unlock" /\ PlaceInv(u)
        BY <2>2 DEF HandleInv
      <4>2. PICK v \in Threads : req[v].h = h /\ pc[v] \in {"releasedir", "wait_reader"}
        BY <3>2, <4>1 DEF PlaceInv
      <4> QED BY <2>2, <4>2
    <3> QED BY <3>1, <3>2 DEF DhInv
  <2>6. PlaceInv(t)'
    BY <1>1, <2>4, <2>5 DEF PlaceInv, Reading, Closing, Holding
  <2>7. ASSUME NEW u \in Threads \ {t}, req[u].h = h
        PROVE  PlaceInv(u)'
    <3>1. pc[u] = "unlock" /\ PlaceInv(u)
      BY <2>2, <2>7 DEF HandleInv
    <3>2. h \in open
      <4> SUFFICES ASSUME h \notin open PROVE FALSE
        OBVIOUS
      <4>1. PICK v \in Threads : req[v].h = h /\ pc[v] \in {"releasedir", "wait_reader"}
        BY <2>7, <3>1 DEF PlaceInv
      <4> QED BY <2>2, <4>1
    <3>3. h \in open' \/ pc'[t] = "releasedir"
      BY <1>1, <2>4, <3>2
    <3> QED BY <2>4, <2>7, <3>1, <3>3 DEF PlaceInv, Reading, Closing, Holding
  <2>8. DhInv(h)'
    <3>1. DhInv(h)
      BY DEF HandleInv
    <3>2. h \in open' => h \in open
      BY <1>1
    <3>3. dh[h] # NoDh /\ dh[h].lock # Nobody => dh[h].lock \in Threads \ {t}
      <4>1. dh[h] # NoDh => dh[h] \in Dhs
        BY DhType
      <4>2. dh[h] # NoDh /\ dh[h].lock # Nobody => pc[dh[h].lock] \in Holding
        BY <3>1 DEF DhInv
      <4> QED BY <2>1, <4>1, <4>2 DEF Dhs, Holding
    <3>4. dh[h] # NoDh \/ h \in fsopen => h \in open' \/ pc'[t] = "releasedir"
      BY <1>1, <2>4, <2>5
    <3> QED BY <2>4, <2>5, <3>1, <3>2, <3>3, <3>4 DEF DhInv, Using
  <2> QED BY <1>1, <2>2, <2>3, <2>4, <2>6, <2>7, <2>8, HandleFrame
<1>2. ASSUME NEW h \in Handles, SendOpendir(h) PROVE HandleInv'
  BY <1>1, <1>2 DEF SendOpendir
<1>3. ASSUME NEW h \in Handles, SendReaddir(h) PROVE HandleInv'
  <2>1. PICK size \in Sizes : Send("readdir", h, pos[h], size)
    BY <1>3 DEF SendReaddir
  <2>2. pos[h] \in Nat
    BY DEF TypeInv
  <2> QED BY <1>1, <1>3, <2>1, <2>2 DEF SendReaddir
<1>4. ASSUME NEW h \in Handles, SendReleasedir(h) PROVE HandleInv'
  BY <1>1, <1>4 DEF SendReleasedir
<1>5. ASSUME UNCHANGED <<fsopen, dh, pc, req, open>> PROVE HandleInv'
  BY <1>5 DEF HandleInv, PlaceInv, DhInv, OneRequest, Using
<1>6. ASSUME NEW h \in Handles, Rewinddir(h) PROVE HandleInv'
  BY <1>5, <1>6 DEF Rewinddir
<1>7. ASSUME NEW n \in Names, Forget(n) \/ Create(n) \/ Unlink(n) PROVE HandleInv'
  BY <1>5, <1>7 DEF Forget, Create, Unlink, kernel
<1> QED BY <1>2, <1>3, <1>4, <1>6, <1>7 DEF Kernel, Changes

\* A thread opens the directory, or gives up; releases it; or reads from it.
LEMMA ThreadHandles ==
    ASSUME TypeInv, HandleInv, CountInv, ReaderInv, TypeInv', NEW t \in Threads, Step(t)
    PROVE  HandleInv'
<1>1. pc[t] # "idle"
  BY DEF Step, Opendir, ReplyOpen, CancelOpen, Releasedir, WaitReader, FreeDh, LockDh,
         Readdir, ReplyDir, UnlockDh
<1>2. PICK h \in Handles : h = req[t].h
  BY <1>1, HandleOf
<1>3. PlaceInv(t) /\ DhInv(h) /\ \A u \in Threads : PlaceInv(u)
  BY DEF HandleInv
<1>4. dh[h] # NoDh => dh[h] \in Dhs
  BY DhType
<1>5. NoReq.h = NoDh /\ NoDh \notin Handles
  BY DirsAssumption DEF NoReq
\* The others that use the handle have to give up its lock.
<1>6. pc[t] # "unlock" => \A u \in Threads \ {t} : req[u].h = h =>
          /\ pc[u] = "unlock"
          /\ dh[h] # NoDh /\ dh[h].lock = u
          /\ \/ h \in open
             \/ \E v \in Threads : req[v].h = h /\ pc[v] \in {"releasedir", "wait_reader"}
  <2> SUFFICES ASSUME pc[t] # "unlock", NEW u \in Threads \ {t}, req[u].h = h
               PROVE  /\ pc[u] = "unlock"
                      /\ dh[h] # NoDh /\ dh[h].lock = u
                      /\ \/ h \in open
                         \/ \E v \in Threads : req[v].h = h /\ pc[v] \in {"releasedir", "wait_reader"}
    OBVIOUS
  <2>1. pc[u] = "unlock"
    BY <1>1, <1>2, Alone
  <2> QED BY <1>3, <2>1 DEF PlaceInv, Holding
<1>7. ASSUME NEW place, Goto(t, place)
      PROVE  pc'[t] = place /\ \A u \in Threads \ {t} : pc'[u] = pc[u]
  BY <1>7 DEF Goto, TypeInv, ThreadType
<1>8. ASSUME Ends(t)
      PROVE  /\ pc'[t] = "idle" /\ req'[t] = NoReq /\ req'[t].h \notin Handles
             /\ \A u \in Threads \ {t} : pc'[u] = pc[u] /\ req'[u] = req[u]
  BY <1>5, <1>8 DEF Ends, Goto, TypeInv, ThreadType
<1>9. ASSUME NEW d, dh' = [dh EXCEPT ![h] = d]
      PROVE  dh'[h] = d /\ \A g \in Handles \ {h} : dh'[g] = dh[g]
  BY <1>9 DEF TypeInv
<1>10. CASE Opendir(t)
  <2>1. /\ pc[t] = "opendir" /\ h \notin open /\ dh[h] = NoDh /\ h \notin fsopen
        /\ open' = open
        /\ \A u \in Threads \ {t} : req[u].h # h
    BY <1>2, <1>3, <1>6, <1>10 DEF Opendir, PlaceInv, kernel
  <2>2. CASE Ends(t) /\ UNCHANGED <<dh, fsopen>>
    <3>1. PlaceInv(t)'
      BY <1>8, <2>2 DEF PlaceInv, Reading, Closing, Holding
    <3>2. DhInv(h)'
      BY <2>1, <2>2 DEF DhInv
    <3> QED BY <1>2, <1>8, <2>1, <2>2, <3>1, <3>2, HandleFrame
  <2>3. CASE /\ dh' = [dh EXCEPT ![h] = NewDh]
             /\ fsopen' = fsopen \cup {h}
             /\ Goto(t, "reply_open")
             /\ req' = req
    <3>1. dh'[h] = NewDh /\ NewDh # NoDh /\ NewDh.lock = Nobody
      BY <1>9, <2>3, NewDhIs, DirsAssumption
    <3>2. PlaceInv(t)'
      BY <1>2, <1>7, <2>1, <2>3, <3>1 DEF PlaceInv, Reading, Closing, Holding
    <3>3. DhInv(h)'
      BY <1>2, <1>7, <2>1, <2>3, <3>1 DEF DhInv, Using
    <3>4. \A g \in Handles \ {h} : g \in fsopen' <=> g \in fsopen
      BY <2>3
    <3> QED BY <1>2, <1>7, <1>9, <2>1, <2>3, <3>2, <3>3, <3>4, HandleFrame
  <2> QED BY <1>2, <1>10, <2>2, <2>3 DEF Opendir
<1>11. CASE ReplyOpen(t)
  <2>1. /\ pc[t] = "reply_open" /\ h \notin open /\ dh[h] # NoDh /\ dh[h].lock = Nobody
        /\ open' = open \cup {h} /\ dh' = dh /\ fsopen' = fsopen /\ Ends(t)
    BY <1>2, <1>3, <1>11 DEF ReplyOpen, PlaceInv
  <2>2. \A u \in Threads \ {t} : req[u].h # h
    BY <1>6, <2>1, DirsAssumption
  <2>3. PlaceInv(t)'
    BY <1>8, <2>1 DEF PlaceInv, Reading, Closing, Holding
  <2>4. DhInv(h)'
    BY <2>1 DEF DhInv
  <2>5. \A g \in Handles \ {h} : g \in open' <=> g \in open
    BY <2>1
  <2> QED BY <1>2, <1>8, <2>1, <2>2, <2>3, <2>4, <2>5, HandleFrame
<1>12. CASE CancelOpen(t)
  <2>1. /\ pc[t] = "reply_open" /\ h \notin open /\ dh[h] # NoDh /\ dh[h].lock = Nobody
        /\ open' = open /\ fsopen' = fsopen \ {h} /\ Ends(t)
        /\ dh' = [dh EXCEPT ![h] = NoDh]
    BY <1>2, <1>3, <1>12 DEF CancelOpen, PlaceInv, kernel
  <2>2. \A u \in Threads \ {t} : req[u].h # h
    BY <1>6, <2>1, DirsAssumption
  <2>3. PlaceInv(t)'
    BY <1>8, <2>1 DEF PlaceInv, Reading, Closing, Holding
  <2>4. DhInv(h)'
    BY <1>9, <2>1 DEF DhInv
  <2>5. \A g \in Handles \ {h} : dh'[g] = dh[g] /\ (g \in fsopen' <=> g \in fsopen)
    BY <1>9, <2>1
  <2> QED BY <1>2, <1>8, <2>1, <2>2, <2>3, <2>4, <2>5, HandleFrame
<1>13. CASE Releasedir(t)
  <2>1. /\ pc[t] = "releasedir" /\ h \notin open /\ dh[h] # NoDh
        /\ open' = open /\ fsopen' = fsopen \ {h} /\ dh' = dh /\ req' = req
        /\ Goto(t, "wait_reader")
    BY <1>2, <1>3, <1>13 DEF Releasedir, PlaceInv, kernel, Closing
  <2>2. PlaceInv(t)'
    BY <1>2, <1>7, <2>1 DEF PlaceInv, Reading, Closing, Holding
  <2>3. ASSUME NEW u \in Threads \ {t}, req[u].h = h PROVE PlaceInv(u)'
    BY <1>2, <1>6, <1>7, <2>1, <2>3 DEF PlaceInv, Reading, Closing, Holding
  <2>4. DhInv(h)'
    <3>1. dh[h].lock # Nobody => /\ dh[h].lock \in Threads \ {t}
                                 /\ pc[dh[h].lock] \in Holding /\ req[dh[h].lock].h = h
      BY <1>3, <1>4, <2>1 DEF DhInv, Dhs, Holding
    <3> QED BY <1>2, <1>7, <2>1, <3>1 DEF DhInv, Using
  <2>5. \A g \in Handles \ {h} : g \in fsopen' <=> g \in fsopen
    BY <2>1
  <2>6. pc[t] # "unlock"
    BY <2>1
  <2> QED BY <1>2, <1>6, <1>7, <2>1, <2>2, <2>3, <2>4, <2>5, <2>6, HandleFrame
<1>14. CASE WaitReader(t)
  <2>1. /\ pc[t] = "wait_reader" /\ h \notin open /\ dh[h] # NoDh /\ h \notin fsopen
        /\ dh[h].lock = Nobody
        /\ open' = open /\ fsopen' = fsopen /\ dh' = dh /\ req' = req
        /\ Goto(t, "free")
    BY <1>2, <1>3, <1>14 DEF WaitReader, PlaceInv, kernel, Closing
  <2>2. \A u \in Threads \ {t} : req[u].h # h
    BY <1>6, <2>1, DirsAssumption
  <2>3. PlaceInv(t)'
    BY <1>2, <1>7, <2>1 DEF PlaceInv, Reading, Closing, Holding
  <2>4. DhInv(h)'
    BY <1>2, <1>7, <2>1 DEF DhInv, Using
  <2> QED BY <1>2, <1>7, <2>1, <2>2, <2>3, <2>4, HandleFrame
<1>15. CASE FreeDh(t)
  <2>1. /\ pc[t] = "free" /\ h \notin open /\ dh[h] # NoDh /\ h \notin fsopen
        /\ dh[h].lock = Nobody
        /\ open' = open /\ fsopen' = fsopen /\ dh' = [dh EXCEPT ![h] = NoDh]
        /\ Ends(t)
    BY <1>2, <1>3, <1>15 DEF FreeDh, PlaceInv, kernel, Closing
  <2>2. \A u \in Threads \ {t} : req[u].h # h
    BY <1>6, <2>1, DirsAssumption
  <2>3. PlaceInv(t)'
    BY <1>8, <2>1 DEF PlaceInv, Reading, Closing, Holding
  <2>4. DhInv(h)'
    BY <1>9, <2>1 DEF DhInv
  <2> QED BY <1>2, <1>8, <1>9, <2>1, <2>2, <2>3, <2>4, HandleFrame
\* The steps of a reader that leave a handle d with the lock at t.
<1>16. ASSUME NEW d \in Dhs, dh' = [dh EXCEPT ![h] = d], d.lock = t,
              pc[t] \in Reading, NEW place \in {"fill", "reply", "unlock"}, Goto(t, place),
              \A u \in Threads \ {t} : req[u].h # h,
              UNCHANGED <<open, fsopen, req>>
       PROVE  HandleInv'
  <2>1. h \in open /\ d # NoDh
    BY <1>2, <1>3, <1>16, DirsAssumption DEF PlaceInv
  <2>2. PlaceInv(t)'
    <3>1. /\ pc'[t] = place /\ req'[t] = req[t] /\ req'[t].h = h
          /\ dh'[h] = d /\ open' = open
      BY <1>2, <1>7, <1>9, <1>16
    <3> QED BY <1>16, <2>1, <3>1 DEF PlaceInv, Reading, Closing, Holding
  <2>3. DhInv(h)'
    BY <1>2, <1>7, <1>9, <1>16, <2>1 DEF DhInv, Holding
  <2> QED BY <1>2, <1>7, <1>9, <1>16, <2>2, <2>3, HandleFrame
<1>17. ASSUME pc[t] \in {"fill", "reply"}
       PROVE  \A u \in Threads \ {t} : req[u].h # h
  <2>1. pc[t] # "unlock" /\ dh[h].lock = t
    BY <1>2, <1>3, <1>17 DEF PlaceInv, Holding
  <2> QED BY <1>6, <2>1
<1>18. CASE LockDh(t)
  <2>1. /\ pc[t] = "readdir" /\ h \in open /\ dh[h] # NoDh /\ dh[h].lock = Nobody
        /\ UNCHANGED <<open, fsopen, req>>
        /\ Goto(t, "fill")
    BY <1>2, <1>3, <1>18 DEF LockDh, PlaceInv, DhInv, kernel, Reading
  <2>2. \A u \in Threads \ {t} : req[u].h # h
    BY <1>6, <2>1, DirsAssumption
  <2>3. PICK d : d = [dh[h] EXCEPT !.lock = t]
    OBVIOUS
  <2>4. d \in Dhs /\ d.lock = t
    BY <1>4, <2>1, <2>3 DEF Dhs
  <2>5. dh' = [dh EXCEPT ![h] = d]
    BY <1>2, <1>18, <2>3 DEF LockDh, TypeInv
  <2> QED BY <1>16, <2>1, <2>2, <2>4, <2>5 DEF Reading
<1>19. CASE Readdir(t)
  <2>1. /\ pc[t] = "fill" /\ Goto(t, "reply")
        /\ UNCHANGED <<open, fsopen, req>>
    BY <1>19 DEF Readdir, kernel
  <2>2. PICK d \in Dhs : dh' = [dh EXCEPT ![h] = d] /\ d.lock = t
    BY <1>2, <1>19, ReaddirIs DEF Filled
  <2> QED BY <1>16, <1>17, <2>1, <2>2 DEF Reading
<1>20. CASE ReplyDir(t)
  <2>1. /\ pc[t] = "reply" /\ Goto(t, "unlock")
        /\ UNCHANGED <<open, fsopen, req>>
    BY <1>20 DEF ReplyDir
  <2>2. dh[h].lock = t
    BY <1>2, <1>3, <2>1 DEF PlaceInv, Holding
  <2>3. PICK d \in Dhs : dh' = [dh EXCEPT ![h] = d] /\ d.lock = t
    BY <1>2, <1>20, <2>2, ReplyDirIs
  <2> QED BY <1>16, <1>17, <2>1, <2>3 DEF Reading
<1>21. CASE UnlockDh(t)
  <2>1. /\ pc[t] = "unlock" /\ dh[h] # NoDh /\ dh[h].lock = t
        /\ \/ h \in open
           \/ \E v \in Threads : req[v].h = h /\ pc[v] \in {"releasedir", "wait_reader"}
        /\ UNCHANGED <<open, fsopen>>
        /\ Ends(t)
    BY <1>2, <1>3, <1>21 DEF UnlockDh, PlaceInv, Holding, kernel
  <2>2. PICK d : d = [dh[h] EXCEPT !.lock = Nobody]
    OBVIOUS
  <2>3. d \in Dhs /\ d.lock = Nobody /\ d # NoDh
    <3>1. d \in Dhs /\ d.lock = Nobody
      BY <1>4, <2>1, <2>2 DEF Dhs
    <3> QED BY <3>1, DirsAssumption
  <2>4. dh' = [dh EXCEPT ![h] = d]
    BY <1>2, <1>21, <2>2 DEF UnlockDh, TypeInv
  <2>5. PlaceInv(t)'
    BY <1>8, <2>1 DEF PlaceInv, Reading, Closing, Holding
  <2>6. ASSUME NEW u \in Threads \ {t}, req[u].h = h PROVE PlaceInv(u)'
    <3>1. pc[u] \notin Holding /\ PlaceInv(u) /\ pc[u] = pc'[u] /\ req'[u] = req[u]
      BY <1>1, <1>2, <1>3, <1>8, <2>1, <2>6, Alone DEF Holding
    <3>2. dh'[h] = d
      BY <1>9, <2>4
    <3> QED BY <2>1, <2>3, <2>6, <3>1, <3>2 DEF PlaceInv, Holding
  <2>7. DhInv(h)'
    <3>1. h \in open \/ \E v \in Threads : req'[v].h = h /\ pc'[v] # "opendir"
      <4>1. ASSUME NEW v \in Threads, req[v].h = h, pc[v] \in {"releasedir", "wait_reader"}
            PROVE  req'[v].h = h /\ pc'[v] # "opendir"
        <5>1. v # t
          BY <2>1, <4>1
        <5> QED BY <1>8, <2>1, <4>1, <5>1
      <4> QED BY <2>1, <4>1
    <3> QED BY <1>9, <2>1, <2>3, <2>4, <3>1 DEF DhInv, Using
  <2> QED BY <1>2, <1>8, <1>9, <2>1, <2>4, <2>5, <2>6, <2>7, HandleFrame
<1> QED BY <1>10, <1>11, <1>12, <1>13, <1>14, <1>15, <1>18, <1>19, <1>20, <1>21 DEF Step

-----------------------------------------------------------------------------
(* Steps keep the counts of the nodes.                                     *)

\* What the kernel is about to be told is finite.
LEMMA TellingFinite ==
    /\ \A n \in Names : IsFiniteSet(Telling(n)) /\ Cardinality(Telling(n)) \in Nat
    /\ \A n \in Names : \A S \in SUBSET Telling(n) :
          IsFiniteSet(S) /\ Cardinality(S) \in Nat /\ Cardinality(S) <= Cardinality(Telling(n))
<1> SUFFICES ASSUME NEW n \in Names
             PROVE  /\ IsFiniteSet(Telling(n)) /\ Cardinality(Telling(n)) \in Nat
                    /\ \A S \in SUBSET Telling(n) :
                          /\ IsFiniteSet(S) /\ Cardinality(S) \in Nat
                          /\ Cardinality(S) <= Cardinality(Telling(n))
  OBVIOUS
<1>1. Telling(n) \in SUBSET Threads
  BY DEF Telling
<1>2. IsFiniteSet(Telling(n))
  BY <1>1, DirsAssumption, FS_Subset
<1>3. Cardinality(Telling(n)) \in Nat
  BY <1>2, FS_CardinalityType
<1>4. ASSUME NEW S \in SUBSET Telling(n)
      PROVE  /\ IsFiniteSet(S) /\ Cardinality(S) \in Nat
             /\ Cardinality(S) <= Cardinality(Telling(n))
  BY <1>2, FS_Subset, FS_CardinalityType
<1> QED BY <1>2, <1>3, <1>4

\* A thread tells n when its reply names it with its node.
TellsOf(d, n) == ~d.error /\ \E i \in DOMAIN d.contents : d.contents[i] = Entry(n, n, TRUE)

LEMMA TellingIs ==
    ASSUME NEW n
    PROVE  Telling(n) = {t \in Threads : pc[t] = "reply" /\ TellsOf(dh[req[t].h], n)}
BY DEF Telling, TellsOf

\* A step that begins no reply and leaves the entries of handles, or none, keeps the
\* counts.
LEMMA CountFrame ==
    ASSUME TypeInv, HandleInv', CountInv, nlookup' = nlookup, known' = known,
           \A u \in Threads : pc'[u] = "reply" => pc[u] = "reply" /\ req'[u] = req[u],
           \A h \in Handles : dh'[h] # NoDh =>
              \/ dh'[h].contents = <<>>
              \/ /\ dh[h] # NoDh
                 /\ dh'[h].contents = dh[h].contents
                 /\ dh'[h].error = dh[h].error
    PROVE  CountInv'
<1>0. DOMAIN <<>> = {}
  OBVIOUS
<1>1. ASSUME NEW h \in Handles, dh'[h] # NoDh, NEW i \in DOMAIN dh'[h].contents
      PROVE  dh'[h].contents[i].ino => dh'[h].contents[i].off = dh'[h].contents[i].name
  BY <1>0, <1>1 DEF CountInv
<1>2. ASSUME NEW n \in Names
      PROVE  known'[n] + Cardinality(Telling(n)') <= nlookup'[n]
  <2>1. Telling(n)' \in SUBSET Telling(n)
    <3> SUFFICES ASSUME NEW u \in Threads, pc'[u] = "reply", TellsOf(dh'[req'[u].h], n)
                 PROVE  pc[u] = "reply" /\ TellsOf(dh[req[u].h], n)
      BY TellingIs DEF Telling, TellsOf
    <3>1. pc[u] = "reply" /\ req'[u] = req[u]
      OBVIOUS
    <3>2. PICK h \in Handles : h = req[u].h
      BY <3>1, HandleOf
    <3>3. dh'[h] # NoDh
      BY <3>1, <3>2 DEF HandleInv, PlaceInv, Holding
    <3>4. dh'[h].contents # <<>>
      BY <1>0, <3>1, <3>2 DEF TellsOf
    <3> QED BY <3>1, <3>2, <3>3, <3>4 DEF TellsOf
  <2>2. /\ Cardinality(Telling(n)') \in Nat
        /\ Cardinality(Telling(n)') <= Cardinality(Telling(n))
        /\ Cardinality(Telling(n)) \in Nat
    BY <2>1, TellingFinite
  <2>3. known[n] \in Nat /\ nlookup[n] \in Nat
        /\ known[n] + Cardinality(Telling(n)) <= nlookup[n]
    BY DEF CountInv, KnownCounted
  <2> QED BY <2>2, <2>3
<1> QED BY <1>1, <1>2 DEF CountInv, KnownCounted

\* Requests and changes of the directory count nothing; forget_node gives back what
\* the kernel knows.
LEMMA KernelCounts ==
    ASSUME TypeInv, HandleInv, CountInv, HandleInv', Kernel \/ Changes
    PROVE  CountInv'
<1>1. ASSUME NEW op \in {"opendir", "readdir", "releasedir"}, NEW h \in Handles, NEW off,
             NEW size, Send(op, h, off, size)
      PROVE  CountInv'
  <2>1. PICK t \in Threads :
           /\ pc[t] = "idle"
           /\ req' = [req EXCEPT ![t] = [op |-> op, h |-> h, off |-> off, size |-> size]]
           /\ pc' = [pc EXCEPT ![t] = op]
    BY <1>1, SendIs
  <2>2. \A u \in Threads : pc'[u] = "reply" => pc[u] = "reply" /\ req'[u] = req[u]
    BY <2>1 DEF TypeInv, ThreadType
  <2>3. nlookup' = nlookup /\ known' = known /\ dh' = dh
    BY <1>1 DEF Send
  <2> QED BY <2>2, <2>3, CountFrame
<1>2. ASSUME UNCHANGED <<nlookup, known, dh, pc, req>> PROVE CountInv'
  <2>1. /\ nlookup' = nlookup /\ known' = known
        /\ \A u \in Threads : pc'[u] = "reply" => pc[u] = "reply" /\ req'[u] = req[u]
        /\ \A h \in Handles : dh'[h] # NoDh => /\ dh[h] # NoDh
                                               /\ dh'[h].contents = dh[h].contents
                                               /\ dh'[h].error = dh[h].error
    BY <1>2
  <2> QED BY <2>1, CountFrame
<1>3. ASSUME NEW h \in Handles,
             SendOpendir(h) \/ SendReaddir(h) \/ SendReleasedir(h) \/ Rewinddir(h)
      PROVE  CountInv'
  BY <1>1, <1>2, <1>3 DEF SendOpendir, SendReaddir, SendReleasedir, Rewinddir
<1>4. ASSUME NEW n \in Names, Create(n) \/ Unlink(n) PROVE CountInv'
  BY <1>2, <1>4 DEF Create, Unlink, kernel
<1>5. ASSUME NEW m \in Names, Forget(m) PROVE CountInv'
  <2>1. /\ known' = [known EXCEPT ![m] = 0]
        /\ nlookup' = [nlookup EXCEPT ![m] = nlookup[m] - known[m]]
        /\ dh' = dh /\ pc' = pc /\ req' = req
    BY <1>5 DEF Forget, CountInv
  <2>2. ASSUME NEW n \in Names
        PROVE  /\ known'[n] \in Nat /\ nlookup'[n] \in Nat
               /\ known'[n] + Cardinality(Telling(n)') <= nlookup'[n]
    <3>1. Telling(n)' = Telling(n)
      BY <2>1 DEF Telling
    <3>2. /\ known[n] \in Nat /\ nlookup[n] \in Nat
          /\ known[n] + Cardinality(Telling(n)) <= nlookup[n]
      BY DEF CountInv, KnownCounted
    <3>3. /\ known'[n] = (IF n = m THEN 0 ELSE known[n])
          /\ nlookup'[n] = (IF n = m THEN nlookup[n] - known[n] ELSE nlookup[n])
      BY <2>1 DEF CountInv
    <3> QED BY <3>1, <3>2, <3>3, TellingFinite
  <2>3. known' \in [Names -> Nat] /\ nlookup' \in [Names -> Nat]
    <3>1. known' \in [Names -> Int] /\ nlookup' \in [Names -> Int]
      BY <2>1 DEF CountInv
    <3> QED BY <2>2, <3>1
  <2> QED BY <2>1, <2>2, <2>3 DEF CountInv, KnownCounted
<1> QED BY <1>3, <1>4, <1>5 DEF Kernel, Changes

\* fill_dir_plus counts a lookup for every entry that a reply names.
LEMMA ReaddirCounts ==
    ASSUME TypeInv, HandleInv, CountInv, ReaderInv, NEW t \in Threads, Readdir(t)
    PROVE  CountInv'
<1>1. pc[t] = "fill" /\ Goto(t, "reply") /\ req' = req /\ known' = known
  BY DEF Readdir, kernel
<1>2. PICK h \in Handles : h = req[t].h
  BY <1>1, HandleOf
<1>3. PICK d \in Dhs, tried \in SUBSET Names :
         /\ dh' = [dh EXCEPT ![h] = d]
         /\ nlookup' = IF Plus THEN Counts(tried) ELSE nlookup
         /\ Filled(h, t, d, tried)
  BY <1>2, ReaddirIs
<1>4. /\ pc'[t] = "reply" /\ \A u \in Threads \ {t} : pc'[u] = pc[u]
      /\ dh'[h] = d /\ \A g \in Handles \ {h} : dh'[g] = dh[g]
  BY <1>1, <1>3 DEF Goto, TypeInv, ThreadType
<1>5. ASSUME NEW n \in Names
      PROVE  /\ nlookup'[n] = IF Plus /\ n \in tried THEN nlookup[n] + 1 ELSE nlookup[n]
             /\ nlookup'[n] \in Nat
  BY <1>3 DEF Counts, CountInv
<1>6. nlookup' \in [Names -> Nat]
  BY <1>3 DEF Counts, CountInv
<1>7. ASSUME NEW g \in Handles, dh'[g] # NoDh, NEW i \in DOMAIN dh'[g].contents
      PROVE  dh'[g].contents[i].ino => dh'[g].contents[i].off = dh'[g].contents[i].name
  <2>1. CASE g = h
    BY <1>3, <1>4, <1>7, <2>1 DEF Filled
  <2>2. CASE g # h
    BY <1>4, <1>7, <2>2 DEF CountInv
  <2> QED BY <2>1, <2>2
<1>8. ASSUME NEW n \in Names
      PROVE  known'[n] + Cardinality(Telling(n)') <= nlookup'[n]
  <2>1. ASSUME NEW u \in Threads, u # t, pc'[u] = "reply", TellsOf(dh'[req'[u].h], n)
        PROVE  pc[u] = "reply" /\ TellsOf(dh[req[u].h], n)
    <3>1. pc[u] = "reply" /\ req'[u] = req[u]
      BY <1>1, <1>4, <2>1
    <3>2. PICK g \in Handles : g = req[u].h
      BY <3>1, HandleOf
    <3>3. g # h
      BY <1>1, <1>2, <2>1, <3>1, <3>2, Alone DEF Holding
    <3> QED BY <1>4, <2>1, <3>1, <3>2, <3>3
  <2>2. Telling(n)' \subseteq Telling(n) \cup {t}
    BY <2>1, TellingIs DEF Telling, TellsOf
  <2>3. t \in Telling(n)' => Plus /\ n \in tried
    <3> SUFFICES ASSUME TellsOf(dh'[req'[t].h], n) PROVE Plus /\ n \in tried
      BY DEF Telling, TellsOf
    <3>1. TellsOf(d, n)
      BY <1>1, <1>2, <1>4
    <3>2. PICK i \in DOMAIN d.contents : d.contents[i] = Entry(n, n, TRUE)
      BY <3>1 DEF TellsOf
    <3>3. d.contents[i].ino /\ d.contents[i].name = n
      BY <3>2 DEF Entry
    <3> QED BY <1>3, <3>1, <3>3 DEF Filled, TellsOf
  <2>4. /\ IsFiniteSet(Telling(n)) /\ Cardinality(Telling(n)) \in Nat
        /\ known[n] \in Nat /\ nlookup[n] \in Nat
        /\ known[n] + Cardinality(Telling(n)) <= nlookup[n]
    BY TellingFinite DEF CountInv, KnownCounted
  <2> DEFINE T == Telling(n)'
  <2>5. CASE t \in T
    <3>1. /\ IsFiniteSet(Telling(n) \cup {t})
          /\ Cardinality(Telling(n) \cup {t}) <= Cardinality(Telling(n)) + 1
          /\ Cardinality(Telling(n) \cup {t}) \in Nat
      <4>1. /\ IsFiniteSet(Telling(n) \cup {t})
            /\ Cardinality(Telling(n) \cup {t}) =
                  IF t \in Telling(n) THEN Cardinality(Telling(n))
                  ELSE Cardinality(Telling(n)) + 1
        BY <2>4, FS_AddElement
      <4> QED BY <2>4, <4>1
    <3>2. T \in SUBSET (Telling(n) \cup {t})
      BY <2>2
    <3> HIDE DEF T
    <3>3. Cardinality(T) <= Cardinality(Telling(n) \cup {t}) /\ Cardinality(T) \in Nat
      BY <3>1, <3>2, FS_Subset, FS_CardinalityType
    <3>4. nlookup'[n] = nlookup[n] + 1
      BY <1>5, <2>3, <2>5 DEF T
    <3>5. known[n] + Cardinality(T) <= nlookup'[n]
      BY <2>4, <3>1, <3>3, <3>4
    <3> QED BY <1>1, <3>5 DEF T
  <2>6. CASE t \notin T
    <3>1. T \in SUBSET Telling(n)
      BY <2>2, <2>6
    <3> HIDE DEF T
    <3>2. Cardinality(T) <= Cardinality(Telling(n)) /\ Cardinality(T) \in Nat
      BY <2>4, <3>1, FS_Subset, FS_CardinalityType
    <3>3. known[n] + Cardinality(T) <= nlookup'[n]
      BY <1>5, <2>4, <3>2
    <3> QED BY <1>1, <3>3 DEF T
  <2> QED BY <2>5, <2>6
<1>9. known' \in [Names -> Nat]
  BY <1>1 DEF CountInv
<1> QED BY <1>6, <1>7, <1>8, <1>9 DEF CountInv, KnownCounted

\* A reply hands the lookups that were counted for it to the kernel.
LEMMA ReplyDirCounts ==
    ASSUME TypeInv, HandleInv, CountInv, NEW t \in Threads, ReplyDir(t)
    PROVE  CountInv'
<1>1. pc[t] = "reply" /\ Goto(t, "unlock") /\ req' = req /\ nlookup' = nlookup
  BY DEF ReplyDir
<1>2. PICK h \in Handles : h = req[t].h
  BY <1>1, HandleOf
<1>3. PICK d \in Dhs : dh' = [dh EXCEPT ![h] = d] /\ d.contents = <<>>
  BY <1>2, ReplyDirIs
<1>4. /\ pc'[t] = "unlock" /\ \A u \in Threads \ {t} : pc'[u] = pc[u]
      /\ dh'[h] = d /\ \A g \in Handles \ {h} : dh'[g] = dh[g]
  BY <1>1, <1>3 DEF Goto, TypeInv, ThreadType
<1> DEFINE new == dh[h].contents
           told == {new[i].name : i \in {j \in DOMAIN new : new[j].ino}}
<1>5. \/ known' = known
      \/ /\ ~dh[h].error
         /\ known' = [n \in Names |-> IF n \in told THEN known[n] + 1 ELSE known[n]]
  <2>1. CASE dh[h].error
    BY <1>2, <2>1 DEF ReplyDir
  <2>2. CASE ~dh[h].error /\ new = <<>>
    BY <1>2, <2>2 DEF ReplyDir
  <2>3. CASE ~dh[h].error /\ new # <<>>
    <3>1. known' = [n \in Names |-> IF n \in told THEN known[n] + 1 ELSE known[n]]
      <4> DEFINE c == dh[req[t].h].contents
      <4>1. ~dh[req[t].h].error /\ c # <<>>
        BY <1>2, <2>3
      <4>2. known' = [n \in Names |-> IF n \in {c[i].name : i \in {j \in DOMAIN c : c[j].ino}}
                                      THEN known[n] + 1 ELSE known[n]]
        BY <4>1 DEF ReplyDir
      <4> QED BY <1>2, <4>2
    <3> QED BY <2>3, <3>1
  <2> QED BY <2>1, <2>2, <2>3
<1>6. ASSUME NEW n \in told, ~dh[h].error
      PROVE  t \in Telling(n)
  <2>1. PICK i \in DOMAIN new : new[i].ino /\ new[i].name = n
    BY <1>6
  <2>2. dh[h] # NoDh /\ new \in Seq(Entries)
    BY <1>1, <1>2, ReplyDirIs DEF HandleInv, PlaceInv, Holding
  <2>3. new[i] \in Entries
    <3> HIDE DEF new
    <3> QED BY <2>1, <2>2, LenProperties, ElementOfSeq
  <2>4. new[i].off = n
    BY <2>1, <2>2 DEF CountInv
  <2>5. new[i].ino = TRUE
    BY <2>1, <2>3 DEF Entries
  <2> HIDE DEF new
  <2>6. new[i] = Entry(n, n, TRUE)
    BY <2>1, <2>3, <2>4, <2>5 DEF Entries, Entry
  <2> QED BY <1>1, <1>2, <1>6, <2>6 DEF Telling, new
<1>7. DOMAIN <<>> = {}
  OBVIOUS
<1>8. ASSUME NEW g \in Handles, dh'[g] # NoDh, NEW i \in DOMAIN dh'[g].contents
      PROVE  dh'[g].contents[i].ino => dh'[g].contents[i].off = dh'[g].contents[i].name
  <2>1. g # h
    BY <1>3, <1>4, <1>7, <1>8
  <2> QED BY <1>4, <1>8, <2>1 DEF CountInv
<1>9. ASSUME NEW n \in Names
      PROVE  Telling(n)' \in SUBSET (Telling(n) \ {t})
  <2> SUFFICES ASSUME NEW u \in Threads, pc'[u] = "reply", TellsOf(dh'[req'[u].h], n)
               PROVE  u # t /\ pc[u] = "reply" /\ TellsOf(dh[req[u].h], n)
    BY TellingIs DEF Telling, TellsOf
  <2>1. u # t
    BY <1>4
  <2>2. pc[u] = "reply" /\ req'[u] = req[u]
    BY <1>1, <1>4, <2>1
  <2>3. PICK g \in Handles : g = req[u].h
    BY <2>2, HandleOf
  <2>4. g # h
    BY <1>1, <1>2, <2>1, <2>2, <2>3, Alone DEF Holding
  <2> QED BY <1>4, <2>1, <2>2, <2>3, <2>4
<1>10. known' \in [Names -> Nat]
  <2> HIDE DEF told
  <2> QED BY <1>5 DEF CountInv
<1>11. ASSUME NEW n \in Names
       PROVE  known'[n] + Cardinality(Telling(n)') <= nlookup'[n]
  <2>1. /\ IsFiniteSet(Telling(n)) /\ Cardinality(Telling(n)) \in Nat
        /\ known[n] \in Nat /\ nlookup[n] \in Nat
        /\ known[n] + Cardinality(Telling(n)) <= nlookup[n]
    BY TellingFinite DEF CountInv, KnownCounted
  <2>2. /\ IsFiniteSet(Telling(n) \ {t})
        /\ Cardinality(Telling(n) \ {t}) \in Nat
        /\ Cardinality(Telling(n) \ {t}) = IF t \in Telling(n) THEN Cardinality(Telling(n)) - 1
                                           ELSE Cardinality(Telling(n))
    BY <2>1, FS_RemoveElement, FS_CardinalityType
  <2> DEFINE T == Telling(n)'
  <2>3. T \in SUBSET (Telling(n) \ {t})
    BY <1>9
  <2> HIDE DEF T
  <2>4. Cardinality(T) \in Nat /\ Cardinality(T) <= Cardinality(Telling(n) \ {t})
    BY <2>2, <2>3, FS_Subset, FS_CardinalityType
  <2> HIDE DEF told
  <2>5. known'[n] = known[n] \/ (known'[n] = known[n] + 1 /\ t \in Telling(n))
    BY <1>5, <1>6
  <2>6. known'[n] + Cardinality(T) <= nlookup[n]
    BY <2>1, <2>2, <2>4, <2>5
  <2> QED BY <1>1, <2>6 DEF T
<1>12. nlookup' \in [Names -> Nat]
  BY <1>1 DEF CountInv
<1> QED BY <1>8, <1>10, <1>11, <1>12 DEF CountInv, KnownCounted

\* The other steps of a thread count nothing.
LEMMA ThreadCounts ==
    ASSUME TypeInv, HandleInv, CountInv, ReaderInv, HandleInv', NEW t \in Threads, Step(t)
    PROVE  CountInv'
<1>1. ASSUME nlookup' = nlookup, known' = known, NEW place, place # "reply",
             Goto(t, place), \A u \in Threads \ {t} : req'[u] = req[u], dh' = dh
      PROVE  CountInv'
  <2>1. \A u \in Threads : pc'[u] = "reply" => pc[u] = "reply" /\ req'[u] = req[u]
    BY <1>1 DEF Goto, TypeInv, ThreadType
  <2> QED BY <1>1, <2>1, CountFrame
<1>2. ASSUME nlookup' = nlookup, known' = known, NEW place, place # "reply",
             Goto(t, place), \A u \in Threads \ {t} : req'[u] = req[u],
             NEW h \in Handles, NEW d, dh' = [dh EXCEPT ![h] = d],
             d # NoDh => \/ d.contents = <<>>
                         \/ /\ dh[h] # NoDh
                            /\ d.contents = dh[h].contents
                            /\ d.error = dh[h].error
      PROVE  CountInv'
  <2>1. \A u \in Threads : pc'[u] = "reply" => pc[u] = "reply" /\ req'[u] = req[u]
    BY <1>2 DEF Goto, TypeInv, ThreadType
  <2>2. \A g \in Handles : dh'[g] = IF g = h THEN d ELSE dh[g]
    BY <1>2 DEF TypeInv
  <2> QED BY <1>2, <2>1, <2>2, CountFrame
<1>3. ASSUME Ends(t) PROVE Goto(t, "idle") /\ \A u \in Threads \ {t} : req'[u] = req[u]
  BY <1>3 DEF Ends, TypeInv, ThreadType
<1>4. ASSUME pc[t] # "idle" PROVE req[t].h \in Handles
  BY <1>4, HandleOf
<1>5. CASE Opendir(t)
  <2>1. CASE Ends(t) /\ dh' = dh
    BY <1>1, <1>3, <1>5, <2>1 DEF Opendir, kernel
  <2>2. CASE /\ dh' = [dh EXCEPT ![req[t].h] = NewDh]
             /\ Goto(t, "reply_open")
             /\ req' = req
    BY <1>2, <1>4, <1>5, <2>2, NewDhIs DEF Opendir, kernel
  <2> QED BY <1>5, <2>1, <2>2 DEF Opendir
<1>6. CASE ReplyOpen(t)
  BY <1>1, <1>3, <1>6 DEF ReplyOpen
<1>7. CASE CancelOpen(t)
  BY <1>2, <1>3, <1>4, <1>7 DEF CancelOpen, kernel
<1>8. CASE Releasedir(t)
  BY <1>1, <1>8 DEF Releasedir, kernel
<1>9. CASE WaitReader(t)
  BY <1>1, <1>9 DEF WaitReader, kernel
<1>10. CASE FreeDh(t)
  BY <1>2, <1>3, <1>4, <1>10 DEF FreeDh, kernel
<1>11. CASE LockDh(t)
  <2>1. PICK h \in Handles : h = req[t].h
    BY <1>4, <1>11 DEF LockDh
  <2>2. dh[h] # NoDh /\ dh[h] \in Dhs
    BY <1>11, <2>1, DhType DEF LockDh, HandleInv, PlaceInv, DhInv, Reading
  <2>3. PICK d : d = [dh[h] EXCEPT !.lock = t]
    OBVIOUS
  <2>4. d.contents = dh[h].contents /\ d.error = dh[h].error
    BY <2>2, <2>3 DEF Dhs
  <2>5. dh' = [dh EXCEPT ![h] = d]
    BY <1>11, <2>1, <2>3 DEF LockDh, TypeInv
  <2> QED BY <1>2, <1>11, <2>2, <2>4, <2>5 DEF LockDh, kernel
<1>12. CASE UnlockDh(t)
  <2>1. PICK h \in Handles : h = req[t].h
    BY <1>4, <1>12 DEF UnlockDh
  <2>2. dh[h] # NoDh /\ dh[h] \in Dhs
    BY <1>12, <2>1, DhType DEF UnlockDh, HandleInv, PlaceInv, Holding
  <2>3. PICK d : d = [dh[h] EXCEPT !.lock = Nobody]
    OBVIOUS
  <2>4. d.contents = dh[h].contents /\ d.error = dh[h].error
    BY <2>2, <2>3 DEF Dhs
  <2>5. dh' = [dh EXCEPT ![h] = d]
    BY <1>12, <2>1, <2>3 DEF UnlockDh, TypeInv
  <2> QED BY <1>2, <1>3, <1>12, <2>2, <2>4, <2>5 DEF UnlockDh, kernel
<1> QED BY <1>5, <1>6, <1>7, <1>8, <1>9, <1>10, <1>11, <1>12, ReaddirCounts, ReplyDirCounts
        DEF Step

-----------------------------------------------------------------------------
(* What a reader gets.                                                     *)

\* Names behind others: no name twice, if none was before and the new ones are apart.
LEMMA GotMore ==
    ASSUME NEW a \in Seq(Names), NEW b \in Seq(Names)
    PROVE  /\ a \o b \in Seq(Names)
           /\ ToSet(a \o b) = ToSet(a) \cup ToSet(b)
           /\ IsInjective(a) /\ IsInjective(b) /\ ToSet(a) \cap ToSet(b) = {}
                 => IsInjective(a \o b)
<1> DEFINE s == a \o b
<1>1. /\ Len(a) \in Nat /\ DOMAIN a = 1 .. Len(a)
      /\ Len(b) \in Nat /\ DOMAIN b = 1 .. Len(b)
  BY LenProperties
<1>2. /\ s \in Seq(Names)
      /\ Len(s) = Len(a) + Len(b)
      /\ \A i \in 1 .. Len(a) + Len(b) : s[i] = IF i <= Len(a) THEN a[i] ELSE b[i - Len(a)]
  BY ConcatProperties
<1>3. DOMAIN s = 1 .. Len(a) + Len(b)
  BY <1>2, LenProperties
<1> HIDE DEF s
<1>4. \A i \in 1 .. Len(a) : i \in DOMAIN s /\ s[i] = a[i]
  BY <1>1, <1>2, <1>3
<1>5. \A i \in 1 .. Len(b) : Len(a) + i \in DOMAIN s /\ s[Len(a) + i] = b[i]
  <2> SUFFICES ASSUME NEW i \in 1 .. Len(b)
               PROVE  Len(a) + i \in DOMAIN s /\ s[Len(a) + i] = b[i]
    OBVIOUS
  <2>1. Len(a) + i \in 1 .. Len(a) + Len(b) /\ ~ Len(a) + i <= Len(a) /\ Len(a) + i - Len(a) = i
    BY <1>1
  <2> QED BY <1>2, <1>3, <2>1
<1>6. \A k \in DOMAIN s : \/ k \in 1 .. Len(a)
                          \/ \E i \in 1 .. Len(b) : k = Len(a) + i
  <2> SUFFICES ASSUME NEW k \in DOMAIN s, k \notin 1 .. Len(a)
               PROVE  \E i \in 1 .. Len(b) : k = Len(a) + i
    OBVIOUS
  <2>1. k - Len(a) \in 1 .. Len(b) /\ k = Len(a) + (k - Len(a))
    BY <1>1, <1>3
  <2> QED BY <2>1
<1>7. ToSet(s) = ToSet(a) \cup ToSet(b)
  <2>1. ASSUME NEW n \in ToSet(s) PROVE n \in ToSet(a) \cup ToSet(b)
    BY <1>1, <1>4, <1>5, <1>6, <2>1 DEF ToSet
  <2>2. ASSUME NEW n \in ToSet(a) \cup ToSet(b) PROVE n \in ToSet(s)
    BY <1>1, <1>4, <1>5, <2>2 DEF ToSet
  <2> QED BY <2>1, <2>2
<1>8. ASSUME IsInjective(a), IsInjective(b), ToSet(a) \cap ToSet(b) = {}
      PROVE  IsInjective(s)
  <2> SUFFICES ASSUME NEW k \in DOMAIN s, NEW m \in DOMAIN s, s[k] = s[m] PROVE k = m
    BY DEF IsInjective
  <2>1. CASE k \in 1 .. Len(a) /\ m \in 1 .. Len(a)
    BY <1>1, <1>4, <1>8, <2>1 DEF IsInjective
  <2>2. ASSUME NEW i \in 1 .. Len(b), NEW j \in 1 .. Len(b), k = Len(a) + i, m = Len(a) + j
        PROVE  k = m
    BY <1>1, <1>5, <1>8, <2>2 DEF IsInjective
  <2>3. ASSUME NEW x \in 1 .. Len(a), NEW i \in 1 .. Len(b), s[x] = s[Len(a) + i]
        PROVE  FALSE
    <3>1. s[x] \in ToSet(a) /\ s[Len(a) + i] \in ToSet(b)
      BY <1>1, <1>4, <1>5 DEF ToSet
    <3> QED BY <1>8, <2>3, <3>1
  <2> QED BY <1>6, <2>1, <2>2, <2>3
<1> QED BY <1>2, <1>7, <1>8 DEF s

\* The first p elements of a list, and those behind them, are the first of it.
LEMMA FirstMore ==
    ASSUME NEW first \in Seq(Names), NEW p \in Nat, NEW b \in Seq(Names),
           p + Len(b) <= Len(first), \A i \in DOMAIN b : b[i] = first[p + i]
    PROVE  SubSeq(first, 1, p) \o b = SubSeq(first, 1, p + Len(b))
<1> DEFINE a == SubSeq(first, 1, p)
           q == p + Len(b)
           s == SubSeq(first, 1, q)
<1>1. /\ Len(first) \in Nat /\ \A i \in 1 .. Len(first) : first[i] \in Names
      /\ Len(b) \in Nat /\ DOMAIN b = 1 .. Len(b)
  BY LenProperties, ElementOfSeq
<1>2. \A k \in Nat : k <= Len(first) =>
         /\ SubSeq(first, 1, k) \in Seq(Names)
         /\ Len(SubSeq(first, 1, k)) = k
         /\ \A i \in 1 .. k : SubSeq(first, 1, k)[i] = first[i]
  <2> SUFFICES ASSUME NEW k \in Nat, k <= Len(first)
               PROVE  /\ SubSeq(first, 1, k) \in Seq(Names)
                      /\ Len(SubSeq(first, 1, k)) = k
                      /\ \A i \in 1 .. k : SubSeq(first, 1, k)[i] = first[i]
    OBVIOUS
  <2>1. k \in Int /\ 1 \in Int /\ \A i \in 1 .. k : first[i] \in Names
    BY <1>1
  <2>2. /\ SubSeq(first, 1, k) \in Seq(Names)
        /\ Len(SubSeq(first, 1, k)) = IF 1 <= k THEN k - 1 + 1 ELSE 0
        /\ \A i \in 1 .. k - 1 + 1 : SubSeq(first, 1, k)[i] = first[1 + i - 1]
    BY <2>1, SubSeqProperties
  <2>3. k - 1 + 1 = k /\ \A i \in 1 .. k : 1 + i - 1 = i
    OBVIOUS
  <2> QED BY <2>2, <2>3
<1>3. q \in Nat /\ q <= Len(first) /\ p <= Len(first)
  BY <1>1
<1>4. /\ a \in Seq(Names) /\ Len(a) = p /\ \A i \in 1 .. p : a[i] = first[i]
      /\ s \in Seq(Names) /\ Len(s) = q /\ \A i \in 1 .. q : s[i] = first[i]
  BY <1>2, <1>3
<1> HIDE DEF a, s
<1>5. /\ a \o b \in Seq(Names)
      /\ Len(a \o b) = q
      /\ \A i \in 1 .. q : (a \o b)[i] = IF i <= p THEN a[i] ELSE b[i - p]
  BY <1>4, ConcatProperties
<1>6. ASSUME NEW i \in 1 .. q
      PROVE  (a \o b)[i] = s[i]
  <2>1. CASE i <= p
    <3>1. i \in 1 .. p
      BY <1>3, <2>1
    <3> QED BY <1>4, <1>5, <2>1, <3>1
  <2>2. CASE ~ i <= p
    <3>1. i - p \in 1 .. Len(b) /\ p + (i - p) = i
      BY <1>1, <1>3, <2>2
    <3>2. b[i - p] = first[i]
      BY <1>1, <3>1
    <3> QED BY <1>4, <1>5, <2>2, <3>2
  <2> QED BY <2>1, <2>2
<1> QED BY <1>3, <1>4, <1>5, <1>6, SeqEqual DEF a, s

\* The first p elements of a list that has no name twice.
LEMMA FirstIs ==
    ASSUME NEW first \in Seq(Names), NEW p \in Nat, p <= Len(first)
    PROVE  /\ ToSet(SubSeq(first, 1, p)) \subseteq ToSet(first)
           /\ IsInjective(first) => IsInjective(SubSeq(first, 1, p))
           /\ p = Len(first) => SubSeq(first, 1, p) = first
<1>1. Len(first) \in Nat /\ DOMAIN first = 1 .. Len(first)
      /\ \A i \in 1 .. Len(first) : first[i] \in Names
  BY LenProperties, ElementOfSeq
<1> DEFINE a == SubSeq(first, 1, p)
<1>2. p \in Int /\ 1 \in Int /\ \A i \in 1 .. p : first[i] \in Names
  BY <1>1
<1>3. /\ a \in Seq(Names)
      /\ Len(a) = IF 1 <= p THEN p - 1 + 1 ELSE 0
      /\ \A i \in 1 .. p - 1 + 1 : a[i] = first[1 + i - 1]
  BY <1>2, SubSeqProperties
<1>4. p - 1 + 1 = p /\ \A i \in 1 .. p : 1 + i - 1 = i
  OBVIOUS
<1> HIDE DEF a
<1>5. Len(a) = p /\ DOMAIN a = 1 .. p /\ \A i \in 1 .. p : a[i] = first[i] /\ i \in DOMAIN first
  BY <1>1, <1>3, <1>4, LenProperties
<1>6. ToSet(a) \subseteq ToSet(first)
  BY <1>5 DEF ToSet
<1>7. IsInjective(first) => IsInjective(a)
  BY <1>5 DEF IsInjective
<1>8. p = Len(first) => a = first
  BY SubSeqFull DEF a
<1> QED BY <1>6, <1>7, <1>8 DEF a

\* A reader of h that got the names g, up to the offset p, of a handle d.
Moved(h, d, g, p) ==
    /\ IsInjective(g) /\ ToSet(g) \subseteq seen[h]
    /\ ToSet(got[h]) \subseteq ToSet(g)
    /\ p \in Nat /\ p > 0
    /\ IF mode = "list"
       THEN d.filled /\ ListInv(h, d.first) /\ p <= Len(d.first)
            /\ g = SubSeq(d.first, 1, p)
       ELSE /\ \A n \in ToSet(g) : n <= p
            /\ \A n \in stays[h] : n <= p => n \in ToSet(g)

\* A reply moves the reader of h on, from what it got up to its offset.
LEMMA ReplyMoves ==
    ASSUME TypeInv, NEW h \in Handles, NEW d \in Dhs,
           SeenInv(h), PosInv(h, d), ReplyInv(h, d),
           IsInjective(got[h]), ToSet(got[h]) \subseteq seen[h],
           NEW c, c = d.contents, c # <<>>,
           NEW names \in Seq(Names), DOMAIN names = DOMAIN c,
           \A i \in DOMAIN c : names[i] = c[i].name,
           NEW p, p = Last(c).off,
           NEW g, g = got[h] \o names
    PROVE  Moved(h, d, g, p)
<1>1. /\ c \in Seq(Entries) /\ d.first \in Seq(Names)
      /\ got[h] \in Seq(Names) /\ pos[h] \in Nat
      /\ seen[h] \subseteq Names /\ stays[h] \subseteq Names
      /\ Names \subseteq Nat
  BY DirsAssumption DEF Dhs, TypeInv
<1>2. /\ Len(c) \in Nat \ {0}
      /\ DOMAIN c = 1 .. Len(c)
      /\ \A i \in 1 .. Len(c) : c[i] \in Entries
  BY <1>1, LenProperties, ElementOfSeq, EmptySeq
<1>3. \A i \in 1 .. Len(c) : names[i] = c[i].name
  BY <1>2
<1>4. names \in Seq(Names) /\ Len(names) = Len(c) /\ DOMAIN names = 1 .. Len(c)
  BY <1>2, LenProperties
<1>5. Len(c) \in DOMAIN c /\ p = c[Len(c)].off /\ c[Len(c)] \in Entries
  BY <1>2 DEF Last
<1>6. p \in Nat
  BY <1>5 DEF Entries
<1>7. /\ ToSet(g) = ToSet(got[h]) \cup ToSet(names)
      /\ IsInjective(names) /\ ToSet(got[h]) \cap ToSet(names) = {} => IsInjective(g)
  BY <1>1, <1>4, GotMore
<1>8. CASE mode = "list"
  <2>1. /\ ListInv(h, d.first)
        /\ d.filled /\ pos[h] + Len(c) <= Len(d.first)
        /\ \A i \in DOMAIN c : c[i].name = d.first[pos[h] + i] /\ c[i].off = pos[h] + i
    BY <1>8 DEF ReplyInv
  <2>2. p = pos[h] + Len(c)
    BY <1>5, <2>1
  <2>3. got[h] = SubSeq(d.first, 1, pos[h])
    <3>1. CASE pos[h] = 0
      <4>1. SubSeq(d.first, 1, 0) = <<>>
        BY SubSeqEmpty
      <4> QED BY <3>1, <4>1 DEF SeenInv
    <3>2. CASE pos[h] # 0
      BY <1>1, <1>8, <3>2 DEF PosInv
    <3> QED BY <3>1, <3>2
  <2>4. \A i \in DOMAIN names : names[i] = d.first[pos[h] + i]
    BY <1>2, <1>3, <1>4, <2>1
  <2>5. g = SubSeq(d.first, 1, p)
    <3>1. pos[h] + Len(names) <= Len(d.first)
      BY <1>4, <2>1
    <3>2. SubSeq(d.first, 1, pos[h]) \o names = SubSeq(d.first, 1, pos[h] + Len(names))
      BY <1>1, <1>4, <2>4, <3>1, FirstMore
    <3> QED BY <1>4, <2>2, <2>3, <3>2
  <2>6. IsInjective(g) /\ ToSet(g) \subseteq ToSet(d.first)
    <3>1. p <= Len(d.first) /\ IsInjective(d.first)
      BY <2>1, <2>2 DEF ListInv
    <3>2. /\ ToSet(SubSeq(d.first, 1, p)) \subseteq ToSet(d.first)
          /\ IsInjective(SubSeq(d.first, 1, p))
      BY <1>1, <1>6, <3>1, FirstIs
    <3> QED BY <2>5, <3>2
  <2>7. p > 0 /\ p <= Len(d.first)
    BY <1>1, <1>2, <2>1, <2>2
  <2> QED BY <1>6, <1>7, <1>8, <2>1, <2>5, <2>6, <2>7 DEF ListInv, Moved
<1>9. CASE mode # "list"
  <2>1. /\ \A i \in DOMAIN c : /\ c[i].name = c[i].off
                               /\ c[i].name > pos[h]
                               /\ c[i].name \in seen[h]
        /\ \A i, j \in DOMAIN c : i < j => c[i].name < c[j].name
        /\ \A n \in stays[h] : n > pos[h] /\ n <= p => \E i \in DOMAIN c : c[i].name = n
    BY <1>9 DEF ReplyInv
  <2>2. /\ \A n \in ToSet(got[h]) : n <= pos[h]
        /\ \A n \in stays[h] : n <= pos[h] => n \in ToSet(got[h])
    BY <1>9 DEF PosInv
  <2>3. ASSUME NEW i \in DOMAIN c
        PROVE  c[i].name <= p /\ c[i].name \in Nat
    <3>1. c[i].name \in Nat /\ c[Len(c)].name = p /\ i \in 1 .. Len(c)
      BY <1>1, <1>2, <1>5, <2>1 DEF Entries
    <3>2. CASE i = Len(c)
      BY <1>6, <3>1, <3>2
    <3>3. CASE i # Len(c)
      <4>1. i < Len(c)
        BY <1>2, <3>1, <3>3
      <4>2. c[i].name < p
        BY <1>5, <2>1, <3>1, <4>1
      <4> QED BY <1>6, <3>1, <4>2
    <3> QED BY <3>2, <3>3
  <2>4. \A n \in ToSet(names) : \E i \in DOMAIN c : n = c[i].name
    BY <1>2, <1>3, <1>4 DEF ToSet
  <2>5. \A i \in DOMAIN c : c[i].name \in ToSet(names)
    BY <1>2, <1>3, <1>4 DEF ToSet
  <2>6. p > pos[h]
    BY <1>1, <1>5, <1>6, <2>1
  <2>7. ToSet(got[h]) \subseteq Nat
    <3>1. ToSet(got[h]) \subseteq Names
      BY <1>1
    <3> QED BY <1>1, <3>1
  <2>8. \A n \in ToSet(g) : n <= p
    <3> SUFFICES ASSUME NEW n \in ToSet(g) PROVE n <= p
      OBVIOUS
    <3>1. CASE n \in ToSet(got[h])
      <4>1. n \in Nat /\ n <= pos[h]
        BY <2>2, <2>7, <3>1
      <4> QED BY <1>1, <1>6, <2>6, <4>1
    <3>2. CASE n \in ToSet(names)
      BY <2>3, <2>4, <3>2
    <3> QED BY <1>7, <3>1, <3>2
  <2>9. \A n \in stays[h] : n <= p => n \in ToSet(g)
    <3> SUFFICES ASSUME NEW n \in stays[h], n <= p PROVE n \in ToSet(g)
      OBVIOUS
    <3>1. n \in Nat
      BY <1>1
    <3>2. CASE n <= pos[h]
      BY <1>7, <2>2, <3>2
    <3>3. CASE ~ n <= pos[h]
      <4>1. n > pos[h]
        BY <1>1, <3>1, <3>3
      <4>2. PICK i \in DOMAIN c : c[i].name = n
        BY <2>1, <4>1
      <4>3. n \in ToSet(names)
        BY <2>5, <4>2
      <4> QED BY <1>7, <4>3
    <3> QED BY <3>2, <3>3
  <2>10. IsInjective(names)
    <3> SUFFICES ASSUME NEW i \in DOMAIN c, NEW j \in DOMAIN c, c[i].name = c[j].name
                 PROVE  i = j
      BY <1>2, <1>3, <1>4 DEF IsInjective
    <3>1. ~ i < j /\ ~ j < i
      BY <2>1, <2>3
    <3> QED BY <1>2, <3>1
  <2>11. ToSet(got[h]) \cap ToSet(names) = {}
    <3> SUFFICES ASSUME NEW n \in ToSet(got[h]), n \in ToSet(names) PROVE FALSE
      OBVIOUS
    <3>1. PICK i \in DOMAIN c : n = c[i].name
      BY <2>4
    <3> QED BY <1>1, <2>1, <2>2, <2>3, <3>1
  <2>12. ToSet(names) \subseteq seen[h]
    BY <2>1, <2>4
  <2>13. p > 0
    BY <1>1, <1>6, <2>6
  <2> QED BY <1>6, <1>7, <1>9, <2>8, <2>9, <2>10, <2>11, <2>12, <2>13 DEF Moved
<1> QED BY <1>8, <1>9

\* A reply without entries ends a directory all of which was told.
LEMMA ReplyEnds ==
    ASSUME TypeInv, NEW h \in Handles, NEW d \in Dhs,
           SeenInv(h), PosInv(h, d), ReplyInv(h, d), d.contents = <<>>
    PROVE  stays[h] \subseteq ToSet(got[h])
<1>1. /\ d.first \in Seq(Names) /\ pos[h] \in Nat
      /\ stays[h] \subseteq Nat
  BY DirsAssumption DEF Dhs, TypeInv
<1>2. Len(d.first) \in Nat /\ DOMAIN d.first = 1 .. Len(d.first)
  BY <1>1, LenProperties
<1>3. CASE mode = "list"
  <2>1. pos[h] >= Len(d.first) /\ stays[h] \subseteq ToSet(d.first)
    BY <1>3 DEF ReplyInv, ListInv
  <2>2. CASE pos[h] > 0
    <3>1. got[h] = SubSeq(d.first, 1, pos[h]) /\ pos[h] <= Len(d.first)
      BY <1>3, <2>2 DEF PosInv
    <3>2. pos[h] = Len(d.first)
      BY <1>1, <1>2, <2>1, <3>1
    <3>3. got[h] = d.first
      BY <1>1, <1>2, <3>1, <3>2, FirstIs
    <3> QED BY <2>1, <3>3
  <2>3. CASE ~ pos[h] > 0
    <3>1. Len(d.first) = 0
      BY <1>1, <1>2, <2>1, <2>3
    <3>2. ToSet(d.first) = {}
      BY <1>2, <3>1 DEF ToSet
    <3> QED BY <2>1, <3>2
  <2> QED BY <2>2, <2>3
<1>4. CASE mode # "list"
  <2>1. DOMAIN <<>> = {}
    OBVIOUS
  <2>2. \A n \in stays[h] : ~ n > pos[h]
    BY <1>4, <2>1 DEF ReplyInv
  <2>3. \A n \in stays[h] : n <= pos[h]
    BY <1>1, <2>2
  <2> QED BY <1>4, <2>3 DEF PosInv
<1> QED BY <1>3, <1>4

-----------------------------------------------------------------------------
(* Steps keep what readers got in step with their offsets.                 *)

\* What ReaderInv says of one handle, and of one thread.
HandleReads(h) ==
    /\ SeenInv(h) /\ PosInv(h, dh[h])
    /\ IsInjective(got[h])
    /\ ToSet(got[h]) \subseteq seen[h]
    /\ h \in atend => stays[h] \subseteq ToSet(got[h])

ThreadReads(t) ==
    /\ pc[t] \in Reading => req[t].off = pos[req[t].h] /\ req[t].size \in Sizes
    /\ pc[t] = "reply" /\ ~dh[req[t].h].error => ReplyInv(req[t].h, dh[req[t].h])

LEMMA ReaderParts ==
    ReaderInv <=> /\ \A h \in Handles : HandleReads(h)
                  /\ \A t \in Threads : ThreadReads(t)
BY DEF ReaderInv, EntriesOnce, HandleReads, ThreadReads

\* A step on one handle keeps what is said of the others, and of the threads that use
\* those.
LEMMA ReaderFrame ==
    ASSUME TypeInv, ReaderInv, NEW h \in Handles, UNCHANGED <<dir, mode>>,
           \A g \in Handles \ {h} : /\ dh'[g] = dh[g]
                                    /\ pos'[g] = pos[g]
                                    /\ got'[g] = got[g]
                                    /\ seen'[g] = seen[g]
                                    /\ stays'[g] = stays[g]
                                    /\ g \in open' <=> g \in open
                                    /\ g \in atend' <=> g \in atend,
           \A t \in Threads : \/ ThreadReads(t)'
                              \/ pc'[t] = pc[t] /\ req'[t] = req[t] /\ req[t].h # h,
           HandleReads(h)'
    PROVE  ReaderInv'
<1>1. ASSUME NEW g \in Handles \ {h} PROVE HandleReads(g)'
  <2>1. HandleReads(g)
    BY ReaderParts
  <2>2. /\ dh'[g] = dh[g] /\ pos'[g] = pos[g] /\ got'[g] = got[g]
        /\ seen'[g] = seen[g] /\ stays'[g] = stays[g]
        /\ g \in open' <=> g \in open
        /\ g \in atend' <=> g \in atend
        /\ dir' = dir /\ mode' = mode
    OBVIOUS
  <2>3. SeenInv(g)'
    BY <2>1, <2>2 DEF HandleReads, SeenInv
  <2>4. PosInv(g, dh[g])'
    BY <2>1, <2>2 DEF HandleReads, PosInv, ListInv
  <2> QED BY <2>1, <2>2, <2>3, <2>4 DEF HandleReads
<1>2. ASSUME NEW t \in Threads, pc'[t] = pc[t], req'[t] = req[t], req[t].h # h
      PROVE  ThreadReads(t)'
  <2>1. CASE pc[t] = "idle"
    BY <1>2, <2>1 DEF ThreadReads, Reading
  <2>2. CASE pc[t] # "idle"
    <3>1. PICK g \in Handles \ {h} : g = req[t].h
      BY <1>2, <2>2, HandleOf
    <3>2. ThreadReads(t)
      BY ReaderParts
    <3>3. /\ dh'[g] = dh[g] /\ pos'[g] = pos[g]
          /\ seen'[g] = seen[g] /\ stays'[g] = stays[g]
          /\ mode' = mode
      OBVIOUS
    <3>4. ReplyInv(g, dh[g]) => ReplyInv(g, dh[g])'
      BY <3>3 DEF ReplyInv, ListInv
    <3> QED BY <1>2, <3>1, <3>2, <3>3, <3>4 DEF ThreadReads
  <2> QED BY <2>1, <2>2
<1>3. \A t \in Threads : ThreadReads(t)'
  BY <1>2
<1>4. \A g \in Handles : HandleReads(g)'
  BY <1>1
<1> QED BY <1>3, <1>4 DEF ReaderInv, EntriesOnce, HandleReads, ThreadReads

\* A step of a thread on its handle that the reader does not see.
Unseen == UNCHANGED <<dir, mode, open, pos, got, atend, seen, stays>>

LEMMA ReaderKeeps ==
    ASSUME TypeInv, HandleInv, ReaderInv, NEW t \in Threads, NEW h \in Handles, h = req[t].h,
           NEW d, dh' = [dh EXCEPT ![h] = d], PosInv(h, d),
           NEW place, Goto(t, place), \A u \in Threads \ {t} : req'[u] = req[u],
           place \in Reading => pc[t] \in Reading /\ req'[t] = req[t],
           place = "reply" /\ ~d.error => ReplyInv(h, d),
           Unseen
    PROVE  ReaderInv'
<1>1. pc'[t] = place /\ \A u \in Threads \ {t} : pc'[u] = pc[u]
  BY DEF Goto, TypeInv, ThreadType
<1>2. dh'[h] = d /\ \A g \in Handles \ {h} : dh'[g] = dh[g]
  BY DEF TypeInv
<1>3. /\ pos' = pos /\ got' = got /\ seen' = seen /\ stays' = stays /\ open' = open
      /\ atend' = atend /\ dir' = dir /\ mode' = mode
  BY DEF Unseen
<1>4. HandleReads(h)'
  <2>1. HandleReads(h)
    BY ReaderParts
  <2>2. SeenInv(h)'
    BY <1>3, <2>1 DEF HandleReads, SeenInv
  <2>3. PosInv(h, dh[h])'
    BY <1>2, <1>3 DEF PosInv, ListInv
  <2> QED BY <1>3, <2>1, <2>2, <2>3 DEF HandleReads
<1>5. ASSUME NEW e, ReplyInv(h, e), dh'[h] = e PROVE ReplyInv(h, dh[h])'
  BY <1>3, <1>5 DEF ReplyInv, ListInv
<1>6. ThreadReads(t)'
  <2>1. CASE place \in Reading
    <3>1. ThreadReads(t) /\ req'[t].h = h
      BY <2>1, ReaderParts
    <3> QED BY <1>1, <1>2, <1>3, <1>5, <2>1, <3>1 DEF ThreadReads
  <2>2. CASE place \notin Reading
    BY <1>1, <2>2 DEF ThreadReads, Reading
  <2> QED BY <2>1, <2>2
<1>7. ASSUME NEW u \in Threads \ {t}, req[u].h = h PROVE ThreadReads(u)'
  <2>1. pc'[u] = pc[u] /\ req'[u] = req[u]
    BY <1>1
  <2>2. CASE pc[u] \in Reading
    <3>1. ThreadReads(u)
      BY ReaderParts
    <3>2. pc[u] # "reply"
      <4>1. pc[t] # "idle"
        BY HandleOf
      <4>2. pc[t] # "unlock" => pc[u] = "unlock"
        BY <1>7, <4>1, Alone
      <4>3. pc[t] \in Holding => pc[u] \notin Holding
        BY <1>7, <4>1, Alone
      <4> QED BY <4>2, <4>3 DEF Holding
    <3> QED BY <1>2, <1>3, <1>5, <1>7, <2>1, <3>1, <3>2 DEF ThreadReads
  <2>3. CASE pc[u] \notin Reading
    BY <2>1, <2>3 DEF ThreadReads, Reading
  <2> QED BY <2>2, <2>3
<1>8. \A u \in Threads : \/ ThreadReads(u)'
                         \/ pc'[u] = pc[u] /\ req'[u] = req[u] /\ req[u].h # h
  BY <1>1, <1>6, <1>7
<1> QED BY <1>2, <1>3, <1>4, <1>8, ReaderFrame

\* A reader begins with some names, of which it is told nothing yet.
LEMMA ReaderBegins ==
    ASSUME TypeInv, ReaderInv, TypeInv', NEW h \in Handles, NEW names, Begins(h, names),
           \/ h \notin open' /\ names = {}
           \/ h \in open' /\ names = dir /\ dh'[h] # NoDh,
           mode = "offsets" /\ dh'[h] # NoDh => ~dh'[h].filled,
           \A g \in Handles \ {h} : dh'[g] = dh[g] /\ (g \in open' <=> g \in open),
           UNCHANGED <<dir, mode>>,
           \A t \in Threads : \/ pc'[t] \notin Reading
                              \/ pc'[t] = pc[t] /\ req'[t] = req[t] /\ req[t].h # h
    PROVE  ReaderInv'
<1>1. /\ pos'[h] = 0 /\ got'[h] = <<>> /\ h \notin atend'
      /\ seen'[h] = names /\ stays'[h] = names
      /\ dir' = dir /\ mode' = mode
      /\ \A g \in Handles \ {h} : /\ pos'[g] = pos[g]
                                  /\ got'[g] = got[g]
                                  /\ seen'[g] = seen[g]
                                  /\ stays'[g] = stays[g]
                                  /\ g \in atend' <=> g \in atend
  BY DEF Begins, TypeInv
<1>2. IsInjective(got'[h]) /\ ToSet(got'[h]) = {}
  BY <1>1 DEF IsInjective, ToSet
<1>3. SeenInv(h)'
  BY <1>1 DEF SeenInv
<1>4. PosInv(h, dh[h])'
  <2>1. \A n \in names : ~ n <= 0
    <3>1. names \subseteq Names
      BY DEF TypeInv
    <3>2. \A n \in names : n \in Nat \ {0}
      BY <3>1, DirsAssumption
    <3> QED BY <3>2
  <2>2. CASE mode = "list"
    BY <1>1, <2>2 DEF PosInv
  <2>3. CASE mode # "list"
    <3>1. mode = "offsets"
      BY <2>3 DEF TypeInv
    <3> QED BY <1>1, <1>2, <2>1, <3>1 DEF PosInv
  <2> QED BY <2>2, <2>3
<1>5. HandleReads(h)'
  BY <1>1, <1>2, <1>3, <1>4 DEF HandleReads
<1>6. \A t \in Threads : pc'[t] \notin Reading => ThreadReads(t)'
  BY DEF ThreadReads, Reading
<1> QED BY <1>1, <1>5, <1>6, ReaderFrame

\* The kernel sends requests from the offset of the reader; names come and go.
LEMMA KernelReads ==
    ASSUME TypeInv, HandleInv, CountInv, ReaderInv, TypeInv', Kernel \/ Changes
    PROVE  ReaderInv'
<1>1. ASSUME NEW h \in Handles, \A u \in Threads : req[u].h = h => pc[u] = "unlock",
             NEW u \in Threads, req[u].h = h
      PROVE  pc[u] \notin Reading
  BY <1>1 DEF Reading
\* A request that is sent while the reader stays where it is.
<1>2. ASSUME NEW op \in {"opendir", "readdir"}, NEW h \in Handles, NEW off, NEW size,
             Send(op, h, off, size), UNCHANGED <<open, pos, reader>>,
             op = "readdir" => off = pos[h] /\ size \in Sizes
      PROVE  ReaderInv'
  <2>1. PICK t \in Threads :
           /\ pc[t] = "idle"
           /\ req' = [req EXCEPT ![t] = [op |-> op, h |-> h, off |-> off, size |-> size]]
           /\ pc' = [pc EXCEPT ![t] = op]
    BY <1>2, SendIs
  <2>2. /\ pc'[t] = op /\ req'[t].h = h /\ req'[t].off = off /\ req'[t].size = size
        /\ \A u \in Threads \ {t} : pc'[u] = pc[u] /\ req'[u] = req[u]
    BY <2>1 DEF TypeInv, ThreadType
  <2>3. \A u \in Threads : req[u].h = h => pc[u] = "unlock"
    BY <1>2, SendIs
  <2>4. /\ dh' = dh /\ dir' = dir /\ mode' = mode /\ open' = open /\ pos' = pos
        /\ got' = got /\ atend' = atend /\ seen' = seen /\ stays' = stays
    BY <1>2 DEF Send, reader
  <2>5. HandleReads(h)'
    <3>1. HandleReads(h)
      BY ReaderParts
    <3> QED BY <2>4, <3>1 DEF HandleReads, SeenInv, PosInv, ListInv
  <2>6. ThreadReads(t)'
    BY <1>2, <2>2, <2>4 DEF ThreadReads, Reading
  <2>7. ASSUME NEW u \in Threads \ {t}, req[u].h = h PROVE ThreadReads(u)'
    <3>1. pc'[u] = "unlock"
      BY <2>2, <2>3, <2>7
    <3> QED BY <3>1 DEF ThreadReads, Reading
  <2>8. \A u \in Threads : \/ ThreadReads(u)'
                           \/ pc'[u] = pc[u] /\ req'[u] = req[u] /\ req[u].h # h
    BY <2>2, <2>6, <2>7
  <2> QED BY <2>4, <2>5, <2>8, ReaderFrame
<1>3. ASSUME NEW h \in Handles, SendOpendir(h) PROVE ReaderInv'
  BY <1>2, <1>3 DEF SendOpendir
<1>4. ASSUME NEW h \in Handles, SendReaddir(h) PROVE ReaderInv'
  BY <1>2, <1>4 DEF SendReaddir
<1>5. ASSUME NEW h \in Handles, PosInv(h, dh[h]), mode = "offsets", dh[h] # NoDh
      PROVE  ~dh[h].filled
  BY <1>5 DEF PosInv
<1>6. ASSUME NEW h \in Handles, SendReleasedir(h) PROVE ReaderInv'
  <2>1. PICK t \in Threads :
           /\ pc[t] = "idle"
           /\ req' = [req EXCEPT ![t] = [op |-> "releasedir", h |-> h, off |-> 0, size |-> 0]]
           /\ pc' = [pc EXCEPT ![t] = "releasedir"]
    BY <1>6, SendIs DEF SendReleasedir
  <2>2. \A u \in Threads : req[u].h = h => pc[u] = "unlock"
    BY <1>6, SendIs DEF SendReleasedir
  <2>3. /\ pc'[t] = "releasedir"
        /\ \A u \in Threads \ {t} : pc'[u] = pc[u] /\ req'[u] = req[u]
    BY <2>1 DEF TypeInv, ThreadType
  <2>4. \A u \in Threads : \/ pc'[u] \notin Reading
                           \/ pc'[u] = pc[u] /\ req'[u] = req[u] /\ req[u].h # h
    BY <2>2, <2>3 DEF Reading
  <2>5. /\ dh' = dh /\ dir' = dir /\ mode' = mode /\ h \notin open'
        /\ \A g \in Handles \ {h} : g \in open' <=> g \in open
        /\ Begins(h, {})
    BY <1>6 DEF SendReleasedir, Send
  <2>6. mode = "offsets" /\ dh'[h] # NoDh => ~dh'[h].filled
    BY <1>5, <2>5 DEF ReaderInv
  <2> QED BY <2>4, <2>5, <2>6, ReaderBegins
<1>7. ASSUME NEW h \in Handles, Rewinddir(h) PROVE ReaderInv'
  <2>1. \A u \in Threads : req[u].h = h => pc[u] = "unlock"
    BY <1>7 DEF Rewinddir, Waits
  <2>2. /\ dh' = dh /\ dir' = dir /\ mode' = mode /\ h \in open' /\ open' = open
        /\ pc' = pc /\ req' = req
        /\ Begins(h, dir)
    BY <1>7 DEF Rewinddir
  <2>3. \A u \in Threads : \/ pc'[u] \notin Reading
                           \/ pc'[u] = pc[u] /\ req'[u] = req[u] /\ req[u].h # h
    BY <2>1, <2>2 DEF Reading
  <2>4. dh[h] # NoDh
    BY <2>2 DEF HandleInv, DhInv
  <2>5. mode = "offsets" /\ dh'[h] # NoDh => ~dh'[h].filled
    BY <1>5, <2>2 DEF ReaderInv
  <2> QED BY <2>2, <2>3, <2>4, <2>5, ReaderBegins
<1>8. ASSUME NEW n \in Names, Forget(n) PROVE ReaderInv'
  <2>1. /\ dir' = dir /\ mode' = mode /\ dh' = dh /\ pc' = pc /\ req' = req
        /\ open' = open /\ pos' = pos
        /\ got' = got /\ atend' = atend /\ seen' = seen /\ stays' = stays
    BY <1>8 DEF Forget, reader
  <2> QED BY <2>1 DEF ReaderInv, SeenInv, PosInv, ListInv, ReplyInv, EntriesOnce
<1>9. ASSUME NEW n \in Names, Create(n) PROVE ReaderInv'
  <2>1. /\ dir' = dir \cup {n}
        /\ \A h \in Handles : seen'[h] = IF h \in open THEN seen[h] \cup {n} ELSE {}
        /\ mode' = mode /\ dh' = dh /\ pc' = pc /\ req' = req
        /\ open' = open /\ pos' = pos /\ got' = got /\ atend' = atend /\ stays' = stays
    BY <1>9 DEF Create, kernel
  <2>2. ASSUME NEW h \in Handles
        PROVE  seen[h] \subseteq seen'[h] /\ (h \in open => n \in seen'[h])
    <3>1. SeenInv(h)
      BY DEF ReaderInv
    <3> QED BY <2>1, <3>1 DEF SeenInv
  <2>3. ASSUME NEW h \in Handles PROVE HandleReads(h)'
    <3>1. HandleReads(h)
      BY ReaderParts
    <3>2. SeenInv(h)'
      BY <2>1, <2>2, <3>1 DEF HandleReads, SeenInv
    <3>3. PosInv(h, dh[h])'
      BY <2>1, <2>2, <3>1 DEF HandleReads, PosInv, ListInv
    <3> QED BY <2>1, <2>2, <3>1, <3>2, <3>3 DEF HandleReads
  <2>4. ASSUME NEW t \in Threads PROVE ThreadReads(t)'
    <3>1. ThreadReads(t)
      BY ReaderParts
    <3>2. CASE pc[t] = "reply" /\ ~dh[req[t].h].error
      <4>1. PICK h \in Handles : h = req[t].h
        BY <3>2, HandleOf
      <4>2. ReplyInv(h, dh[h])
        BY <3>1, <3>2, <4>1 DEF ThreadReads
      <4>3. ReplyInv(h, dh[h])'
        BY <2>1, <2>2, <4>2 DEF ReplyInv, ListInv
      <4> QED BY <2>1, <3>1, <4>1, <4>3 DEF ThreadReads
    <3>3. CASE ~ (pc[t] = "reply" /\ ~dh[req[t].h].error)
      BY <2>1, <3>1, <3>3 DEF ThreadReads
    <3> QED BY <3>2, <3>3
  <2> QED BY <2>3, <2>4 DEF ReaderInv, EntriesOnce, HandleReads, ThreadReads
<1>10. ASSUME NEW n \in Names, Unlink(n) PROVE ReaderInv'
  <2>1. /\ dir' = dir \ {n}
        /\ \A h \in Handles : stays'[h] = stays[h] \ {n}
        /\ mode' = mode /\ dh' = dh /\ pc' = pc /\ req' = req
        /\ open' = open /\ pos' = pos /\ got' = got /\ atend' = atend /\ seen' = seen
    BY <1>10 DEF Unlink, kernel
  <2>2. ASSUME NEW h \in Handles PROVE HandleReads(h)'
    <3>1. HandleReads(h)
      BY ReaderParts
    <3>2. SeenInv(h)'
      BY <2>1, <3>1 DEF HandleReads, SeenInv
    <3>3. PosInv(h, dh[h])'
      BY <2>1, <3>1 DEF HandleReads, PosInv, ListInv
    <3> QED BY <2>1, <3>1, <3>2, <3>3 DEF HandleReads
  <2>3. ASSUME NEW t \in Threads PROVE ThreadReads(t)'
    <3>1. ThreadReads(t)
      BY ReaderParts
    <3>2. CASE pc[t] = "reply" /\ ~dh[req[t].h].error
      <4>1. PICK h \in Handles : h = req[t].h
        BY <3>2, HandleOf
      <4>2. ReplyInv(h, dh[h])
        BY <3>1, <3>2, <4>1 DEF ThreadReads
      <4>3. ReplyInv(h, dh[h])'
        BY <2>1, <4>2 DEF ReplyInv, ListInv
      <4> QED BY <2>1, <3>1, <4>1, <4>3 DEF ThreadReads
    <3>3. CASE ~ (pc[t] = "reply" /\ ~dh[req[t].h].error)
      BY <2>1, <3>1, <3>3 DEF ThreadReads
    <3> QED BY <3>2, <3>3
  <2> QED BY <2>2, <2>3 DEF ReaderInv, EntriesOnce, HandleReads, ThreadReads
<1> QED BY <1>3, <1>4, <1>6, <1>7, <1>8, <1>9, <1>10 DEF Kernel, Changes

\* ReplyDir: the reader gets an error, the end, or what follows.
LEMMA ReplyReads ==
    ASSUME TypeInv, HandleInv, CountInv, ReaderInv, NEW t \in Threads, ReplyDir(t)
    PROVE  ReaderInv'
<1>1. pc[t] = "reply"
  BY DEF ReplyDir
<1>2. PICK h \in Handles : h = req[t].h
  BY <1>1, HandleOf
<1>3. /\ dh[h] \in Dhs
      /\ dh[h].contents # <<>> => /\ Last(dh[h].contents).off \in Nat
                                  /\ Len(dh[h].contents) \in DOMAIN dh[h].contents
  BY <1>2, ReplyDirIs
<1>4. PICK d \in Dhs : /\ dh' = [dh EXCEPT ![h] = d]
                       /\ d.first = dh[h].first /\ d.filled = dh[h].filled
  BY <1>2, ReplyDirIs
<1>5. \A u \in Threads \ {t} : req[u].h = h => pc[u] \notin Reading
  BY <1>1, <1>2, Alone DEF Reading
<1>6. HandleReads(h) /\ h \in open
  BY <1>1, <1>2, ReaderParts DEF HandleInv, PlaceInv, Reading
<1>7. ~dh[h].error => ReplyInv(h, dh[h])
  BY <1>1, <1>2 DEF ReaderInv
<1>8. d # NoDh /\ dh[h] # NoDh
  BY <1>3, DirsAssumption
<1>9. ASSUME PosInv(h, dh[h]) PROVE PosInv(h, d)
  BY <1>4, <1>8, <1>9 DEF PosInv, ListInv
<1>10. /\ req' = req /\ open' = open /\ seen' = seen /\ stays' = stays
       /\ dir' = dir /\ mode' = mode /\ Goto(t, "unlock")
  BY DEF ReplyDir
<1>11. /\ pc'[t] = "unlock" /\ \A u \in Threads \ {t} : pc'[u] = pc[u]
       /\ dh'[h] = d /\ \A g \in Handles \ {h} : dh'[g] = dh[g]
  BY <1>4, <1>10 DEF Goto, TypeInv, ThreadType
<1>12. \A u \in Threads : \/ ThreadReads(u)'
                          \/ pc'[u] = pc[u] /\ req'[u] = req[u] /\ req[u].h # h
  <2>1. ASSUME NEW u \in Threads, u = t \/ req[u].h = h PROVE ThreadReads(u)'
    <3>1. pc'[u] \notin Reading
      BY <1>5, <1>11, <2>1 DEF Reading
    <3> QED BY <3>1 DEF ThreadReads, Reading
  <2> QED BY <1>10, <1>11, <2>1
<1>13. CASE dh[h].error
  <2>1. pos' = pos /\ got' = got /\ atend' = atend
    BY <1>2, <1>13 DEF ReplyDir
  <2>2. HandleReads(h)'
    <3>1. PosInv(h, d)
      BY <1>6, <1>9 DEF HandleReads
    <3>2. PosInv(h, dh[h])'
      BY <1>10, <1>11, <2>1, <3>1 DEF PosInv, ListInv
    <3> QED BY <1>6, <1>10, <2>1, <3>2 DEF HandleReads, SeenInv
  <2> QED BY <1>10, <1>11, <1>12, <2>1, <2>2, ReaderFrame
<1>14. CASE ~dh[h].error /\ dh[h].contents = <<>>
  <2>1. pos' = pos /\ got' = got /\ atend' = atend \cup {h}
    BY <1>2, <1>14 DEF ReplyDir
  <2>2. stays[h] \subseteq ToSet(got[h])
    BY <1>3, <1>6, <1>7, <1>14, ReplyEnds DEF HandleReads
  <2>3. HandleReads(h)'
    <3>1. PosInv(h, d)
      BY <1>6, <1>9 DEF HandleReads
    <3>2. PosInv(h, dh[h])'
      BY <1>10, <1>11, <2>1, <3>1 DEF PosInv, ListInv
    <3> QED BY <1>6, <1>10, <2>1, <2>2, <3>2 DEF HandleReads, SeenInv
  <2>4. \A g \in Handles \ {h} : g \in atend' <=> g \in atend
    BY <2>1
  <2> QED BY <1>10, <1>11, <1>12, <2>1, <2>3, <2>4, ReaderFrame
<1>15. CASE ~dh[h].error /\ dh[h].contents # <<>>
  <2>1. PICK c : c = dh[h].contents
    OBVIOUS
  <2>2. PICK names : names = [i \in DOMAIN c |-> c[i].name]
    OBVIOUS
  <2>3. PICK p : p = Last(c).off
    OBVIOUS
  <2>4. PICK g : g = got[h] \o names
    OBVIOUS
  <2>5. /\ pos' = [pos EXCEPT ![h] = p]
        /\ got' = [got EXCEPT ![h] = g]
        /\ atend' = atend
    <3>1. /\ pos' = [pos EXCEPT ![h] = Last(c).off]
          /\ got' = [got EXCEPT ![h] = @ \o [i \in DOMAIN c |-> c[i].name]]
          /\ atend' = atend
      BY <1>2, <1>15, <2>1 DEF ReplyDir
    <3> QED BY <2>2, <2>3, <2>4, <3>1 DEF TypeInv
  <2>6. /\ pos'[h] = p /\ got'[h] = g
        /\ \A e \in Handles \ {h} : pos'[e] = pos[e] /\ got'[e] = got[e]
    BY <2>5 DEF TypeInv
  <2>7. /\ SeenInv(h) /\ PosInv(h, dh[h])
        /\ IsInjective(got[h]) /\ ToSet(got[h]) \subseteq seen[h]
        /\ ReplyInv(h, dh[h]) /\ c # <<>>
    BY <1>6, <1>7, <1>15, <2>1 DEF HandleReads
  <2>8. Moved(h, dh[h], g, p)
    <3>1. /\ names \in Seq(Names)
          /\ DOMAIN names = DOMAIN c
          /\ \A i \in DOMAIN c : names[i] = c[i].name
      BY <1>2, <2>1, <2>2, ReplyDirIs
    <3>2. dh[h] \in Dhs
      BY <1>3
    <3> QED BY <2>1, <2>3, <2>4, <2>7, <3>1, <3>2, ReplyMoves
  <2>9. SeenInv(h)'
    BY <1>6, <1>10, <2>5, <2>6, <2>7, <2>8 DEF SeenInv, Moved
  <2>10. PosInv(h, dh[h])'
    <3>1. CASE mode = "list"
      BY <1>4, <1>10, <1>11, <2>6, <2>8, <3>1 DEF PosInv, ListInv, Moved
    <3>2. CASE mode # "list"
      <4>1. ~d.filled
        BY <1>4, <1>8, <2>7, <3>2 DEF PosInv
      <4> QED BY <1>10, <1>11, <2>6, <2>8, <3>2, <4>1 DEF PosInv, Moved
    <3> QED BY <3>1, <3>2
  <2>11. HandleReads(h)'
    <3>1. h \in atend => stays[h] \subseteq ToSet(g)
      BY <1>6, <2>8 DEF HandleReads, Moved
    <3> QED BY <1>10, <2>5, <2>6, <2>8, <2>9, <2>10, <3>1 DEF HandleReads, Moved
  <2> QED BY <1>10, <1>11, <1>12, <2>5, <2>6, <2>11, ReaderFrame
<1> QED BY <1>13, <1>14, <1>15

\* A thread that opens, reads, or releases the directory.
LEMMA ThreadReaders ==
    ASSUME TypeInv, HandleInv, CountInv, ReaderInv, TypeInv', HandleInv',
           NEW t \in Threads, Step(t)
    PROVE  ReaderInv'
<1>1. pc[t] # "idle"
  BY DEF Step, Opendir, ReplyOpen, CancelOpen, Releasedir, WaitReader, FreeDh, LockDh,
         Readdir, ReplyDir, UnlockDh
<1>2. PICK h \in Handles : h = req[t].h
  BY <1>1, HandleOf
<1>3. PlaceInv(t) /\ DhInv(h) /\ SeenInv(h) /\ PosInv(h, dh[h])
  BY DEF HandleInv, ReaderInv
<1>4. ASSUME Ends(t)
      PROVE  Goto(t, "idle") /\ \A u \in Threads \ {t} : req'[u] = req[u]
  BY <1>4 DEF Ends, TypeInv, ThreadType
<1>5. pc[t] # "unlock" => \A u \in Threads \ {t} : req[u].h = h => pc[u] \notin Reading
  BY <1>1, <1>2, Alone DEF Reading
<1>6. ASSUME NEW place \in {"idle", "reply_open", "wait_reader", "free"}, Goto(t, place),
             \A u \in Threads \ {t} : req'[u] = req[u],
             NEW d, dh' = [dh EXCEPT ![h] = d], PosInv(h, d),
             Unseen
      PROVE  ReaderInv'
  <2>1. place \notin Reading /\ place # "reply"
    BY <1>6 DEF Reading
  <2> QED BY <1>2, <1>6, <2>1, ReaderKeeps
<1>7. ASSUME dh' = dh PROVE dh' = [dh EXCEPT ![h] = dh[h]]
  BY <1>7 DEF TypeInv
<1>8. ASSUME h \notin open, NEW d, d = NoDh \/ ~d.filled PROVE PosInv(h, d)
  <2>1. pos[h] = 0 /\ got[h] = <<>> /\ stays[h] = {}
    BY <1>3, <1>8 DEF SeenInv
  <2>2. ToSet(<<>>) = {}
    BY DEF ToSet
  <2> QED BY <1>8, <2>1, <2>2 DEF PosInv
<1>9. CASE Opendir(t)
  <2>1. h \notin open
    BY <1>2, <1>3, <1>9 DEF Opendir, PlaceInv
  <2>2. Unseen /\ pc[t] # "unlock"
    BY <1>9 DEF Opendir, kernel, reader, Unseen
  <2>3. CASE Ends(t) /\ dh' = dh
    BY <1>3, <1>4, <1>6, <1>7, <2>2, <2>3
  <2>4. CASE dh' = [dh EXCEPT ![h] = NewDh] /\ Goto(t, "reply_open") /\ req' = req
    <3>1. PosInv(h, NewDh)
      BY <1>8, <2>1, NewDhIs
    <3> QED BY <1>6, <2>2, <2>4, <3>1
  <2> QED BY <1>2, <1>9, <2>3, <2>4 DEF Opendir
<1>10. CASE ReplyOpen(t)
  <2>1. h \notin open /\ dh[h] # NoDh /\ pc[t] # "unlock"
    BY <1>2, <1>3, <1>10 DEF ReplyOpen, PlaceInv
  <2>2. /\ open' = open \cup {h} /\ Begins(h, dir) /\ Ends(t)
        /\ dir' = dir /\ mode' = mode /\ dh' = dh
    BY <1>2, <1>10 DEF ReplyOpen
  <2>3. /\ pc'[t] = "idle"
        /\ \A u \in Threads \ {t} : pc'[u] = pc[u] /\ req'[u] = req[u]
    BY <2>2 DEF Ends, Goto, TypeInv, ThreadType
  <2>4. \A u \in Threads : \/ pc'[u] \notin Reading
                           \/ pc'[u] = pc[u] /\ req'[u] = req[u] /\ req[u].h # h
    <3>1. pc'[t] \notin Reading
      BY <2>3 DEF Reading
    <3> QED BY <1>5, <2>1, <2>3, <3>1
  <2>5. mode = "offsets" /\ dh'[h] # NoDh => ~dh'[h].filled
    BY <1>3, <2>2 DEF PosInv
  <2>6. h \in open' /\ \A g \in Handles \ {h} : g \in open' <=> g \in open
    BY <2>2
  <2> QED BY <2>1, <2>2, <2>4, <2>5, <2>6, ReaderBegins
<1>11. CASE CancelOpen(t)
  <2>1. h \notin open /\ dh' = [dh EXCEPT ![h] = NoDh] /\ Ends(t) /\ pc[t] # "unlock"
    BY <1>2, <1>3, <1>11 DEF CancelOpen, PlaceInv
  <2>2. Unseen
    BY <1>11 DEF CancelOpen, kernel, reader, Unseen
  <2>3. PosInv(h, NoDh)
    BY <1>8, <2>1
  <2> QED BY <1>4, <1>6, <2>1, <2>2, <2>3
<1>12. CASE Releasedir(t)
  <2>1. /\ Goto(t, "wait_reader") /\ req' = req /\ dh' = dh
        /\ Unseen
    BY <1>12 DEF Releasedir, kernel, reader, Unseen
  <2> QED BY <1>3, <1>6, <1>7, <2>1
<1>13. CASE WaitReader(t)
  <2>1. /\ Goto(t, "free") /\ req' = req /\ dh' = dh
        /\ Unseen
    BY <1>13 DEF WaitReader, kernel, reader, Unseen
  <2> QED BY <1>3, <1>6, <1>7, <2>1
<1>14. CASE FreeDh(t)
  <2>1. h \notin open /\ dh' = [dh EXCEPT ![h] = NoDh] /\ Ends(t) /\ pc[t] # "unlock"
    BY <1>2, <1>3, <1>14 DEF FreeDh, PlaceInv, Closing
  <2>2. Unseen
    BY <1>14 DEF FreeDh, kernel, reader, Unseen
  <2>3. PosInv(h, NoDh)
    BY <1>8, <2>1
  <2> QED BY <1>4, <1>6, <2>1, <2>2, <2>3
\* The lock changes hands; what is read of the handle does not change.
<1>15. ASSUME dh[h] # NoDh, NEW lock, NEW d, d = [dh[h] EXCEPT !.lock = lock]
       PROVE  /\ PosInv(h, d)
              /\ d.error = dh[h].error
              /\ ReplyInv(h, dh[h]) => ReplyInv(h, d)
  <2>1. dh[h] \in Dhs
    BY <1>15, DhType
  <2>2. /\ d.first = dh[h].first /\ d.filled = dh[h].filled
        /\ d.contents = dh[h].contents /\ d.error = dh[h].error
    BY <1>15, <2>1 DEF Dhs
  <2>3. PosInv(h, d)
    BY <1>3, <1>15, <2>2 DEF PosInv, ListInv
  <2>4. ReplyInv(h, dh[h]) => ReplyInv(h, d)
    BY <2>2 DEF ReplyInv, ListInv
  <2> QED BY <2>2, <2>3, <2>4
<1>16. CASE LockDh(t)
  <2>1. pc[t] = "readdir" /\ h \in open /\ dh[h] # NoDh
    BY <1>2, <1>3, <1>16 DEF LockDh, PlaceInv, DhInv, Reading
  <2>2. PICK d : d = [dh[h] EXCEPT !.lock = t]
    OBVIOUS
  <2>3. dh' = [dh EXCEPT ![h] = d]
    BY <1>2, <1>16, <2>2 DEF LockDh, TypeInv
  <2>4. /\ Goto(t, "fill") /\ req' = req
        /\ Unseen
    BY <1>16 DEF LockDh, kernel, reader, Unseen
  <2>5. PosInv(h, d)
    BY <1>15, <2>1, <2>2
  <2>6. pc[t] \in Reading
    BY <2>1 DEF Reading
  <2>7. Goto(t, "fill") /\ req'[t] = req[t] /\ \A u \in Threads \ {t} : req'[u] = req[u]
    BY <2>4
  <2>8. PICK place : place = "fill"
    OBVIOUS
  <2>9. Goto(t, place) /\ place # "reply"
    BY <2>7, <2>8
  <2> QED BY <1>2, <2>3, <2>4, <2>5, <2>6, <2>7, <2>9, ReaderKeeps
<1>17. CASE Readdir(t)
  <2>1. PICK d \in Dhs, tried \in SUBSET Names :
           /\ dh' = [dh EXCEPT ![h] = d]
           /\ Filled(h, t, d, tried)
    BY <1>2, <1>17, ReaddirIs
  <2>2. /\ pc[t] = "fill" /\ Goto(t, "reply") /\ req' = req
        /\ Unseen
    BY <1>17 DEF Readdir, kernel, reader, Unseen
  <2>3. PosInv(h, d) /\ (~d.error => ReplyInv(h, d))
    BY <2>1 DEF Filled
  <2>4. pc[t] \in Reading
    BY <2>2 DEF Reading
  <2> QED BY <1>2, <2>1, <2>2, <2>3, <2>4, ReaderKeeps
<1>18. CASE UnlockDh(t)
  <2>1. pc[t] = "unlock" /\ dh[h] # NoDh /\ Ends(t)
    BY <1>2, <1>3, <1>18 DEF UnlockDh, PlaceInv, Holding
  <2>2. PICK d : d = [dh[h] EXCEPT !.lock = Nobody]
    OBVIOUS
  <2>3. dh' = [dh EXCEPT ![h] = d]
    BY <1>2, <1>18, <2>2 DEF UnlockDh, TypeInv
  <2>4. Unseen
    BY <1>18 DEF UnlockDh, kernel, reader, Unseen
  <2>5. PosInv(h, d)
    BY <1>15, <2>1, <2>2
  <2> QED BY <1>4, <1>6, <2>1, <2>3, <2>4, <2>5
<1> QED BY <1>9, <1>10, <1>11, <1>12, <1>13, <1>14, <1>16, <1>17, <1>18, ReplyReads DEF Step

-----------------------------------------------------------------------------
(* The invariant.                                                          *)

\* At the beginning nothing is open.
LEMMA DirsInit ==
    ASSUME Init
    PROVE  DirsInv
<1>1. NoReq.h = NoDh /\ NoDh \notin Handles
  BY DirsAssumption DEF NoReq
<1>2. TypeInv
  BY DirsAssumption, EmptySeq DEF Init, TypeInv, ThreadType, Places
<1>3. HandleInv
  BY <1>1 DEF Init, HandleInv, PlaceInv, DhInv, OneRequest, Reading, Closing, Holding
<1>4. CountInv
  <2>1. \A n \in Names : Telling(n) = {}
    BY DEF Init, Telling
  <2>2. KnownCounted
    <3>1. ASSUME NEW n \in Names
          PROVE  Cardinality(Telling(n)) = 0 /\ known[n] = 0 /\ nlookup[n] = 0
      BY <2>1, FS_EmptySet DEF Init
    <3> QED BY <3>1 DEF KnownCounted
  <2> QED BY <2>2 DEF Init, CountInv
<1>5. ReaderInv
  <2>1. IsInjective(<<>>) /\ ToSet(<<>>) = {}
    BY DEF IsInjective, ToSet
  <2>2. ASSUME NEW h \in Handles PROVE HandleReads(h)
    BY <2>1, <2>2 DEF Init, HandleReads, SeenInv, PosInv
  <2>3. ASSUME NEW t \in Threads PROVE ThreadReads(t)
    BY <2>3 DEF Init, ThreadReads, Reading
  <2> QED BY <2>2, <2>3, ReaderParts
<1> QED BY <1>2, <1>3, <1>4, <1>5 DEF DirsInv

\* Every step keeps it.
LEMMA DirsStep ==
    ASSUME DirsInv, [Next]_vars
    PROVE  DirsInv'
<1> USE DEF DirsInv
<1>1. CASE Kernel \/ Changes
  <2>1. TypeInv'
    BY <1>1, KernelTypes
  <2>2. HandleInv'
    BY <1>1, <2>1, KernelHandles
  <2>3. CountInv'
    BY <1>1, <2>1, <2>2, KernelCounts
  <2>4. ReaderInv'
    BY <1>1, <2>1, KernelReads
  <2> QED BY <2>1, <2>2, <2>3, <2>4
<1>2. CASE \E t \in Threads : Step(t)
  <2>1. PICK t \in Threads : Step(t)
    BY <1>2
  <2>2. TypeInv'
    BY <2>1, ThreadTypes
  <2>3. HandleInv'
    BY <2>1, <2>2, ThreadHandles
  <2>4. CountInv'
    BY <2>1, <2>3, ThreadCounts
  <2>5. ReaderInv'
    BY <2>1, <2>2, <2>3, ThreadReaders
  <2> QED BY <2>2, <2>3, <2>4, <2>5
<1>3. CASE UNCHANGED vars
  <2>1. /\ dir' = dir /\ mode' = mode /\ fsopen' = fsopen /\ dh' = dh
        /\ nlookup' = nlookup /\ pc' = pc /\ req' = req
        /\ open' = open /\ pos' = pos /\ known' = known
        /\ got' = got /\ atend' = atend /\ seen' = seen /\ stays' = stays
    BY <1>3 DEF vars, kernel, reader
  <2>2. TypeInv'
    BY <2>1 DEF TypeInv, ThreadType
  <2>3. HandleInv'
    BY <2>1 DEF HandleInv, PlaceInv, DhInv, OneRequest, Using
  <2>4. CountInv'
    BY <2>1 DEF CountInv, KnownCounted, Telling
  <2>5. ReaderInv'
    <3>1. ASSUME NEW h \in Handles PROVE HandleReads(h)'
      <4>1. HandleReads(h)
        BY ReaderParts
      <4>2. SeenInv(h)'
        BY <2>1, <4>1 DEF HandleReads, SeenInv
      <4>3. PosInv(h, dh[h])'
        BY <2>1, <4>1 DEF HandleReads, PosInv, ListInv
      <4> QED BY <2>1, <4>1, <4>2, <4>3 DEF HandleReads
    <3>2. ASSUME NEW t \in Threads PROVE ThreadReads(t)'
      <4>1. ThreadReads(t)
        BY ReaderParts
      <4>2. PICK h : h = req[t].h
        OBVIOUS
      <4>3. ReplyInv(h, dh[h]) => ReplyInv(h, dh[h])'
        BY <2>1 DEF ReplyInv, ListInv
      <4> QED BY <2>1, <4>1, <4>2, <4>3 DEF ThreadReads
    <3> QED BY <3>1, <3>2 DEF ReaderInv, EntriesOnce, HandleReads, ThreadReads
  <2> QED BY <2>2, <2>3, <2>4, <2>5
<1> QED BY <1>1, <1>2, <1>3 DEF Next

LEMMA DirsCorrect == Spec => []DirsInv
<1>1. Init => DirsInv
  BY DirsInit
<1>2. DirsInv /\ [Next]_vars => DirsInv'
  BY DirsStep
<1> QED BY <1>1, <1>2, PTL DEF Spec

\* fuse_lib_releasedir: a struct fuse_dh is there while a thread uses it, even one
\* that has answered and only has to give up its lock, and goes when the kernel has
\* no use for it, as the handle of the filesystem does.
THEOREM DirsHandles == Spec => []HandlesKept
<1>1. DirsInv => HandlesKept
  <2> SUFFICES ASSUME DirsInv, NEW h \in Handles
               PROVE  /\ Using(h) # {} => dh[h] # NoDh
                      /\ dh[h] # NoDh \/ h \in fsopen => h \in open \/ Using(h) # {}
    BY DEF HandlesKept
  <2>1. DhInv(h) /\ TypeInv
    BY DEF DirsInv, HandleInv
  <2>2. ASSUME NEW t \in Using(h) PROVE dh[h] # NoDh
    <3>1. t \in Threads /\ req[t].h = h /\ pc[t] # "opendir"
      BY DEF Using
    <3>2. pc[t] # "idle" /\ PlaceInv(t)
      BY <2>1, <3>1, HandleOf DEF DirsInv, HandleInv
    <3>3. pc[t] \in Places
      BY <2>1, <3>1 DEF TypeInv, ThreadType
    <3> QED BY <2>1, <3>1, <3>2, <3>3 DEF PlaceInv, DhInv, Places
  <2> QED BY <2>1, <2>2 DEF DhInv
<1> QED BY <1>1, DirsCorrect, PTL

\* fill_dir_plus and do_lookup: every entry that readdirplus tells the kernel is
\* counted in its node before, so no node goes that the kernel knows.
THEOREM DirsCounted == Spec => []KnownCounted
<1>1. DirsInv => KnownCounted
  BY DEF DirsInv, CountInv
<1> QED BY <1>1, DirsCorrect, PTL

\* readdir_fill and readdir_fill_from_list: who reads a directory that others change
\* gets no name twice, none that never was there, and in the end all that stayed.
THEOREM DirsOnce == Spec => []EntriesOnce
<1>1. DirsInv => EntriesOnce
  BY DEF DirsInv, ReaderInv
<1> QED BY <1>1, DirsCorrect, PTL
=============================================================================
