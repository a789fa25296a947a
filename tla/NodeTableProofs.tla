-------------------------- MODULE NodeTableProofs --------------------------
(***************************************************************************)
(* Theorems about the hash tables of nodes: for every hash function, every *)
(* number of names and nodes, and however often the tables grow and        *)
(* shrink, they find what was put into them and nothing else.              *)
(***************************************************************************)
EXTENDS NodeTable, WellFoundedInduction, TLAPS

-----------------------------------------------------------------------------
(* Remainders and powers of two.                                           *)

\* What % and \div are, and that nothing else is.
LEMMA Remainder ==
    ASSUME NEW h \in Nat, NEW m \in Nat \ {0}
    PROVE  /\ h % m \in 0 .. m - 1
           /\ h \div m \in Nat
           /\ h = m * (h \div m) + (h % m)
OBVIOUS

LEMMA RemainderIs ==
    ASSUME NEW h \in Nat, NEW m \in Nat \ {0}, NEW q \in Nat, NEW r \in 0 .. m - 1,
           h = m * q + r
    PROVE  h % m = r
OBVIOUS

\* The remainder of 2 * m is that of m, in the lower or in the upper half.
LEMMA Halves ==
    ASSUME NEW h \in Nat, NEW m \in Nat \ {0}
    PROVE  /\ h % (2 * m) \in {h % m, (h % m) + m}
           /\ (h % (2 * m)) % m = h % m
<1> DEFINE r == h % (2 * m)
           q == h \div (2 * m)
<1>1. 2 * m \in Nat \ {0}
  OBVIOUS
<1>2. r \in 0 .. 2 * m - 1 /\ q \in Nat /\ h = (2 * m) * q + r
  BY <1>1, Remainder
<1>3. (2 * m) * q = m * (2 * q) /\ m * (2 * q + 1) = m * (2 * q) + m /\ m * (2 * q) \in Nat
  BY <1>2
<1> HIDE DEF r, q
<1>4. CASE r < m
  <2>1. h % m = r
    <3>1. h = m * (2 * q) + r /\ r \in 0 .. m - 1 /\ 2 * q \in Nat
      BY <1>2, <1>3, <1>4
    <3> QED BY <3>1, RemainderIs
  <2>2. r = m * 0 + r /\ r \in 0 .. m - 1 /\ r \in Nat
    BY <1>2, <1>4
  <2>3. r % m = r
    BY <2>2, RemainderIs, 0 \in Nat
  <2> QED BY <2>1, <2>3 DEF r
<1>5. CASE r >= m
  <2>1. h % m = r - m
    <3>1. h = m * (2 * q + 1) + (r - m) /\ r - m \in 0 .. m - 1 /\ 2 * q + 1 \in Nat
      BY <1>2, <1>3, <1>5
    <3> QED BY <3>1, RemainderIs
  <2>2. r = m * 1 + (r - m) /\ r - m \in 0 .. m - 1 /\ r \in Nat
    BY <1>2, <1>5
  <2>3. r % m = r - m
    BY <2>2, RemainderIs, 1 \in Nat
  <2> QED BY <1>2, <2>1, <2>3 DEF r
<1> QED BY <1>2, <1>4, <1>5

\* Powers of two are halved and doubled.
LEMMA PowerHalves ==
    ASSUME NEW s \in Nat \ {0, 1}, PowerOfTwo(s)
    PROVE  s = 2 * (s \div 2) /\ s \div 2 \in Nat \ {0} /\ PowerOfTwo(s \div 2)
<1>1. s * 1 = s /\ s \in 1 .. s /\ 1 \in 1 .. s
  OBVIOUS
<1>2. s % 2 = 0
  BY <1>1 DEF PowerOfTwo
<1>3. s = 2 * (s \div 2) /\ s \div 2 \in Nat \ {0}
  BY <1>2
<1>4. ASSUME NEW d \in 1 .. s \div 2, NEW q \in 1 .. s \div 2, d * q = s \div 2
      PROVE  d = 1 \/ d % 2 = 0
  <2>1. d * (2 * q) = 2 * (d * q)
    OBVIOUS
  <2>2. d * (2 * q) = s /\ d \in 1 .. s /\ 2 * q \in 1 .. s
    BY <1>3, <1>4, <2>1
  <2> QED BY <2>2 DEF PowerOfTwo
<1> QED BY <1>3, <1>4 DEF PowerOfTwo

LEMMA PowerDoubles ==
    ASSUME NEW s \in Nat \ {0}, PowerOfTwo(s)
    PROVE  PowerOfTwo(2 * s)
<1> SUFFICES ASSUME NEW d \in 1 .. 2 * s, NEW q \in 1 .. 2 * s, d * q = 2 * s, d % 2 # 0
             PROVE  d = 1
  BY DEF PowerOfTwo
<1>1. PICK i \in Nat : d = 2 * i + 1
  <2>1. d = 2 * (d \div 2) + 1 /\ d \div 2 \in Nat
    OBVIOUS
  <2> QED BY <2>1
<1>2. d * q = 2 * (i * q) + q /\ i * q \in Nat
  BY <1>1
<1>3. q = 2 * (s - i * q)
  BY <1>2
<1>4. PICK p \in Nat : q = 2 * p
  <2>1. s - i * q \in Nat
    BY <1>2, <1>3
  <2> QED BY <1>3, <2>1
<1>5. d * q = 2 * (d * p) /\ d * p \in Nat
  BY <1>4
<1>6. d * p = s
  BY <1>5
<1>7. p \in 1 .. s /\ d \in 1 .. s
  <2>1. p # 0
    BY <1>6
  <2>2. p <= d * p /\ d <= d * p
    BY <2>1
  <2> QED BY <1>6, <2>1, <2>2
<1> QED BY <1>6, <1>7 DEF PowerOfTwo

\* Every non-empty set of natural numbers has a least element.
LEMMA LeastElement ==
    ASSUME NEW S \in SUBSET Nat, S # {}
    PROVE  \E n \in S : \A m \in S : n <= m
<1> DEFINE R == OpToRel(<, Nat)
<1>1. PICK n \in S : \A m \in S : ~ <<m, n>> \in R
  <2>1. IsWellFoundedOn(R, Nat)
    BY NatLessThanWellFounded, Zenon
  <2> HIDE DEF R
  <2> QED BY <2>1, WFMin
<1>2. ASSUME NEW m \in S
      PROVE  n <= m
  <2>1. m \in Nat /\ n \in Nat
    OBVIOUS
  <2>2. ~ m < n
    BY <1>1, <2>1 DEF OpToRel
  <2> QED BY <2>1, <2>2
<1> QED BY <1>2

-----------------------------------------------------------------------------
(* One table.                                                              *)

\* The record of a table, with some array.
Shaped(t) ==
    /\ t = [array |-> t.array, size |-> t.size, split |-> t.split, use |-> t.use]
    /\ t.size \in Nat \ {0, 1} /\ t.split \in Nat /\ t.use \in Int
    /\ PowerOfTwo(t.size)
    /\ t.split <= Half(t)

\* Every bucket has the keys of S that are looked for in it.
Keeps(t, hash, S) ==
    /\ Shaped(t)
    /\ t.array = [b \in 0 .. t.size - 1 |-> {k \in S : Slot(t, hash[k]) = b}]

\* The record that an operation on tables makes.
LEMMA Made ==
    ASSUME NEW A, NEW z \in Nat \ {0, 1}, NEW p \in Nat, NEW u \in Int,
           PowerOfTwo(z), p <= z \div 2,
           NEW t, t = [array |-> A, size |-> z, split |-> p, use |-> u]
    PROVE  /\ Shaped(t)
           /\ t.array = A /\ t.size = z /\ t.split = p /\ Half(t) = z \div 2
BY DEF Shaped, Half

\* A table has two halves.
LEMMA HalfSize ==
    ASSUME NEW t, Shaped(t)
    PROVE  Half(t) \in Nat \ {0} /\ t.size = 2 * Half(t) /\ PowerOfTwo(Half(t))
BY PowerHalves DEF Shaped, Half

\* The bucket of a key, in terms of the half of the table.
LEMMA SlotCases ==
    ASSUME NEW t, Shaped(t), NEW h \in Nat
    PROVE  /\ h % Half(t) \in 0 .. Half(t) - 1
           /\ h % t.size \in {h % Half(t), (h % Half(t)) + Half(t)}
           /\ Slot(t, h) = IF h % Half(t) >= t.split THEN h % Half(t) ELSE h % t.size
           /\ Slot(t, h) \in 0 .. t.size - 1
<1>1. Half(t) \in Nat \ {0} /\ t.size = 2 * Half(t)
  BY HalfSize
<1>2. h % Half(t) \in 0 .. Half(t) - 1
  BY <1>1, Remainder
<1>3. /\ h % t.size \in {h % Half(t), (h % Half(t)) + Half(t)}
      /\ (h % t.size) % Half(t) = h % Half(t)
  BY <1>1, Halves
<1>4. Slot(t, h) = IF h % Half(t) >= t.split THEN h % Half(t) ELSE h % t.size
  BY <1>3 DEF Slot
<1> QED BY <1>1, <1>2, <1>3, <1>4

\* A table finds the keys that it keeps.
LEMMA FindsKept ==
    ASSUME NEW Keys, NEW hash \in [Keys -> Nat], NEW S \in SUBSET Keys,
           NEW t, Keeps(t, hash, S), NEW k \in Keys
    PROVE  Finds(t, hash[k], k) <=> k \in S
<1>1. Slot(t, hash[k]) \in 0 .. t.size - 1
  BY SlotCases DEF Keeps
<1> QED BY <1>1 DEF Keeps, Finds

\* Dividing the first bucket that is not divided yet.
LEMMA SplitKeeps ==
    ASSUME NEW Keys, NEW hash \in [Keys -> Nat], NEW S \in SUBSET Keys,
           NEW t, Keeps(t, hash, S), t.split # Half(t)
    PROVE  Keeps(Split(t, hash), hash, S)
<1> DEFINE n == [t EXCEPT !.split = @ + 1]
           s == Split(t, hash)
           m == Half(t)
           A == t.array
           gone == {k \in A[t.split] : Slot(n, hash[k]) # t.split}
<1>1. Shaped(t) /\ m \in Nat \ {0} /\ t.size = 2 * m /\ t.split \in 0 .. m - 1
  BY HalfSize DEF Keeps, Shaped
<1> DEFINE B == [b \in DOMAIN A |-> IF b = t.split THEN A[t.split] \ gone
                                    ELSE A[b] \cup {k \in gone : Slot(n, hash[k]) = b}]
<1>2. n = [array |-> A, size |-> t.size, split |-> t.split + 1, use |-> t.use]
  BY <1>1 DEF Shaped
<1>3. Shaped(n) /\ n.array = A /\ n.split = t.split + 1 /\ n.size = t.size /\ Half(n) = m
  BY <1>1, <1>2, Made DEF Shaped, Half
<1>4. s = [array |-> B, size |-> t.size, split |-> t.split + 1, use |-> t.use]
  <2>1. s = [n EXCEPT !.array = B]
    BY <1>3 DEF Split
  <2> HIDE DEF B, s
  <2> QED BY <1>2, <2>1
<1>5. Shaped(s) /\ s.array = B /\ s.split = t.split + 1 /\ s.size = t.size /\ Half(s) = m
  BY <1>1, <1>4, Made DEF Shaped, Half
<1>6. \A h : Slot(s, h) = Slot(n, h)
  BY <1>3, <1>5 DEF Slot
<1>7. A = [b \in 0 .. t.size - 1 |-> {k \in S : Slot(t, hash[k]) = b}]
  BY DEF Keeps
<1>8. ASSUME NEW k \in S
      PROVE  /\ Slot(n, hash[k]) # Slot(t, hash[k]) => Slot(t, hash[k]) = t.split
             /\ Slot(n, hash[k]) = t.split => Slot(t, hash[k]) = t.split
  <2> DEFINE h == hash[k]
  <2>1. h \in Nat
    OBVIOUS
  <2> HIDE DEF h
  <2>2. /\ h % m \in 0 .. m - 1
        /\ h % t.size \in {h % m, (h % m) + m}
        /\ Slot(t, h) = IF h % m >= t.split THEN h % m ELSE h % t.size
        /\ Slot(n, h) = IF h % m >= t.split + 1 THEN h % m ELSE h % t.size
    BY <1>1, <1>3, <2>1, SlotCases
  <2> HIDE DEF m
  <2>3. /\ Slot(n, h) # Slot(t, h) => Slot(t, h) = t.split
        /\ Slot(n, h) = t.split => Slot(t, h) = t.split
    BY <1>1, <2>2
  <2> QED BY <2>3 DEF h
<1> HIDE DEF m, n, s
<1>9. ASSUME NEW b \in 0 .. t.size - 1
      PROVE  s.array[b] = {k \in S : Slot(s, hash[k]) = b}
  <2>1. t.split \in 0 .. t.size - 1 /\ A[t.split] = {k \in S : Slot(t, hash[k]) = t.split}
    BY <1>1, <1>7
  <2>2. gone = {k \in S : Slot(t, hash[k]) = t.split /\ Slot(n, hash[k]) # t.split}
    BY <2>1
  <2>3. CASE b = t.split
    BY <1>5, <1>6, <1>7, <1>8, <2>1, <2>2, <2>3
  <2>4. CASE b # t.split
    <3>1. s.array[b] = A[b] \cup {k \in gone : Slot(n, hash[k]) = b}
      BY <1>5, <1>7, <2>4
    <3>2. A[b] = {k \in S : Slot(t, hash[k]) = b}
      BY <1>7
    <3> QED BY <1>6, <1>8, <2>2, <2>4, <3>1, <3>2
  <2> QED BY <2>3, <2>4
<1>10. s.array = [b \in 0 .. s.size - 1 |-> {k \in S : Slot(s, hash[k]) = b}]
  BY <1>5, <1>7, <1>9
<1> QED BY <1>5, <1>10 DEF Keeps, s

\* A table whose lower half is divided is the lower half of a larger one.
LEMMA DoubleKeeps ==
    ASSUME NEW Keys, NEW hash \in [Keys -> Nat], NEW S \in SUBSET Keys,
           NEW t, Keeps(t, hash, S), t.split = Half(t)
    PROVE  Keeps(Double(t), hash, S)
<1> DEFINE s == Double(t)
           A == t.array
<1>1. Shaped(t) /\ Half(t) \in Nat \ {0} /\ t.size = 2 * Half(t) /\ t.size \in Nat \ {0, 1}
  BY HalfSize DEF Keeps, Shaped
<1> DEFINE B == [b \in 0 .. 2 * t.size - 1 |-> IF b < t.size THEN A[b] ELSE {}]
<1>2. s = [array |-> B, size |-> 2 * t.size, split |-> 0, use |-> t.use]
  <2>1. s = [t EXCEPT !.array = B, !.size = 2 * @, !.split = 0]
    BY DEF Double
  <2> HIDE DEF B, s
  <2> QED BY <1>1, <2>1 DEF Shaped
<1>3. Shaped(s) /\ s.array = B /\ s.split = 0 /\ s.size = 2 * t.size /\ Half(s) = t.size
  <2>1. (2 * t.size) \div 2 = t.size /\ PowerOfTwo(2 * t.size)
    BY <1>1, PowerDoubles DEF Shaped
  <2> HIDE DEF B, s
  <2> QED BY <1>1, <1>2, <2>1, Made DEF Shaped
<1>5. ASSUME NEW k \in S
      PROVE  Slot(s, hash[k]) = Slot(t, hash[k]) /\ Slot(t, hash[k]) \in 0 .. t.size - 1
  <2> DEFINE h == hash[k]
  <2>1. h \in Nat
    OBVIOUS
  <2> HIDE DEF h, s
  <2>2. /\ h % t.size \in 0 .. t.size - 1
        /\ Slot(s, h) = IF h % t.size >= 0 THEN h % t.size ELSE h % s.size
    BY <1>3, <2>1, SlotCases
  <2>3. /\ Slot(t, h) \in 0 .. t.size - 1
        /\ h % Half(t) \in 0 .. Half(t) - 1
        /\ Slot(t, h) = IF h % Half(t) >= t.split THEN h % Half(t) ELSE h % t.size
    BY <1>1, <2>1, SlotCases
  <2>4. Slot(s, h) = Slot(t, h)
    BY <1>1, <2>2, <2>3
  <2> QED BY <2>3, <2>4 DEF h
<1> HIDE DEF s
<1>6. ASSUME NEW b \in 0 .. s.size - 1
      PROVE  s.array[b] = {k \in S : Slot(s, hash[k]) = b}
  BY <1>1, <1>3, <1>5 DEF Keeps
<1>7. s.array = [b \in 0 .. s.size - 1 |-> {k \in S : Slot(s, hash[k]) = b}]
  BY <1>3, <1>6
<1> QED BY <1>3, <1>7 DEF Keeps, s

\* Dividing one more bucket, and doubling once all are divided.
LEMMA RehashKeeps ==
    ASSUME NEW Keys, NEW hash \in [Keys -> Nat], NEW S \in SUBSET Keys,
           NEW t, Keeps(t, hash, S), NEW s \in Rehash(t, hash)
    PROVE  Keeps(s, hash, S)
<1>1. CASE t.split = Half(t)
  BY <1>1 DEF Rehash
<1>2. CASE t.split # Half(t)
  <2>1. Keeps(Split(t, hash), hash, S)
    BY <1>2, SplitKeeps
  <2>2. s = Split(t, hash) \/ /\ s = Double(Split(t, hash))
                              /\ Split(t, hash).split = Half(Split(t, hash))
    BY <1>2 DEF Rehash
  <2> QED BY <2>1, <2>2, DoubleKeeps
<1> QED BY <1>1, <1>2

\* Adding a key.
LEMMA HashKeeps ==
    ASSUME NEW Keys, NEW hash \in [Keys -> Nat], NEW S \in SUBSET Keys,
           NEW t, Keeps(t, hash, S), NEW k \in Keys, NEW u \in Hash(t, hash, k)
    PROVE  Keeps(u, hash, S \cup {k})
<1> DEFINE A == [t.array EXCEPT ![Slot(t, hash[k])] = @ \cup {k}]
           s == [t EXCEPT !.array[Slot(t, hash[k])] = @ \cup {k}, !.use = @ + 1]
<1>1. Shaped(t) /\ Slot(t, hash[k]) \in 0 .. t.size - 1
  BY SlotCases DEF Keeps
<1>2. s = [array |-> A, size |-> t.size, split |-> t.split, use |-> t.use + 1]
  <2> DEFINE x == Slot(t, hash[k])
  <2>1. s = [t EXCEPT !.array[x] = @ \cup {k}, !.use = @ + 1]
    OBVIOUS
  <2> HIDE DEF s, x
  <2>2. s = [array |-> [t.array EXCEPT ![x] = @ \cup {k}],
             size |-> t.size, split |-> t.split, use |-> t.use + 1]
    BY <1>1, <2>1 DEF Shaped
  <2> QED BY <2>2 DEF x
<1>3. Shaped(s) /\ s.array = A /\ s.size = t.size /\ s.split = t.split /\ Half(s) = Half(t)
  <2> HIDE DEF A, s
  <2> QED BY <1>1, <1>2, Made DEF Shaped, Half
<1>4. \A h : Slot(s, h) = Slot(t, h)
  <2> HIDE DEF A, s
  <2> QED BY <1>3 DEF Slot
<1>5. u \in Rehash(s, hash) \/ u = s
  BY DEF Hash
<1> HIDE DEF s
<1>6. s.array = [b \in 0 .. s.size - 1 |-> {j \in S \cup {k} : Slot(s, hash[j]) = b}]
  <2>1. t.array = [b \in 0 .. t.size - 1 |-> {j \in S : Slot(t, hash[j]) = b}]
    BY DEF Keeps
  <2>2. DOMAIN s.array = 0 .. s.size - 1
    BY <1>3, <2>1
  <2>3. ASSUME NEW b \in 0 .. s.size - 1
        PROVE  s.array[b] = {j \in S \cup {k} : Slot(s, hash[j]) = b}
    BY <1>1, <1>3, <1>4, <2>1
  <2>4. s.array = [b \in 0 .. s.size - 1 |-> s.array[b]]
    BY <1>1, <1>3, <2>1
  <2> QED BY <2>3, <2>4
<1>7. Keeps(s, hash, S \cup {k})
  BY <1>3, <1>6 DEF Keeps
<1> QED BY <1>5, <1>7, RehashKeeps

\* The upper half of a table that is not divided at all is empty.
LEMMA ReduceKeeps ==
    ASSUME NEW Keys, NEW hash \in [Keys -> Nat], NEW S \in SUBSET Keys,
           NEW t, Keeps(t, hash, S), t.split = 0
    PROVE  Keeps(Reduce(t), hash, S)
<1> SUFFICES ASSUME ~ Half(t) < MIN_SIZE
             PROVE  Keeps(Reduce(t), hash, S)
  BY DEF Reduce
<1> DEFINE s == Reduce(t)
           m == Half(t)
           A == t.array
<1>1. Shaped(t) /\ m \in Nat \ {0, 1} /\ t.size = 2 * m /\ PowerOfTwo(m)
  BY HalfSize, NodeAssumption DEF Keeps
<1>2. m = 2 * (m \div 2) /\ m \div 2 \in Nat
  BY <1>1, PowerHalves
<1> DEFINE B == [b \in 0 .. m - 1 |-> A[b]]
<1>3. s = [array |-> B, size |-> m, split |-> m \div 2, use |-> t.use]
  <2> HIDE DEF m
  <2>1. s = [t EXCEPT !.array = B, !.size = m, !.split = m \div 2]
    BY DEF Reduce, m
  <2> HIDE DEF B, s
  <2> QED BY <1>1, <2>1 DEF Shaped
<1>4. Shaped(s) /\ s.array = B /\ s.size = m /\ s.split = m \div 2 /\ Half(s) = m \div 2
  <2>1. t.use \in Int
    BY <1>1 DEF Shaped
  <2> HIDE DEF B, s, m
  <2> QED BY <1>1, <1>2, <1>3, <2>1, Made
<1>5. Half(s) = s.split
  BY <1>4
<1>6. ASSUME NEW k \in S
      PROVE  Slot(s, hash[k]) = Slot(t, hash[k])
  <2> DEFINE h == hash[k]
  <2>1. h \in Nat
    OBVIOUS
  <2> HIDE DEF h, s, m
  <2>2. h % m \in 0 .. m - 1 /\ Slot(t, h) = IF h % m >= 0 THEN h % m ELSE h % t.size
    BY <1>1, <2>1, SlotCases DEF m
  <2>3. /\ h % Half(s) \in 0 .. Half(s) - 1
        /\ Slot(s, h) = IF h % Half(s) >= s.split THEN h % Half(s) ELSE h % s.size
    BY <1>4, <2>1, SlotCases
  <2>4. ~ h % Half(s) >= s.split
    BY <1>1, <1>2, <1>4, <2>3
  <2>5. Slot(t, h) = h % m /\ Slot(s, h) = h % m
    BY <1>1, <1>4, <2>2, <2>3, <2>4
  <2> QED BY <2>5 DEF h
<1> HIDE DEF s, m
<1>7. s.array = [b \in 0 .. s.size - 1 |-> {k \in S : Slot(s, hash[k]) = b}]
  BY <1>1, <1>4, <1>6 DEF Keeps
<1> QED BY <1>4, <1>7 DEF Keeps, s

\* Merging n buckets with their images, of which only the last holds keys.
LEMMA MergedKeeps ==
    ASSUME NEW Keys, NEW hash \in [Keys -> Nat], NEW S \in SUBSET Keys,
           NEW t, Keeps(t, hash, S), NEW n \in 1 .. t.split,
           \A j \in 1 .. n - 1 : t.array[t.split - j + Half(t)] = {}
    PROVE  Keeps(Merged(t, n), hash, S)
<1> DEFINE s == Merged(t, n)
           m == Half(t)
           A == t.array
           low == t.split - n
           up == low + m
<1>1. /\ Shaped(t) /\ m \in Nat \ {0} /\ t.size = 2 * m
      /\ t.split \in 0 .. m /\ low \in 0 .. t.split - 1 /\ up \in m .. t.size - 1
  <2>1. Shaped(t) /\ m \in Nat \ {0} /\ t.size = 2 * m
    BY HalfSize DEF Keeps
  <2>2. t.split \in 0 .. m
    BY <2>1 DEF Shaped
  <2> HIDE DEF m
  <2> QED BY <2>1, <2>2
<1> DEFINE B == [A EXCEPT ![low] = @ \cup A[up], ![up] = {}]
<1>2. s = [array |-> B, size |-> t.size, split |-> low, use |-> t.use]
  <2>1. s = [t EXCEPT !.array[low] = @ \cup t.array[up], !.array[up] = {}, !.split = low]
    BY DEF Merged
  <2> HIDE DEF s, low, up
  <2> QED BY <1>1, <2>1 DEF Shaped
<1>3. Shaped(s) /\ s.array = B /\ s.size = t.size /\ s.split = low /\ Half(s) = m
  <2> HIDE DEF B, s
  <2> QED BY <1>1, <1>2, Made DEF Shaped, Half
<1>4. A = [b \in 0 .. t.size - 1 |-> {k \in S : Slot(t, hash[k]) = b}]
  BY DEF Keeps
<1>5. ASSUME NEW k \in S
      PROVE  Slot(s, hash[k]) = IF Slot(t, hash[k]) = up THEN low ELSE Slot(t, hash[k])
  <2> DEFINE h == hash[k]
  <2>1. h \in Nat
    OBVIOUS
  <2> HIDE DEF h, s
  <2>2. /\ h % m \in 0 .. m - 1
        /\ h % t.size \in {h % m, (h % m) + m}
        /\ Slot(t, h) = IF h % m >= t.split THEN h % m ELSE h % t.size
        /\ Slot(s, h) = IF h % m >= low THEN h % m ELSE h % t.size
    BY <1>1, <1>3, <2>1, SlotCases
  <2>3. ASSUME h % m > low, h % m < t.split
        PROVE  Slot(t, h) # (h % m) + m
    <3> DEFINE j == t.split - (h % m)
    <3>1. j \in 1 .. n - 1 /\ t.split - j + m = (h % m) + m
      BY <1>1, <2>2, <2>3
    <3>2. A[(h % m) + m] = {}
      BY <3>1
    <3>3. (h % m) + m \in 0 .. t.size - 1
      BY <1>1, <2>2
    <3>4. {i \in S : Slot(t, hash[i]) = (h % m) + m} = {}
      BY <1>4, <3>2, <3>3
    <3> QED BY <3>4 DEF h
  <2> HIDE DEF m
  <2>4. Slot(s, h) = IF Slot(t, h) = up THEN low ELSE Slot(t, h)
    BY <1>1, <2>2, <2>3
  <2> QED BY <2>4 DEF h
<1> HIDE DEF s, m
<1>6. ASSUME NEW b \in 0 .. s.size - 1
      PROVE  s.array[b] = {k \in S : Slot(s, hash[k]) = b}
  <2>1. s.array[b] = IF b = up THEN {} ELSE IF b = low THEN A[low] \cup A[up] ELSE A[b]
    BY <1>1, <1>3, <1>4
  <2>2. /\ A[b] = {k \in S : Slot(t, hash[k]) = b}
        /\ A[low] = {k \in S : Slot(t, hash[k]) = low}
        /\ A[up] = {k \in S : Slot(t, hash[k]) = up}
    BY <1>1, <1>3, <1>4
  <2>3. low # up
    BY <1>1
  <2> HIDE DEF low, up, A
  <2> QED BY <1>5, <2>1, <2>2, <2>3
<1>7. s.array = [b \in 0 .. s.size - 1 |-> {k \in S : Slot(s, hash[k]) = b}]
  BY <1>3, <1>4, <1>6
<1> QED BY <1>3, <1>7 DEF Keeps, s

\* Reducing, and merging buckets up to the first image that has keys.
LEMMA RemergeKeeps ==
    ASSUME NEW Keys, NEW hash \in [Keys -> Nat], NEW S \in SUBSET Keys,
           NEW t, Keeps(t, hash, S)
    PROVE  Keeps(Remerge(t), hash, S)
<1> DEFINE s == IF t.split = 0 THEN Reduce(t) ELSE t
           steps == {n \in 1 .. MERGES : n <= s.split}
           full == {n \in steps : s.array[s.split - n + Half(s)] # {}}
           Stops(n) == \/ n \in full /\ \A m \in full : n <= m
                       \/ full = {} /\ \A m \in steps : m <= n
           n == CHOOSE n \in steps : Stops(n)
<1>1. Keeps(s, hash, S)
  BY ReduceKeeps
<1>2. s.split \in Nat
  BY <1>1 DEF Keeps, Shaped
<1>3. Remerge(t) = IF steps = {} THEN s ELSE Merged(s, n)
  BY DEF Remerge
<1> HIDE DEF s
<1>4. ASSUME steps # {}
      PROVE  \E i \in steps : Stops(i)
  <2>1. CASE full = {}
    <3> DEFINE i == IF MERGES <= s.split THEN MERGES ELSE s.split
    <3>1. i \in steps /\ \A m \in steps : m <= i
      BY <1>2, <1>4, NodeAssumption
    <3> QED BY <2>1, <3>1
  <2>2. CASE full # {}
    <3>1. full \in SUBSET Nat
      BY NodeAssumption
    <3>2. PICK i \in full : \A m \in full : i <= m
      BY <2>2, <3>1, LeastElement
    <3> QED BY <3>2
  <2> QED BY <2>1, <2>2
<1>5. ASSUME steps # {}
      PROVE  Keeps(Merged(s, n), hash, S)
  <2>1. n \in steps /\ Stops(n)
    BY <1>4, <1>5
  <2> HIDE DEF n
  <2>2. n \in 1 .. s.split
    BY <1>2, <2>1, NodeAssumption
  <2>3. ASSUME NEW j \in 1 .. n - 1
        PROVE  s.array[s.split - j + Half(s)] = {}
    <3>1. j \in steps /\ j \notin full
      BY <1>2, <2>1, <2>2, NodeAssumption
    <3> QED BY <3>1
  <2> QED BY <1>1, <2>2, <2>3, MergedKeeps
<1> QED BY <1>1, <1>3, <1>5

\* Taking a key out.
LEMMA UnhashKeeps ==
    ASSUME NEW Keys, NEW hash \in [Keys -> Nat], NEW S \in SUBSET Keys,
           NEW t, Keeps(t, hash, S), NEW k \in Keys
    PROVE  Keeps(Unhash(t, hash, k), hash, S \ {k})
<1> DEFINE A == [t.array EXCEPT ![Slot(t, hash[k])] = @ \ {k}]
           s == [t EXCEPT !.array[Slot(t, hash[k])] = @ \ {k}, !.use = @ - 1]
<1>1. Shaped(t) /\ Slot(t, hash[k]) \in 0 .. t.size - 1
  BY SlotCases DEF Keeps
<1>2. s = [array |-> A, size |-> t.size, split |-> t.split, use |-> t.use - 1]
  <2> DEFINE x == Slot(t, hash[k])
  <2>1. s = [t EXCEPT !.array[x] = @ \ {k}, !.use = @ - 1]
    OBVIOUS
  <2> HIDE DEF s, x
  <2>2. s = [array |-> [t.array EXCEPT ![x] = @ \ {k}],
             size |-> t.size, split |-> t.split, use |-> t.use - 1]
    BY <1>1, <2>1 DEF Shaped
  <2> QED BY <2>2 DEF x
<1>3. Shaped(s) /\ s.array = A /\ s.size = t.size /\ s.split = t.split /\ Half(s) = Half(t)
  <2> HIDE DEF A, s
  <2> QED BY <1>1, <1>2, Made DEF Shaped, Half
<1>4. \A h : Slot(s, h) = Slot(t, h)
  <2> HIDE DEF A, s
  <2> QED BY <1>3 DEF Slot
<1>5. Unhash(t, hash, k) = IF ~ Finds(t, hash[k], k) THEN t
                           ELSE IF s.use < s.size \div 4 THEN Remerge(s) ELSE s
  BY DEF Unhash
<1> HIDE DEF s
<1>6. s.array = [b \in 0 .. s.size - 1 |-> {j \in S \ {k} : Slot(s, hash[j]) = b}]
  <2>1. t.array = [b \in 0 .. t.size - 1 |-> {j \in S : Slot(t, hash[j]) = b}]
    BY DEF Keeps
  <2>2. DOMAIN s.array = 0 .. s.size - 1
    BY <1>3, <2>1
  <2>3. ASSUME NEW b \in 0 .. s.size - 1
        PROVE  s.array[b] = {j \in S \ {k} : Slot(s, hash[j]) = b}
    BY <1>1, <1>3, <1>4, <2>1
  <2>4. s.array = [b \in 0 .. s.size - 1 |-> s.array[b]]
    BY <1>1, <1>3, <2>1
  <2> QED BY <2>3, <2>4
<1>7. Keeps(s, hash, S \ {k})
  BY <1>3, <1>6 DEF Keeps
<1>8. ASSUME ~ Finds(t, hash[k], k)
      PROVE  S \ {k} = S
  BY <1>8, FindsKept
<1> QED BY <1>5, <1>7, <1>8, RemergeKeeps

-----------------------------------------------------------------------------
(* The inductive invariant.                                                *)

Named(f) == {f[n] : n \in DOMAIN f} \ {NoName}

\* Nodes have a number of their own and no two of them the same name.
NamesInv(f) ==
    /\ f \in [DOMAIN f -> Names \cup {NoName}]
    /\ DOMAIN f \subseteq Numbers
    /\ ROOT \in DOMAIN f
    /\ \A n, m \in DOMAIN f : f[n] = f[m] /\ f[n] # NoName => n = m

TablesInv ==
    /\ Keeps(id_table, IdHash, DOMAIN name)
    /\ Keeps(name_table, NameHash, Named(name))

\* The numbers that were given are not behind the counter.
GivenInv ==
    /\ ctr \in 0 .. UNKNOWN - 1
    /\ generation \in Nat
    /\ \A g \in given :
          \/ g = <<ROOT, 0>>
          \/ /\ g \in Nat \X Nat
             /\ g[2] < generation \/ (g[2] = generation /\ g[1] <= ctr)

NodesInv == NamesInv(name) /\ TablesInv /\ GivenInv

\* The tables find the nodes.
LEMMA FindsNodes ==
    ASSUME NamesInv(name), TablesInv
    PROVE  /\ \A n \in Numbers : get_node(n) <=> n \in DOMAIN name
           /\ \A nm \in Names : lookup_node(nm) <=> nm \in Named(name)
           /\ Named(name) \subseteq Names
<1>1. DOMAIN name \in SUBSET Numbers /\ Named(name) \in SUBSET Names
  BY DEF NamesInv, Named
<1>2. IdHash \in [Numbers -> Nat] /\ NameHash \in [Names -> Nat]
  BY NodeAssumption
<1>3. ASSUME NEW n \in Numbers
      PROVE  get_node(n) <=> n \in DOMAIN name
  BY <1>1, <1>2, FindsKept DEF TablesInv, get_node
<1>4. ASSUME NEW nm \in Names
      PROVE  lookup_node(nm) <=> nm \in Named(name)
  BY <1>1, <1>2, FindsKept DEF TablesInv, lookup_node
<1> QED BY <1>1, <1>3, <1>4

\* What the tables find is what the nodes say.
LEMMA FoundIsName ==
    ASSUME NamesInv(name), TablesInv
    PROVE  FoundNames = name
<1>1. Found = DOMAIN name
  BY FindsNodes DEF Found, NamesInv
<1>2. ASSUME NEW n \in DOMAIN name
      PROVE  FoundNames[n] = name[n]
  <2>1. FoundNames[n] = IF name[n] # NoName /\ lookup_node(name[n]) THEN name[n] ELSE NoName
    BY <1>1 DEF FoundNames
  <2>2. name[n] # NoName => name[n] \in Names /\ name[n] \in Named(name)
    BY DEF NamesInv, Named
  <2> QED BY <2>1, <2>2, FindsNodes
<1>3. DOMAIN FoundNames = DOMAIN name /\ FoundNames = [n \in DOMAIN name |-> FoundNames[n]]
  BY <1>1 DEF FoundNames
<1>4. name = [n \in DOMAIN name |-> name[n]]
  BY DEF NamesInv
<1> QED BY <1>2, <1>3, <1>4

\* The next number is free, and was not given in its generation.
LEMMA NextIdFresh ==
    ASSUME NamesInv(name), TablesInv, GivenInv, next_id
    PROVE  /\ ctr' \in Numbers \ DOMAIN name
           /\ ctr' \in 0 .. UNKNOWN - 1
           /\ generation' \in Nat
           /\ <<ctr', generation'>> \notin given
           /\ \A g \in given :
                 \/ g = <<ROOT, 0>>
                 \/ /\ g \in Nat \X Nat
                    /\ g[2] < generation' \/ (g[2] = generation' /\ g[1] <= ctr')
<1> DEFINE S == IF Later = {} THEN Free ELSE Later
<1>1. S \in SUBSET Nat /\ S # {} /\ S \subseteq Free /\ (Later # {} => \A n \in S : n > ctr)
  BY DEF next_id, Free, Later
<1>2. ctr' \in S
  <2>1. \E n \in S : \A m \in S : n <= m
    BY <1>1, LeastElement
  <2> QED BY <2>1 DEF next_id, Least
<1>3. UNKNOWN \in Nat \ {0, 1}
  BY NodeAssumption
<1>4. ctr' \in 1 .. UNKNOWN - 1 /\ ~ get_node(ctr')
  BY <1>1, <1>2 DEF Free
<1>5. ctr' \in Numbers \ DOMAIN name
  <2>1. ctr' \in Numbers
    BY <1>3, <1>4 DEF Numbers
  <2> QED BY <1>4, <2>1, FindsNodes
<1>6. \/ generation' = generation + 1
      \/ generation' = generation /\ ctr' > ctr
  BY <1>1, <1>2 DEF next_id, Wraps
<1>7. ctr \in Nat /\ ctr' \in Nat /\ generation \in Nat /\ generation' \in Nat
  BY <1>3, <1>4, <1>6 DEF GivenInv
<1>8. ASSUME NEW g \in given
      PROVE  /\ \/ g = <<ROOT, 0>>
                \/ /\ g \in Nat \X Nat
                   /\ g[2] < generation' \/ (g[2] = generation' /\ g[1] <= ctr')
             /\ g # <<ctr', generation'>>
  <2>1. CASE g = <<ROOT, 0>>
    <3>1. ctr' # ROOT
      BY <1>5 DEF NamesInv
    <3> QED BY <2>1, <3>1
  <2>2. CASE g # <<ROOT, 0>>
    <3>1. g \in Nat \X Nat /\ (g[2] < generation \/ (g[2] = generation /\ g[1] <= ctr))
      BY <2>2 DEF GivenInv
    <3>2. PICK a, b \in Nat : g = <<a, b>>
      BY <3>1
    <3>3. b < generation \/ (b = generation /\ a <= ctr)
      BY <3>1, <3>2
    <3>4. b < generation' \/ (b = generation' /\ a < ctr')
      <4> a \in Nat /\ b \in Nat
        BY <3>2
      <4>1. CASE generation' = generation + 1
        BY <1>7, <3>3, <4>1
      <4>2. CASE generation' = generation /\ ctr' > ctr
        BY <1>7, <3>3, <4>2
      <4> QED BY <1>6, <4>1, <4>2
    <3> QED BY <1>7, <3>1, <3>2, <3>4
  <2> QED BY <2>1, <2>2
<1> QED BY <1>3, <1>4, <1>5, <1>7, <1>8

\* What a renaming makes of the names.
LEMMA RenamedNames ==
    ASSUME NamesInv(name), NEW a \in Names, NEW b \in Names,
           NEW x \in {a, b, NoName}, NEW y \in {a, b, NoName}, x # y \/ x = NoName
    PROVE  /\ NamesInv(Renamed(a, x, b, y))
           /\ DOMAIN Renamed(a, x, b, y) = DOMAIN name
           /\ Named(Renamed(a, x, b, y)) =
                 ((Named(name) \ {a, b})
                    \cup {z \in {x} : a \in Named(name) /\ z # NoName})
                    \cup {z \in {y} : b # a /\ b \in Named(name) /\ z # NoName}
<1> DEFINE f == Renamed(a, x, b, y)
<1>1. /\ DOMAIN f = DOMAIN name
      /\ \A n \in DOMAIN name : f[n] = IF name[n] = a THEN x ELSE IF name[n] = b THEN y ELSE name[n]
  BY DEF Renamed
<1>2. f = [n \in DOMAIN f |-> f[n]]
  BY DEF Renamed
<1> HIDE DEF f
<1>3. NoName \notin Names
  BY NodeAssumption
<1>4. NamesInv(f)
  BY <1>1, <1>2, <1>3 DEF NamesInv
<1>5. Named(f) = ((Named(name) \ {a, b})
                    \cup {z \in {x} : a \in Named(name) /\ z # NoName})
                    \cup {z \in {y} : b # a /\ b \in Named(name) /\ z # NoName}
  BY <1>1, <1>3 DEF Named
<1> QED BY <1>1, <1>4, <1>5 DEF f

-----------------------------------------------------------------------------
(* The steps.                                                              *)

\* fuse_new.
LEMMA NodesInit == NodeInit => NodesInv /\ name = [n \in {ROOT} |-> NoName]
<1> SUFFICES ASSUME NodeInit
             PROVE  NodesInv
  BY DEF NodeInit
<1>1. name = [n \in {ROOT} |-> NoName] /\ DOMAIN name = {ROOT} /\ ROOT \in Numbers
  BY NodeAssumption DEF NodeInit, Numbers, ROOT
<1>2. NamesInv(name) /\ Named(name) = {}
  BY <1>1 DEF NamesInv, Named
<1>3. ASSUME NEW Keys, NEW hash \in [Keys -> Nat]
      PROVE  Keeps(NewTable, hash, {})
  <2> DEFINE t == NewTable
             A == [b \in 0 .. MIN_SIZE - 1 |-> {}]
  <2>1. t = [array |-> A, size |-> MIN_SIZE, split |-> 0, use |-> 0]
    BY DEF NewTable
  <2>2. MIN_SIZE \in Nat \ {0, 1} /\ PowerOfTwo(MIN_SIZE) /\ 0 <= MIN_SIZE \div 2
    BY NodeAssumption
  <2> HIDE DEF t, A
  <2>3. Shaped(t) /\ t.array = A /\ t.size = MIN_SIZE
    BY <2>1, <2>2, Made, 0 \in Nat, 0 \in Int
  <2>4. t.array = [b \in 0 .. t.size - 1 |-> {k \in {} : Slot(t, hash[k]) = b}]
    BY <2>3 DEF A
  <2> QED BY <2>3, <2>4 DEF Keeps, t
<1>4. TablesInv
  <2>1. IdHash \in [Numbers -> Nat] /\ NameHash \in [Names -> Nat]
    BY NodeAssumption
  <2>2. Keeps(id_table, IdHash, {} \cup {ROOT})
    BY <1>1, <1>3, <2>1, HashKeeps DEF NodeInit
  <2>3. Keeps(name_table, NameHash, {})
    BY <1>3, <2>1 DEF NodeInit
  <2> QED BY <1>1, <1>2, <2>2, <2>3 DEF TablesInv
<1>5. GivenInv
  BY NodeAssumption DEF NodeInit, GivenInv
<1> QED BY <1>2, <1>4, <1>5 DEF NodesInv

\* A node of a name that had none.
LEMMA FindStep ==
    ASSUME NodesInv, NEW nm \in Names, Find(nm)
    PROVE  NodesInv' /\ Map!Add(ctr', nm) /\ ctr' \in Numbers
<1>1. NamesInv(name) /\ TablesInv /\ GivenInv
  BY DEF NodesInv
<1> DEFINE f == [n \in DOMAIN name \cup {ctr'} |-> IF n = ctr' THEN nm ELSE name[n]]
<1>2. name' = f
  BY DEF Find
<1>3. ctr' \in Numbers \ DOMAIN name /\ nm \notin Named(name)
  BY <1>1, NextIdFresh, FindsNodes DEF Find
<1>4. NoName \notin Names
  BY NodeAssumption
<1>5. NamesInv(f) /\ DOMAIN f = DOMAIN name \cup {ctr'} /\ Named(f) = Named(name) \cup {nm}
  <2>1. /\ f = [n \in DOMAIN f |-> f[n]]
        /\ DOMAIN f = DOMAIN name \cup {ctr'}
        /\ f[ctr'] = nm
        /\ \A n \in DOMAIN name : f[n] = name[n]
    BY <1>3
  <2> HIDE DEF f
  <2>2. \A n \in DOMAIN name : name[n] # nm
    BY <1>3, <1>4 DEF Named
  <2>3. NamesInv(f)
    BY <1>1, <1>3, <2>1, <2>2 DEF NamesInv
  <2>4. Named(f) = Named(name) \cup {nm}
    BY <1>4, <2>1 DEF Named
  <2> QED BY <2>1, <2>3, <2>4
<1>6. Keeps(id_table', IdHash, DOMAIN name \cup {ctr'})
  BY <1>1, <1>3, NodeAssumption, HashKeeps DEF Find, TablesInv, NamesInv
<1>7. Keeps(name_table', NameHash, Named(name) \cup {nm})
  BY <1>1, FindsNodes, NodeAssumption, HashKeeps DEF Find, TablesInv
<1>8. GivenInv'
  <2>1. given' = given \cup {<<ctr', generation'>>}
    BY DEF Find
  <2>2. ctr' \in 0 .. UNKNOWN - 1 /\ generation' \in Nat /\ ctr' \in Nat
    BY <1>1, NextIdFresh, NodeAssumption DEF Find
  <2>3. \A g \in given : \/ g = <<ROOT, 0>>
                         \/ /\ g \in Nat \X Nat
                            /\ g[2] < generation' \/ (g[2] = generation' /\ g[1] <= ctr')
    BY <1>1, NextIdFresh DEF Find
  <2> QED BY <2>1, <2>2, <2>3 DEF GivenInv
<1> HIDE DEF f
<1>9. NodesInv'
  <2>1. NamesInv(name')
    BY <1>2, <1>5
  <2>2. TablesInv'
    BY <1>2, <1>5, <1>6, <1>7 DEF TablesInv
  <2> QED BY <1>8, <2>1, <2>2 DEF NodesInv
<1>10. Map!Add(ctr', nm)
  <2>1. FoundNames = name
    BY <1>1, FoundIsName
  <2>2. FoundNames' = name'
    <3>1. (NamesInv(name) /\ TablesInv => FoundNames = name)'
      BY FoundIsName, PTL
    <3> QED BY <1>9, <3>1 DEF NodesInv
  <2>3. \A m \in DOMAIN name : m # ctr' /\ name[m] # nm
    BY <1>3, <1>4 DEF Named
  <2>4. name' = [m \in DOMAIN name \cup {ctr'} |-> IF m = ctr' THEN nm ELSE name[m]]
    BY <1>2 DEF f
  <2> QED BY <2>1, <2>2, <2>3, <2>4 DEF Map!Add
<1> QED BY <1>3, <1>9, <1>10

\* A step of the names alone: the tables and the map follow it.
LEMMA NamesStep ==
    ASSUME NodesInv, NEW a \in Names, NEW b \in Names,
           NEW x \in {a, b, NoName}, NEW y \in {a, b, NoName}, x # y \/ x = NoName,
           name' = Renamed(a, x, b, y),
           UNCHANGED <<id_table, ctr, generation, given>>,
           Keeps(name_table', NameHash, Named(Renamed(a, x, b, y)))
    PROVE  NodesInv' /\ Map!Move(a, b, x, y) /\ DOMAIN name' = DOMAIN name
<1>1. NamesInv(name) /\ TablesInv /\ GivenInv
  BY DEF NodesInv
<1>2. NamesInv(name') /\ DOMAIN name' = DOMAIN name
  BY <1>1, RenamedNames
<1>3. TablesInv'
  BY <1>1, <1>2 DEF TablesInv
<1>4. GivenInv'
  BY <1>1 DEF GivenInv
<1>5. FoundNames = name /\ FoundNames' = name'
  <2>1. (NamesInv(name) /\ TablesInv => FoundNames = name)'
    BY FoundIsName, PTL
  <2> QED BY <1>1, <1>2, <1>3, <2>1, FoundIsName
<1>6. Map!Move(a, b, x, y)
  BY <1>5 DEF Map!Move, Renamed
<1> QED BY <1>2, <1>3, <1>4, <1>6 DEF NodesInv

\* remove_node.
LEMMA RemoveStep ==
    ASSUME NodesInv, NEW nm \in Names, Remove(nm)
    PROVE  NodesInv' /\ Map!Move(nm, nm, NoName, NoName) /\ DOMAIN name' = DOMAIN name
<1>1. NamesInv(name) /\ TablesInv
  BY DEF NodesInv
<1>2. Named(Renamed(nm, NoName, nm, NoName)) = Named(name) \ {nm}
  BY <1>1, RenamedNames
<1>3. Keeps(name_table', NameHash, Named(name) \ {nm})
  BY <1>1, FindsNodes, NodeAssumption, UnhashKeeps DEF Remove, TablesInv
<1> QED BY <1>2, <1>3, NamesStep DEF Remove

\* rename_node, with and without memory for the new name.
LEMMA RenameStep ==
    ASSUME NodesInv, NEW old \in Names, NEW new \in Names, Rename(old, new)
    PROVE  /\ NodesInv'
           /\ \E x \in {old, new, NoName} : Map!Move(old, new, x, NoName)
           /\ DOMAIN name' = DOMAIN name
<1> DEFINE t == Unhash(Unhash(name_table, NameHash, new), NameHash, old)
           S == Named(name) \ {old, new}
<1>1. NamesInv(name) /\ TablesInv
  BY DEF NodesInv
<1>2. old \in Named(name) /\ Named(name) \subseteq Names /\ NameHash \in [Names -> Nat]
  BY <1>1, FindsNodes, NodeAssumption DEF Rename
<1>3. Keeps(t, NameHash, S)
  <2>1. Keeps(Unhash(name_table, NameHash, new), NameHash, Named(name) \ {new})
    BY <1>1, <1>2, UnhashKeeps DEF TablesInv
  <2>2. Keeps(t, NameHash, (Named(name) \ {new}) \ {old})
    BY <1>2, <2>1, UnhashKeeps
  <2>3. (Named(name) \ {new}) \ {old} = S
    OBVIOUS
  <2> QED BY <2>2, <2>3
<1>4. NoName \notin Names
  BY NodeAssumption
<1>5. CASE name_table' \in Hash(t, NameHash, new) /\ name' = Renamed(old, new, new, NoName)
  <2>1. Named(Renamed(old, new, new, NoName)) = S \cup {new}
    BY <1>1, <1>2, <1>4, RenamedNames
  <2>2. Keeps(name_table', NameHash, S \cup {new})
    BY <1>2, <1>3, <1>5, HashKeeps
  <2> QED BY <1>4, <1>5, <2>1, <2>2, NamesStep DEF Rename
<1>6. CASE name_table' = t /\ name' = Renamed(old, NoName, new, NoName)
  <2>1. Named(Renamed(old, NoName, new, NoName)) = S
    BY <1>1, <1>4, RenamedNames
  <2> QED BY <1>3, <1>6, <2>1, NamesStep DEF Rename
<1> QED BY <1>5, <1>6 DEF Rename

\* exchange_node, which may give one of the names, both or none.
LEMMA ExchangeStep ==
    ASSUME NodesInv, NEW old \in Names, NEW new \in Names, Exchange(old, new)
    PROVE  /\ NodesInv'
           /\ \E x, y \in {old, new, NoName} : Map!Move(old, new, x, y)
           /\ DOMAIN name' = DOMAIN name
<1> DEFINE t == Unhash(Unhash(name_table, NameHash, old), NameHash, new)
           One == IF lookup_node(old) THEN Hash(t, NameHash, new) ELSE {t}
           Both == IF lookup_node(new) THEN UNION {Hash(u, NameHash, old) : u \in One} ELSE One
           S == Named(name) \ {old, new}
           SOne == S \cup {z \in {new} : old \in Named(name)}
           SBoth == SOne \cup {z \in {old} : new \in Named(name)}
<1>1. NamesInv(name) /\ TablesInv
  BY DEF NodesInv
<1>2. /\ Named(name) \subseteq Names /\ NameHash \in [Names -> Nat]
      /\ lookup_node(old) <=> old \in Named(name)
      /\ lookup_node(new) <=> new \in Named(name)
  BY <1>1, FindsNodes, NodeAssumption
<1>3. Keeps(t, NameHash, S)
  <2>1. Keeps(Unhash(name_table, NameHash, old), NameHash, Named(name) \ {old})
    BY <1>1, <1>2, UnhashKeeps DEF TablesInv
  <2>2. Keeps(t, NameHash, (Named(name) \ {old}) \ {new})
    BY <1>2, <2>1, UnhashKeeps
  <2>3. (Named(name) \ {old}) \ {new} = S
    OBVIOUS
  <2> QED BY <2>2, <2>3
<1>4. NoName \notin Names /\ old # new
  BY NodeAssumption DEF Exchange
<1>5. /\ \/ name_table' = t /\ name' = Renamed(old, NoName, new, NoName)
         \/ name_table' \in One /\ name' = Renamed(old, new, new, NoName)
         \/ name_table' \in Both /\ name' = Renamed(old, new, new, old)
      /\ UNCHANGED <<id_table, ctr, generation, given>>
  BY DEF Exchange
<1> HIDE DEF t
<1>6. ASSUME NEW u \in One
      PROVE  Keeps(u, NameHash, SOne)
  <2>1. CASE lookup_node(old)
    <3>1. SOne = S \cup {new}
      BY <1>2, <2>1
    <3> QED BY <1>2, <1>3, <2>1, <3>1, HashKeeps
  <2>2. CASE ~ lookup_node(old)
    <3>1. SOne = S
      BY <1>2, <2>2
    <3> QED BY <1>3, <2>2, <3>1
  <2> QED BY <2>1, <2>2
<1>7. ASSUME NEW u \in Both
      PROVE  Keeps(u, NameHash, SBoth)
  <2>1. CASE lookup_node(new)
    <3>1. PICK v \in One : u \in Hash(v, NameHash, old)
      BY <2>1
    <3>2. SBoth = SOne \cup {old} /\ SOne \subseteq Names
      BY <1>2, <2>1
    <3> QED BY <1>2, <1>6, <3>1, <3>2, HashKeeps
  <2>2. CASE ~ lookup_node(new)
    <3>1. SBoth = SOne
      BY <1>2, <2>2
    <3> QED BY <1>6, <2>2, <3>1
  <2> QED BY <2>1, <2>2
<1> HIDE DEF One, Both
<1>8. CASE name_table' = t /\ name' = Renamed(old, NoName, new, NoName)
  <2>1. Named(Renamed(old, NoName, new, NoName)) = S
    BY <1>1, <1>4, RenamedNames
  <2> QED BY <1>3, <1>5, <1>8, <2>1, NamesStep
<1>9. CASE name_table' \in One /\ name' = Renamed(old, new, new, NoName)
  <2>1. Named(Renamed(old, new, new, NoName)) = SOne
    BY <1>1, <1>4, RenamedNames
  <2> QED BY <1>4, <1>5, <1>6, <1>9, <2>1, NamesStep
<1>10. CASE name_table' \in Both /\ name' = Renamed(old, new, new, old)
  <2>1. Named(Renamed(old, new, new, old)) = SBoth
    BY <1>1, <1>4, RenamedNames
  <2> QED BY <1>4, <1>5, <1>7, <1>10, <2>1, NamesStep
<1> QED BY <1>5, <1>8, <1>9, <1>10

\* delete_node.
LEMMA ForgetStep ==
    ASSUME NodesInv, NEW n \in Numbers, Forget(n)
    PROVE  NodesInv' /\ Map!Drop(n) /\ DOMAIN name' \subseteq DOMAIN name
<1> DEFINE f == [m \in DOMAIN name \ {n} |-> name[m]]
           S == Named(name) \ {name[n]}
<1>1. NamesInv(name) /\ TablesInv /\ GivenInv /\ n \in DOMAIN name \ {ROOT} /\ name' = f
  BY DEF NodesInv, Forget
<1>2. Named(name) \subseteq Names /\ NameHash \in [Names -> Nat] /\ NoName \notin Names
  BY <1>1, FindsNodes, NodeAssumption
<1>3. NamesInv(f) /\ DOMAIN f = DOMAIN name \ {n} /\ Named(f) = S
  BY <1>1 DEF NamesInv, Named
<1>4. Keeps(name_table', NameHash, S)
  <2>1. CASE name[n] = NoName
    <3>1. S = Named(name)
      BY <2>1 DEF Named
    <3> QED BY <1>1, <2>1, <3>1 DEF Forget, TablesInv
  <2>2. CASE name[n] # NoName
    <3>1. name[n] \in Names
      BY <1>1, <2>2 DEF NamesInv
    <3> QED BY <1>1, <1>2, <2>2, <3>1, UnhashKeeps DEF Forget, TablesInv
  <2> QED BY <2>1, <2>2
<1>5. Keeps(id_table', IdHash, DOMAIN name \ {n})
  BY <1>1, NodeAssumption, UnhashKeeps DEF Forget, TablesInv, NamesInv
<1> HIDE DEF f
<1>6. NamesInv(name') /\ TablesInv'
  BY <1>1, <1>3, <1>4, <1>5 DEF TablesInv
<1>7. GivenInv'
  BY <1>1 DEF Forget, GivenInv
<1>8. FoundNames = name /\ FoundNames' = name'
  <2>1. (NamesInv(name) /\ TablesInv => FoundNames = name)'
    BY FoundIsName, PTL
  <2> QED BY <1>1, <1>6, <2>1, FoundIsName
<1>9. Map!Drop(n)
  BY <1>1, <1>8 DEF Map!Drop, f
<1> QED BY <1>1, <1>3, <1>6, <1>7, <1>9 DEF NodesInv

\* A number that is used up for no node.
LEMMA FindFailsStep ==
    ASSUME NodesInv, NEW nm \in Names, FindFails(nm)
    PROVE  NodesInv' /\ UNCHANGED <<FoundNames, name>>
<1>1. NamesInv(name) /\ TablesInv /\ GivenInv
  BY DEF NodesInv
<1>2. NamesInv(name)' /\ TablesInv' /\ UNCHANGED <<FoundNames, name>>
  BY <1>1 DEF FindFails, tables, NamesInv, Named, TablesInv, FoundNames, Found, get_node,
              lookup_node
<1>3. GivenInv'
  BY <1>1, NextIdFresh DEF FindFails, GivenInv
<1> QED BY <1>2, <1>3 DEF NodesInv

\* Nodes that are new have a number that is.
Fresh == \A n \in DOMAIN name' \ DOMAIN name : <<n, generation'>> \notin given

\* Every step keeps the invariant, is one of the map, and gives fresh numbers.
LEMMA NodesStep ==
    ASSUME NodesInv, NodeNext
    PROVE  NodesInv' /\ (Map!Next \/ UNCHANGED FoundNames) /\ Fresh
<1>1. ASSUME NEW nm \in Names, Find(nm)
      PROVE  NodesInv' /\ Map!Next /\ Fresh
  <2>1. NodesInv' /\ Map!Next
    BY <1>1, FindStep DEF Map!Next
  <2>2. <<ctr', generation'>> \notin given /\ DOMAIN name' = DOMAIN name \cup {ctr'}
    BY <1>1, NextIdFresh DEF Find, NodesInv
  <2> QED BY <2>1, <2>2 DEF Fresh
<1>2. ASSUME NEW nm \in Names, FindFails(nm)
      PROVE  NodesInv' /\ UNCHANGED FoundNames /\ Fresh
  BY <1>2, FindFailsStep DEF Fresh
<1>3. ASSUME NEW nm \in Names, Remove(nm)
      PROVE  NodesInv' /\ Map!Next /\ Fresh
  BY <1>3, RemoveStep DEF Map!Next, Fresh
<1>4. ASSUME NEW old \in Names, NEW new \in Names, Rename(old, new)
      PROVE  NodesInv' /\ Map!Next /\ Fresh
  BY <1>4, RenameStep DEF Map!Next, Fresh
<1>5. ASSUME NEW old \in Names, NEW new \in Names, Exchange(old, new)
      PROVE  NodesInv' /\ Map!Next /\ Fresh
  BY <1>5, ExchangeStep DEF Map!Next, Fresh
<1>6. ASSUME NEW n \in Numbers, Forget(n)
      PROVE  NodesInv' /\ Map!Next /\ Fresh
  BY <1>6, ForgetStep DEF Map!Next, Fresh
<1> QED BY <1>1, <1>2, <1>3, <1>4, <1>5, <1>6 DEF NodeNext

\* Steps of others.
LEMMA NodesStutter ==
    ASSUME NodesInv, UNCHANGED nodes
    PROVE  NodesInv' /\ UNCHANGED FoundNames
<1>1. UNCHANGED <<id_table, name_table, name, ctr, generation, given>>
  BY DEF nodes, tables
<1>2. NamesInv(name)' /\ TablesInv' /\ GivenInv' /\ UNCHANGED FoundNames
  BY <1>1 DEF NodesInv, NamesInv, Named, TablesInv, GivenInv, FoundNames, Found, get_node,
              lookup_node
<1> QED BY <1>2 DEF NodesInv

-----------------------------------------------------------------------------
(* The theorems.                                                           *)

\* Every reachable state has its nodes in the buckets where they are looked
\* for, each with a number and at most one name of its own.
THEOREM NodesInvHolds == NodeSpec => []NodesInv
<1>1. NodeInit => NodesInv
  BY NodesInit
<1>2. NodesInv /\ [NodeNext]_nodes => NodesInv'
  BY NodesStep, NodesStutter
<1> QED BY <1>1, <1>2, PTL DEF NodeSpec

\* The two hash tables implement the map from the numbers of nodes to names:
\* growing, shrinking and splitting half-way lose and invent no node.
THEOREM TablesAreMap == NodeSpec => ImplementsNodeMap
<1>1. NodeInit => Map!Init
  <2> SUFFICES ASSUME NodeInit
               PROVE  Map!Init
    OBVIOUS
  <2>1. NodesInv /\ name = [n \in {ROOT} |-> NoName]
    BY NodesInit DEF NodeInit
  <2>2. FoundNames = name
    BY <2>1, FoundIsName DEF NodesInv
  <2> QED BY <2>1, <2>2 DEF Map!Init
<1>2. NodesInv /\ [NodeNext]_nodes => [Map!Next]_FoundNames
  BY NodesStep, NodesStutter
<1> QED BY <1>1, <1>2, NodesInvHolds, PTL DEF NodeSpec, ImplementsNodeMap, Map!Spec

\* A number and its generation are never given to two nodes, however often the
\* counter comes around: what the kernel remembers of a node stays its own.
THEOREM NumbersAreFresh == NodeSpec => NumbersFresh
<1>1. NodesInv /\ [NodeNext]_nodes
        => [\A n \in DOMAIN name' \ DOMAIN name : <<n, generation'>> \notin given]_nodes
  BY NodesStep DEF Fresh
<1> QED BY <1>1, NodesInvHolds, PTL DEF NodeSpec, NumbersFresh

=============================================================================
