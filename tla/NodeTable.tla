----------------------------- MODULE NodeTable -----------------------------
(***************************************************************************)
(* The nodes of libfuse (fuse.c) in their two hash tables, by number and   *)
(* by name.  A table grows and shrinks one bucket at a time: the first     *)
(* split buckets of its lower half have been divided between themselves    *)
(* and their image in the upper half, the others have not, and when all    *)
(* are the size doubles.  A bucket is the set of the keys in its chain.    *)
(*                                                                         *)
(* MergedLow and WrapsNever are plausible bugs of the definitions that     *)
(* follow them, which the model never uses.                                *)
(***************************************************************************)
EXTENDS Integers

CONSTANTS
    Names,         \* a parent and a name in it, which are hashed together
    NoName,        \* the name of a node that was unlinked, and of the root
    UNKNOWN,       \* FUSE_UNKNOWN_INO, the highest number: 2^32 - 1
    IdHash,        \* the hash values of numbers and names, before they are
    NameHash,      \* cut to the size of the table
    MIN_SIZE,      \* NODE_TABLE_MIN_SIZE
    MERGES,        \* the buckets that remerge looks at: 8
    MaxGeneration  \* bound: the times that ctr wraps around

\* No odd number but 1 divides s.
PowerOfTwo(s) == \A d, q \in 1 .. s : d * q = s => d = 1 \/ d % 2 = 0

Numbers == 1 .. UNKNOWN
ROOT == 1

ASSUME NodeAssumption ==
    /\ UNKNOWN \in Nat \ {0, 1}
    /\ IdHash \in [Numbers -> Nat]
    /\ NameHash \in [Names -> Nat]
    /\ NoName \notin Names
    /\ MIN_SIZE \in Nat \ {0, 1}
    /\ PowerOfTwo(MIN_SIZE)
    /\ MERGES \in Nat \ {0}
    /\ MaxGeneration \in Nat

VARIABLES
    id_table,
    name_table,
    name,        \* what the nodes themselves say, by number
    ctr,
    generation,
    given        \* history: the numbers given to nodes, with the generation

tables == <<id_table, name_table>>
nodes == <<tables, name, ctr, generation, given>>

-----------------------------------------------------------------------------
(* One table.                                                              *)

NewTable == [array |-> [b \in 0 .. MIN_SIZE - 1 |-> {}],
             size |-> MIN_SIZE, split |-> 0, use |-> 0]

Half(t) == t.size \div 2

\* id_hash and name_hash.
Slot(t, h) ==
    LET oldhash == (h % t.size) % Half(t)
    IN  IF oldhash >= t.split THEN oldhash ELSE h % t.size

Finds(t, h, k) == k \in t.array[Slot(t, h)]

Split(t, hash) ==
    LET next == [t EXCEPT !.split = @ + 1]
        old == t.array[t.split]
        gone == {k \in old : Slot(next, hash[k]) # t.split}
    IN  [next EXCEPT !.array = [b \in DOMAIN @ |->
            IF b = t.split THEN old \ gone
            ELSE @[b] \cup {k \in gone : Slot(next, hash[k]) = b}]]

\* node_table_resize, which leaves the table when there is no memory.
Double(t) ==
    [t EXCEPT !.array = [b \in 0 .. 2 * t.size - 1 |-> IF b < t.size THEN @[b] ELSE {}],
              !.size = 2 * @, !.split = 0]

Rehash(t, hash) ==
    IF t.split = Half(t) THEN {t}
    ELSE LET s == Split(t, hash)
         IN  IF s.split = Half(s) THEN {s, Double(s)} ELSE {s}

Hash(t, hash, k) ==
    LET s == [t EXCEPT !.array[Slot(t, hash[k])] = @ \cup {k}, !.use = @ + 1]
    IN  IF s.use >= Half(s) THEN Rehash(s, hash) ELSE {s}

\* node_table_reduce.
Reduce(t) ==
    IF Half(t) < MIN_SIZE THEN t
    ELSE [t EXCEPT !.array = [b \in 0 .. Half(t) - 1 |-> @[b]],
                   !.size = Half(t), !.split = Half(t) \div 2]

MergedLow(t, n) ==
    LET low == t.split - n
    IN  [t EXCEPT !.array[low + Half(t)] = {}, !.split = low]

\* The n highest buckets have their images merged into them; only the last of
\* these images is not empty.
Merged(t, n) ==
    LET low == t.split - n
        up == low + Half(t)
    IN  [t EXCEPT !.array[low] = @ \cup t.array[up], !.array[up] = {}, !.split = low]

Remerge(t) ==
    LET s == IF t.split = 0 THEN Reduce(t) ELSE t
        steps == {n \in 1 .. MERGES : n <= s.split}
        full == {n \in steps : s.array[s.split - n + Half(s)] # {}}
    IN  IF steps = {} THEN s
        ELSE Merged(s, CHOOSE n \in steps :
                 \/ n \in full /\ \A m \in full : n <= m
                 \/ full = {} /\ \A m \in steps : m <= n)

Unhash(t, hash, k) ==
    LET s == [t EXCEPT !.array[Slot(t, hash[k])] = @ \ {k}, !.use = @ - 1]
    IN  IF ~Finds(t, hash[k], k) THEN t
        ELSE IF s.use < s.size \div 4 THEN Remerge(s) ELSE s

-----------------------------------------------------------------------------
(* The nodes.                                                              *)

get_node(n) == Finds(id_table, IdHash[n], n)
lookup_node(nm) == Finds(name_table, NameHash[nm], nm)

\* next_id: the first number behind ctr, around the end, that is not in use.
Free == {n \in 1 .. UNKNOWN - 1 : ~get_node(n)}
Later == {n \in Free : n > ctr}
Least(S) == CHOOSE n \in S : \A m \in S : n <= m
WrapsNever == FALSE
Wraps == Later = {}
next_id ==
    /\ Free # {}
    /\ ctr' = Least(IF Later = {} THEN Free ELSE Later)
    /\ generation' = IF Wraps THEN generation + 1 ELSE generation
    /\ generation' <= MaxGeneration

\* find_node for a name that is not in the table.
Find(nm) ==
    /\ ~lookup_node(nm)
    /\ next_id
    /\ name_table' \in Hash(name_table, NameHash, nm)
    /\ id_table' \in Hash(id_table, IdHash, ctr')
    /\ name' = [n \in DOMAIN name \cup {ctr'} |-> IF n = ctr' THEN nm ELSE name[n]]
    /\ given' = given \cup {<<ctr', generation'>>}

\* The name takes memory that is not there.
FindFails(nm) ==
    /\ ~lookup_node(nm)
    /\ next_id
    /\ UNCHANGED <<tables, name, given>>

\* The nodes after that of the name a got x and that of b got y.
Renamed(a, x, b, y) == [n \in DOMAIN name |-> IF name[n] = a THEN x
                                              ELSE IF name[n] = b THEN y ELSE name[n]]

\* remove_node.
Remove(nm) ==
    /\ lookup_node(nm)
    /\ name_table' = Unhash(name_table, NameHash, nm)
    /\ name' = Renamed(nm, NoName, nm, NoName)
    /\ UNCHANGED <<id_table, ctr, generation, given>>

\* rename_node.  If there is no memory for the new name, the node is left
\* without any.
Rename(old, new) ==
    LET t == Unhash(Unhash(name_table, NameHash, new), NameHash, old)
    IN  /\ lookup_node(old)
        /\ \/ /\ name_table' \in Hash(t, NameHash, new)
              /\ name' = Renamed(old, new, new, NoName)
           \/ name_table' = t /\ name' = Renamed(old, NoName, new, NoName)
        /\ UNCHANGED <<id_table, ctr, generation, given>>

\* exchange_node, which may find one of the two nodes only, and may stop for
\* want of memory before either of the names is given.
Exchange(old, new) ==
    LET t == Unhash(Unhash(name_table, NameHash, old), NameHash, new)
        One == IF lookup_node(old) THEN Hash(t, NameHash, new) ELSE {t}
        Both == IF lookup_node(new) THEN UNION {Hash(u, NameHash, old) : u \in One} ELSE One
    IN  /\ old # new
        /\ \/ name_table' = t /\ name' = Renamed(old, NoName, new, NoName)
           \/ name_table' \in One /\ name' = Renamed(old, new, new, NoName)
           \/ name_table' \in Both /\ name' = Renamed(old, new, new, old)
        /\ UNCHANGED <<id_table, ctr, generation, given>>

\* delete_node, once nothing refers to the node.
Forget(n) ==
    /\ n \in DOMAIN name \ {ROOT}
    /\ name_table' = IF name[n] = NoName THEN name_table
                     ELSE Unhash(name_table, NameHash, name[n])
    /\ id_table' = Unhash(id_table, IdHash, n)
    /\ name' = [m \in DOMAIN name \ {n} |-> name[m]]
    /\ UNCHANGED <<ctr, generation, given>>

\* fuse_new: the root has a number and no name that is looked up.
NodeInit ==
    /\ id_table \in Hash(NewTable, IdHash, ROOT)
    /\ name_table = NewTable
    /\ name = [n \in {ROOT} |-> NoName]
    /\ ctr = 0
    /\ generation = 0
    /\ given = {<<ROOT, 0>>}

NodeNext ==
    \/ \E nm \in Names : Find(nm) \/ FindFails(nm) \/ Remove(nm)
    \/ \E old, new \in Names : Rename(old, new) \/ Exchange(old, new)
    \/ \E n \in Numbers : Forget(n)

NodeSpec == NodeInit /\ [][NodeNext]_nodes

-----------------------------------------------------------------------------
\* What get_node_nocheck and lookup_node find.
Found == {n \in Numbers : get_node(n)}
FoundNames == [n \in Found |->
    IF n \in DOMAIN name /\ name[n] # NoName /\ lookup_node(name[n]) THEN name[n] ELSE NoName]

\* However the tables grow, shrink, are divided half-way or could not be made
\* larger, they find every node that was added and not dropped, by its number
\* and by its name, and no other: get_node and unhash_name never abort.
Map == INSTANCE NodeMap WITH name <- FoundNames
ImplementsNodeMap == Map!Spec

\* "ino/generation pairs need to be unique over the file system's lifetime":
\* around the end of the numbers, and with numbers used up by nodes that could
\* not be made, a number that was given before is given in a later generation.
NumbersFresh ==
    [][\A n \in DOMAIN name' \ DOMAIN name : <<n, generation'>> \notin given]_nodes

=============================================================================
