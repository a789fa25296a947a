------------------------------ MODULE NodeTree ------------------------------
(***************************************************************************)
(* The node table of libfuse (fuse.c): nodes found by number or by parent  *)
(* and name, their two counts, and the lock in each that a path takes.     *)
(* Operators on a table, each what the code does under f->lock.  As in     *)
(* LiFS, a short definition before one of a similar name is a plausible    *)
(* bug of it.                                                              *)
(***************************************************************************)
EXTENDS Integers, Sequences, SequencesExt

CONSTANTS
    NoName,     \* the name of a node that was unlinked
    NoNode

ROOT == 1

TREELOCK_WRITE == -1
\* Stands for INT_MIN: below every count that readers reach.
TREELOCK_WAIT_OFFSET == -100

Node(name, parent) ==
    [name |-> name, parent |-> parent, nlookup |-> 0, refctr |-> 0,
     treelock |-> 0, open_count |-> 0, is_hidden |-> FALSE]

-----------------------------------------------------------------------------
(* Names.                                                                  *)

Children(tab, p) == {n \in DOMAIN tab : tab[n].parent = p}

lookup_node(tab, p, name) ==
    LET found == {n \in Children(tab, p) : tab[n].name = name}
    IN  IF found = {} THEN NoNode ELSE CHOOSE n \in found : TRUE

\* unref_node and delete_node: a node without references goes, and gives up
\* its reference on the parent.
RECURSIVE unref_node(_, _)
unref_node(tab, n) ==
    LET rest == Restrict(tab, DOMAIN tab \ {n})
    IN  IF tab[n].refctr > 1 THEN [tab EXCEPT ![n].refctr = @ - 1]
        ELSE IF tab[n].name = NoName THEN rest
        ELSE unref_node(rest, tab[n].parent)

unhash_name(tab, n) ==
    IF tab[n].name = NoName THEN tab
    ELSE [unref_node(tab, tab[n].parent) EXCEPT ![n].name = NoName, ![n].parent = NoNode]

hash_name(tab, n, p, name) ==
    [tab EXCEPT ![p].refctr = @ + 1, ![n].parent = p, ![n].name = name]

inc_nlookup(tab, n) ==
    [tab EXCEPT ![n].refctr = IF tab[n].nlookup = 0 THEN @ + 1 ELSE @,
                ![n].nlookup = @ + 1]

\* The node of a name, which gets the number id if it is new.
find_node(tab, p, name, id) ==
    LET n == lookup_node(tab, p, name)
        new == [m \in DOMAIN tab \cup {id} |->
                   IF m = id THEN Node(NoName, NoNode) ELSE tab[m]]
    IN  IF n # NoNode THEN inc_nlookup(tab, n)
        ELSE inc_nlookup(hash_name(new, id, p, name), id)

DropLookupsOne(tab, n, nlookup) ==
    LET less == [tab EXCEPT ![n].nlookup = @ - 1]
    IN  IF less[n].nlookup = 0 THEN unref_node(less, n) ELSE less

\* The end of forget_node.
DropLookups(tab, n, nlookup) ==
    LET less == [tab EXCEPT ![n].nlookup = @ - nlookup]
    IN  IF less[n].nlookup = 0 THEN unref_node(less, n) ELSE less

remove_node(tab, p, name) ==
    LET n == lookup_node(tab, p, name)
    IN  IF n = NoNode THEN tab ELSE unhash_name(tab, n)

rename_node(tab, p, name, newp, newname) ==
    LET n == lookup_node(tab, p, name)
    IN  IF n = NoNode THEN tab
        ELSE hash_name(unhash_name(remove_node(tab, newp, newname), n), n, newp, newname)

is_openTwice(tab, p, name) ==
    LET n == lookup_node(tab, p, name) IN n # NoNode /\ tab[n].open_count > 1

is_open(tab, p, name) ==
    LET n == lookup_node(tab, p, name) IN n # NoNode /\ tab[n].open_count > 0

LeftHiddenLate(e) == e.is_hidden /\ e.open_count = 0

\* fuse_do_release: the hidden file goes with the last that has it open.
LeftHidden(e) == e.is_hidden /\ e.open_count = 1

-----------------------------------------------------------------------------
(* Paths and their locks.                                                  *)

\* The nodes from n up to the root, which is left out, or to the first that
\* has no name.
Line(tab, n) ==
    LET line[m \in DOMAIN tab] ==
            IF m = ROOT THEN <<>>
            ELSE IF tab[m].name = NoName THEN <<m>>
            ELSE <<m>> \o line[tab[m].parent]
    IN  line[n]

Stale(tab, n) == n # ROOT /\ tab[Last(Line(tab, n))].name = NoName

PathOf(tab, n) ==
    LET line == Line(tab, n)
    IN  [i \in DOMAIN line |-> tab[line[Len(line) + 1 - i]].name]

OnLine(tab, n, m) == m \in Range(Line(tab, n))

ReleasePlain(count) == count - 1

Release(count) ==
    IF count - 1 = TREELOCK_WAIT_OFFSET THEN 0 ELSE count - 1

\* unlock_path: one count less in each node of the line as it is now.
unlock_path(tab, n, wnode) ==
    [m \in DOMAIN tab |->
        IF m = wnode THEN [tab[m] EXCEPT !.treelock = 0]
        ELSE IF OnLine(tab, n, m) THEN [tab[m] EXCEPT !.treelock = Release(@)]
        ELSE tab[m]]

InUseWriter(tab, w) == tab[w].treelock < 0

InUse(tab, w) == tab[w].treelock # 0

\* try_get_path for a path of n, followed by name unless that is NoName.  With
\* write, the node of that name is locked against all others; if it is in use,
\* the offset keeps later readers out.  Nothing else stays from an attempt that
\* failed.
try_get_path(tab, n, name, write) ==
    LET wnode == IF write THEN lookup_node(tab, n, name) ELSE NoNode
        line == Line(tab, n)
        Bad(i) == tab[line[i]].name = NoName \/ tab[line[i]].treelock < 0
        Failed(err, t) == [err |-> err, tab |-> t, path |-> <<>>, wnode |-> NoNode]
    IN  IF wnode # NoNode /\ InUse(tab, wnode)
        THEN Failed("again", IF tab[wnode].treelock > 0
                             THEN [tab EXCEPT ![wnode].treelock = @ + TREELOCK_WAIT_OFFSET]
                             ELSE tab)
        ELSE IF \E i \in DOMAIN line : Bad(i)
        THEN LET i == CHOOSE i \in DOMAIN line : Bad(i) /\ \A j \in 1 .. i - 1 : ~Bad(j)
             IN  Failed(IF tab[line[i]].name = NoName THEN "stale" ELSE "again", tab)
        ELSE [err |-> "none", wnode |-> wnode,
              path |-> PathOf(tab, n) \o (IF name = NoName THEN <<>> ELSE <<name>>),
              tab |-> [m \in DOMAIN tab |->
                         IF m = wnode THEN [tab[m] EXCEPT !.treelock = TREELOCK_WRITE]
                         ELSE IF OnLine(tab, n, m) THEN [tab[m] EXCEPT !.treelock = @ + 1]
                         ELSE tab[m]]]

=============================================================================
