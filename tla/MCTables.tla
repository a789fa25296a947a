------------------------------ MODULE MCTables ------------------------------
(* Two structures that stand for sets, one of them per behaviour.            *)
(*                                                                           *)
(* Bitmap has ten bits in two bytes: indexes in and around both bytes, the   *)
(* index -1 of a full device and the indexes behind the last bit.            *)
(*                                                                           *)
(* NodeTable has tables of two buckets at first, so that four nodes double   *)
(* them twice, and two names whose chains are divided by the second time.    *)
EXTENDS Bitmap, NodeTable

CONSTANTS a, b

MCIndexes == {-1, 0, 1, 7, 8, 9, 10, 16}

MCNames == {a, b}
MCIdHash == [n \in 1 .. UNKNOWN |-> (n * 5) % (UNKNOWN + 1)]
MCNameHash == [nm \in MCNames |-> IF nm = a THEN 1 ELSE 5]

VARIABLE structure

MCInit ==
    /\ structure \in {"bitmap", "nodes"}
    /\ Init
    /\ NodeInit

MCNext ==
    /\ UNCHANGED structure
    /\ \/ structure = "bitmap" /\ Next /\ UNCHANGED nodes
       \/ structure = "nodes" /\ NodeNext /\ UNCHANGED vars

MCSpec == MCInit /\ [][MCNext]_<<structure, vars, nodes>>

=============================================================================
