------------------------------ MODULE NodeMap ------------------------------
(***************************************************************************)
(* What libfuse keeps the two tables of its nodes for: a node is found by  *)
(* its number, and by its name as long as it has one, and by nothing else. *)
(***************************************************************************)
EXTENDS Integers

CONSTANTS Names, NoName, Numbers, ROOT

VARIABLE name   \* the name of each node, by the number of the node

Init == name = [n \in {ROOT} |-> NoName]

Add(n, nm) ==
    /\ \A m \in DOMAIN name : m # n /\ name[m] # nm
    /\ name' = [m \in DOMAIN name \cup {n} |-> IF m = n THEN nm ELSE name[m]]

\* The node of the name a gets x, that of b gets y.
Move(a, b, x, y) ==
    /\ x # y \/ x = NoName
    /\ name' = [n \in DOMAIN name |-> IF name[n] = a THEN x
                                      ELSE IF name[n] = b THEN y ELSE name[n]]

Drop(n) ==
    /\ n \in DOMAIN name \ {ROOT}
    /\ name' = [m \in DOMAIN name \ {n} |-> name[m]]

Next ==
    \/ \E n \in Numbers, nm \in Names : Add(n, nm)
    \/ \E a, b \in Names : \E x, y \in {a, b, NoName} : Move(a, b, x, y)
    \/ \E n \in Numbers : Drop(n)

Spec == Init /\ [][Next]_name

=============================================================================
