------------------------------ MODULE MCDevice ------------------------------
(* The descriptor of a connection; a behaviour is about one of two sides.     *)
(*                                                                            *)
(* "data": what a worker moves through it, as in FuseData: two large writes   *)
(* around a READ, and a large message of another kind.                        *)
(*                                                                            *)
(* "mount": who has it, as in FuseMount.  One server has auto_unmount and one *)
(* has not; either may be the first to mount, and the other may come while    *)
(* the first ends or after it.                                                *)
EXTENDS FuseData, FuseMount

MCMessages == {[unique |-> 1, opcode |-> "WRITE", size |-> 3],
               [unique |-> 2, opcode |-> "READ", size |-> 0],
               [unique |-> 3, opcode |-> "WRITE", size |-> 2],
               [unique |-> 4, opcode |-> "SETXATTR", size |-> 2]}

VARIABLE side

MCInit ==
    /\ side \in {"data", "mount"}
    /\ Init
    /\ MountInit
    /\ side = "data" => ~root /\ ~mtabFile

MCNext ==
    /\ UNCHANGED side
    /\ \/ side = "data" /\ Next /\ UNCHANGED mountVars
       \/ side = "mount" /\ MountNext /\ UNCHANGED vars

MCSpec == MCInit /\ [][MCNext]_<<side, vars, mountVars>> /\ MountFairness

=============================================================================
