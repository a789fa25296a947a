----------------------------- MODULE MCFuseLoop -----------------------------
(* FuseLoop with a pool of two threads: one operation that waits for a      *)
(* signal leaves one thread for all others.                                 *)
EXTENDS FuseLoop

MCMaxIdles == {-1, 1}

=============================================================================
