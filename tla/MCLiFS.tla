------------------------------- MODULE MCLiFS -------------------------------
(* LiFS on small devices.  Block numbers, threads and sessions are model    *)
(* values; each is interchangeable with the others of its set.              *)
EXTENDS LiFSSerial, TLC

Symmetry == Permutations(BlockIds) \cup Permutations(Threads) \cup Permutations(Sess)

=============================================================================
