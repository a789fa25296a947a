----------------------------- MODULE MCFuseTree -----------------------------
(* FuseTree with three threads: one that holds a path, one that waits for   *)
(* it, and one behind that in the queue.                                    *)
EXTENDS FuseTree

MCThreads == 1 .. 3

\* What is open and looked up, and what has two names or takes two paths.
MCOpSets == {
    {"lookup", "getattr", "open", "release", "create", "unlink", "rmdir", "rename", "forget"},
    {"mknod", "link", "copy", "unlink", "release", "rename", "forget"}}

=============================================================================
