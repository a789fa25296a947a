----------------------------- MODULE MCFuseDirs -----------------------------
EXTENDS FuseDirs

\* Three names, of which the second is long.
MCNames == 1 .. 3
MCThreads == 1 .. 2

=============================================================================
