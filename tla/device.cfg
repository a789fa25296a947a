SPECIFICATION MCSpec
CONSTANTS
  Junk = Junk
  NoPipe = NoPipe
  Chunk = 2
  Messages <- MCMessages
  MaxReply = 3
  SPLICE_READ = TRUE
  SPLICE_WRITE = TRUE
  Servers = {a, b}
  AutoUnmount = {a}
  Person = Person
CHECK_DEADLOCK FALSE
INVARIANTS
PipeDrained WritesExact RepliesExact MtabAgrees
PROPERTIES
LiveKept CrashCleaned
