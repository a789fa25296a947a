SPECIFICATION Spec
CONSTANTS
  Threads <- MCThreads
  Names = {a, b}
  Dir = Dir
  File = File
  Root = Root
  NoFile = NoFile
  NoPath = NoPath
  NoName = NoName
  NoNode = NoNode
  OpSets = {{"getattr", "rename"}}
  Refuses = {}
  CloseRace = FALSE
  MaxReqs = 4
CHECK_DEADLOCK FALSE
INVARIANTS
NoDeadlock
