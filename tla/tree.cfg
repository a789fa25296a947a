SPECIFICATION Spec
CONSTANTS
  Threads <- MCThreads
  Names = {a, b}
  Dir = Dir
  File = File
  Root = Root
  NoFile = NoFile
  NoPath = NoPath
  NoName = NoName
  NoNode = NoNode
  OpSets <- MCOpSets
  Refuses = {"lookup", "open", "link"}
  CloseRace = FALSE
  MaxReqs = 3
CHECK_DEADLOCK FALSE
INVARIANTS
HeldPathsTrue LocksCounted LookupsCounted OpenFilesKept HiddenFilesOwned QueueMoves
