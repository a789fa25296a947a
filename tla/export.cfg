SPECIFICATION Spec
CONSTANTS
  Root <- MCRoot
  Dirs <- MCDirs
  Files <- MCFiles
  Children <- MCChildren
  Blocks <- MCBlocks
  HostLists <- MCHostLists
CHECK_DEADLOCK FALSE
INVARIANTS
LocatedBlocksListed ListedOnce NodeSeesItsBlocks
