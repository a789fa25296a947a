SPECIFICATION Spec
CONSTANTS
  BlockIds = {a, b}
  NoId = NoId
  Kinds = {"data"}
  BLOCK_NUM = 4
  CsmCells = 1
  DataCells = 2
  MaxLen = 2
  MaxBytes = 2
  Threads = {t1}
  Sess = {s1}
  NoSess = NoSess
  Exclusive = TRUE
  Rewrites = FALSE
  MaxMounts = 2
  StackJunk = {7}
SYMMETRY Symmetry
INVARIANTS
StatSurvivesRestart DataSurvivesRestart
