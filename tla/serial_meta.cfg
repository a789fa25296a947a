SPECIFICATION Spec
CONSTANTS
  BlockIds = {a, b}
  NoId = NoId
  Kinds = {"meta"}
  BLOCK_NUM = 2
  CsmCells = 2
  DataCells = 1
  MaxLen = 2
  MaxBytes = 2
  Threads = {t1}
  Sess = {s1, s2}
  NoSess = NoSess
  Exclusive = TRUE
  Rewrites = TRUE
  MaxMounts = 1
  StackJunk = {7}
SYMMETRY Symmetry
INVARIANTS
BlockOwnership
