SPECIFICATION Spec
CONSTANTS
  BlockIds = {a}
  NoId = NoId
  Kinds = {"data"}
  BLOCK_NUM = 2
  CsmCells = 1
  DataCells = 2
  MaxLen = 2
  MaxBytes = 2
  Threads = {t1}
  Sess = {s1}
  NoSess = NoSess
  Exclusive = FALSE
  Rewrites = FALSE
  MaxMounts = 1
  StackJunk = {7}
SYMMETRY Symmetry
INVARIANTS
NoLostData
