SPECIFICATION Spec
CONSTANTS
  BlockIds = {a, b}
  NoId = NoId
  Kinds = {"data"}
  BLOCK_NUM = 3
  CsmCells = 1
  DataCells = 2
  MaxLen = 2
  MaxBytes = 4
  Threads = {t1}
  Sess = {s1, s2}
  NoSess = NoSess
  Exclusive = TRUE
  Rewrites = TRUE
  MaxMounts = 1
  StackJunk = {7}
SYMMETRY Symmetry
INVARIANTS
LayoutIntact NoLostData ReadsReturnWrites HandlesApart
PROPERTIES
ImplementsStore
