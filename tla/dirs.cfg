SPECIFICATION Spec
CONSTANTS
  Threads <- MCThreads
  Nobody = Nobody
  Handles = {h1}
  NoDh = NoDh
  Names <- MCNames
  Long = {2}
  Sizes = {2, 3}
  Modes = {"list", "offsets"}
  Plus = TRUE
  MaxReqs = 4
CHECK_DEADLOCK FALSE
INVARIANTS
EntriesOnce KnownCounted HandlesKept
