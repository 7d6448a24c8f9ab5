CONSTANTS
  Ids = {s1, s2, s3}
  Locals = {l1}
  Versions = {"v1", "v2"}
  Supports = {"v1"}
  MemoryMode = "auto"
  Corpus = TRUE
  PageSize = 1
  MaxPages = 2
  Faults = {"request", "page", "inject", "stream", "time"}
  MaxMessages = 2
  MaxUpsets = 1
  None = None
CHECK_DEADLOCK FALSE
SYMMETRY SessionsSymmetry
SPECIFICATION Spec
INVARIANTS
  OneTabPerSession
  NothingLost
PROPERTIES
  InjectedAtBirth
