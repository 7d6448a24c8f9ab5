CONSTANTS
  Procs = {p1}
  Scopes = {"user"}
  Kinds = {fact}
  Texts = {a, b, c}
  MaxId = 3
  MaxDrafts = 2
  MaxCopies = 2
  MaxProposals = 2
  MaxDiscarded = 1
  Overrides = {}
  Faults = {"crash", "write", "read"}
  Nothing = Nothing
SYMMETRY ProposalsSymmetry
SPECIFICATION Spec
INVARIANTS
  DistinctProposals
PROPERTIES
  ForgottenNotStored
  NoDuplicateWritten
  ProposalsKept
  DiscardedStaysOut
