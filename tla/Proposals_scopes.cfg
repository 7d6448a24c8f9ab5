CONSTANTS
  Procs = {p1}
  Scopes = {"user", "project"}
  Kinds = {fact}
  Texts = {a}
  MaxId = 2
  MaxDrafts = 2
  MaxCopies = 2
  MaxProposals = 2
  MaxDiscarded = 2
  Overrides = {}
  Faults = {"crash", "write"}
  Nothing = Nothing
SYMMETRY ProposalsSymmetry
SPECIFICATION Spec
PROPERTIES
  ConfirmedLeavesQueue
  ForgottenNotProposed
