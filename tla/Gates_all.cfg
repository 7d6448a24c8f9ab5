CONSTANTS
  Sessions = {s1, s2}
  Permissions = {p1}
  Forms = {f1}
  MaxFields = 2
  Messages = {m1, m2}
  Writers = {c1, c2}
  AgentOptions = {"agent"}
  Elsewhere = {"permission"}
  Faults = {"rest", "gap"}
  MaxTail = 2
  None = None
SYMMETRY GatesSymmetry
VIEW WithoutSent
SPECIFICATION Spec
INVARIANTS
  CommandGateIsPending
PROPERTIES
  ConfirmedCommandRuns
  RevertAnswersWhatItShows
  NoOperationWhileBusy
  QuestionReachesItsForm
