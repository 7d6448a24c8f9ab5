CONSTANTS
  Keys = {lang}
  Ids = {1, 2}
  Procs = {p1, p2}
  Lines <- MCLines
  Found <- MCFound
  Queued <- MCQueued
  MaxId = 2
  MaxReaders = 1
  MaxTime = 1
  BudgetChars = 4
  MaxEncoded = 14
  HeaderSize = 4
  BannerSize = 1
  EntrySize = 2
CHECK_DEADLOCK FALSE
SYMMETRY ProcSymmetry
VIEW Unanswered
SPECIFICATION Spec
INVARIANTS
  NoSecretStored
PROPERTIES
  ShownIsTrue
  InjectionFits
