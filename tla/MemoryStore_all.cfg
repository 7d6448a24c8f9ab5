CONSTANTS
  Keys = {k1}
  Ids = {i1, i2}
  Contents = {c1}
  PinFlags = {FALSE}
  Procs = {p1, p2}
  MaxRecords = 2
  Faults = {"access", "append", "write", "crash", "power"}
  NoKey = NoKey
  Nothing = Nothing
VIEW Unanswered
SPECIFICATION FairSpec
INVARIANTS
  TypeOK
  OneActivePerKey
  NoLostUpdate
  LiveTempKept
PROPERTIES
  DeletionHasTombstone
  LegalTransitions
  KeepsPromise
  CallsReturn
