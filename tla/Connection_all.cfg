CONSTANTS
  Sessions = {s1, s2}
  PromptsInGap = FALSE
  MaxWork = 2
  MaxDrops = 2
  MaxWire = 2
SPECIFICATION FairSpec
INVARIANTS
  BusyIsJustified
PROPERTIES
  BusyReconciles
