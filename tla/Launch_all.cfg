SPECIFICATION Spec
CONSTANTS
  MaxLines = 4
  MaxStreams = 2
INVARIANTS
  NoServerLeft
  ToldInOrder
PROPERTIES
  StartEnds
  QuitEnds
CHECK_DEADLOCK FALSE
