SPECIFICATION Spec
CONSTANTS
  None = none
  Demo <- MCDemo
  MaxSessions = 3
  Texts = {"two", "revert", "fork", "e", "new", "j"}
  TwoLines <- MCTwoLines
  FirstLine <- MCFirstLine
  Items = {"init"}
  HistoryCap = 2
  MaxMoves = 2
PROPERTIES
  SubmittedStays
  QuitIsConfirmed
  StreamsDrain
CHECK_DEADLOCK FALSE
