CONSTANTS
  Calls = {c1, c2}
  Names = {"read", "shell"}
  Shell = "shell"
  Fragments = {"word", " "}
  Blank = " "
  MaxSteps = 4
  MaxItems = 3
  None = None
CHECK_DEADLOCK FALSE
SYMMETRY TranscriptSymmetry
SPECIFICATION Spec
INVARIANTS
  
  NoIdleSpinner
PROPERTIES
  SettledStays
