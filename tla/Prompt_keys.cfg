SPECIFICATION Spec
CONSTANTS
  Letters = {a}
  Blank = blank
  Newline = newline
  Pastes <- MCPastes
  Recalls <- MCRecalls
  Widths = {1, 2}
  MaxChars = 4
INVARIANT TypeOK
PROPERTY OneText
