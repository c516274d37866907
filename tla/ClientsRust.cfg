SPECIFICATION Spec
CONSTANTS
  Program <- OnlyChat
  Lang <- OnlyRust
  Line <- Lines
  Newline = "nl"
  Return = "cr"
  Blank <- Blanks
  MaxLine = 1
  FrameBound = 2
  LineBound = 2
  WorkBound = 3
INVARIANT SeriesOfMessages
CHECK_DEADLOCK FALSE
