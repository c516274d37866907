SPECIFICATION Spec
CONSTANTS
  Program <- AllPrograms
  Lang <- AllLanguages
  Line <- Lines
  Newline = "nl"
  Return = "cr"
  Blank <- Blanks
  MaxLine = 1
  FrameBound = 2
  LineBound = 2
  WorkBound = 3
INVARIANTS
  ClientTypeOK
  ShownAsSent
  LinesSentAsTyped
PROPERTIES
  FramesShown
  LossEndsClient
  SignalStopsReader
CHECK_DEADLOCK FALSE
