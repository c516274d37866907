SPECIFICATION Spec

CONSTANTS
  Content <- MCContent
  StrayHeader <- MCStrayHeader

INVARIANT FramesUnderstood

CHECK_DEADLOCK FALSE
