SPECIFICATION Spec

CONSTANTS
  Content <- MCContent
  StrayHeader <- MCStrayHeader

INVARIANT TypeOK
INVARIANT FramesAgree
INVARIANT AcceptedIsCanonical

CHECK_DEADLOCK FALSE
