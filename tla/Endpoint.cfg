SPECIFICATION Spec
CONSTANT Server <- Servers
INVARIANTS
  EndpointTypeOK
  ReachableAlone
  FailsOnlyByRace
  NoFileLeft
PROPERTIES
  StartServes
  SignalEnds
