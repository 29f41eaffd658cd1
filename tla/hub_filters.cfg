\* Every configuration: escape stream, multiplexer, connectors, pin and
\* awakening connections.
SPECIFICATION Spec
CONSTANT Cases <- MCCases
INVARIANTS
  TypeOK
  Mirrored
  Negotiated
  StreamsKept
  InPhase
  StoppedWhileNeeded
  PinFollowed
\* The changes are bounded and the streams end.
CHECK_DEADLOCK FALSE
