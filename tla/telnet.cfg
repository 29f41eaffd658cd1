SPECIFICATION FairSpec
CONSTANT Cases <- MCTelnetCases
INVARIANTS
  Mirrored
  StreamsKept
PROPERTY Settles
CHECK_DEADLOCK FALSE
