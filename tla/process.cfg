SPECIFICATION FairSpec
CHECK_DEADLOCK FALSE
CONSTANTS
  Consumers = {signals, events}
  MaxInFlight = 2
INVARIANTS
  TypeOK
  ServesPopulated
  DrainedBeforeClosed
  UnaskedExitIsFailure
  CancelledIsNotStuck
PROPERTIES
  CancelledEnds
