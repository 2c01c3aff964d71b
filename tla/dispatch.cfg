SPECIFICATION FairSpec
CHECK_DEADLOCK FALSE
CONSTANTS
  Partitions = {p1, p2}
  Length = 2
  MaxInFlight = 2
  Goroutines = {g1, g2, g3}
  Nothing = nothing
  MaxDisruptions = 2
INVARIANTS
  TypeOK
  InFlightBounded
  ReturnsDrained
  OneLiveDelivery
  NoPartitionForgotten
  RepeatsBounded
PROPERTIES
  ShutdownEnds
  EverythingCommitted
  RefinesAtLeastOnce
