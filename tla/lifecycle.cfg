SPECIFICATION FairSpec
CONSTANTS
  Triggers = {t1}
  Vehicles = {v1}
  Workers = {w1, w2}
  NoWorker = none
  MaxFailureCount = 2
  FailureCap = 3
  Calls = {c1}
INVARIANTS
  TypeOK
  CountBelowThreshold
PROPERTIES
  NoFailureLost
  RefinesBreaker
  LocksAreReleased
  TrippedBreakerIsSeen
