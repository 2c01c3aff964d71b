SPECIFICATION FairSpec
CONSTANTS
  Vehicles = {v1}
  Listeners = {l1, l2}
  Calls = {c1}
  Expiration = 2
  Latency = 1
INVARIANTS
  TypeOK
PROPERTIES
  ActsOnRecentAnswer
  SettledDecisionHolds
  RevokedIsUnsubscribed
