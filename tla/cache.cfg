SPECIFICATION FairSpec
CONSTANTS
  Triggers = {t1, t2}
  Vehicles = {v1}
  Enabled = {a}
  Off = off
  Gone = gone
  Refreshers = {r1, r2}
  Denied = {v1}
  MaxWrites = 2
  MaxFaults = 1
INVARIANTS
  TypeOK
  ScheduleHasOneOwner
  NudgeIsServed
PROPERTIES
  QuietRebuildIsExact
  CacheConverges
