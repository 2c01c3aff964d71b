SPECIFICATION Spec
CONSTANTS
  Triggers = {t1}
  Vehicles = {v1}
  Enabled = {a}
  Off = off
  Gone = gone
  Refreshers = {r1, r2}
  Denied = {v1}
  MaxWrites = 2
  MaxFaults = 0
INVARIANTS
  NudgeIsServedAlive
