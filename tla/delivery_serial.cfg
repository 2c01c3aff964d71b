SPECIFICATION Spec
CHECK_DEADLOCK FALSE
CONSTANTS
  Triggers = {t1, t2}
  Lanes = {l1}
  Cooldown = 2
  MaxMessages = 3
  MaxRedeliveries = 1
  MaxTime = 5
SYMMETRY Symmetry
INVARIANTS
  TypeOK
  LogsSpaced
  CallsRespectCooldown
  PreviousIsNotStale
