SPECIFICATION Spec
CONSTANTS
  Triggers = {t1}
  Vehicles = {v1}
  Workers = {w1}
  NoWorker = none
  MaxFailureCount = 2
  FailureCap = 3
  Calls = {c1, c2}
PROPERTIES
  DeletedIsFinal
