SPECIFICATION Spec
CHECK_DEADLOCK FALSE
CONSTANTS
  Goroutines = {g1, g2}
  DefaultPermissions <- Standard
INVARIANTS
  PermissionsKept
