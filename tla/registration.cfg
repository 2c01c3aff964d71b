SPECIFICATION Spec
CHECK_DEADLOCK FALSE
CONSTANTS
  Calls = {c1, c2}
  Registered <- AllConditions
  Replacements <- Updates
  MaxColumns = 1
SYMMETRY Symmetry
INVARIANTS
  TypeOK
  StoredRowsAreValid
  EvaluatesUnlessUnforeseen
PROPERTIES
  OnlyProvidedChanges
