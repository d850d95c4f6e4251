CONSTANTS
  Unions <- MCUnions
  ForceBroad = FALSE
SPECIFICATION Spec
INVARIANTS
  OneRecency
CHECK_DEADLOCK FALSE
