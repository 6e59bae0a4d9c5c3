CONSTANTS
  Inputs <- MCInputs
  MCLength = 3
  max_depth = 2
  max_members = 3
SPECIFICATION Spec
INVARIANTS
  WithinLimits
  BytesAccountedFor
  AcceptsExactlyTheProfile
  ClassifiesByLayer
CHECK_DEADLOCK FALSE
