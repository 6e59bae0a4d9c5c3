SPECIFICATION TwiceSpec
CONSTANTS
  MAX_FUTURE_SKEW_MS = 1
  MAX_RECORD_BYTES = 8
  Absent = Absent
  Keys <- MCKeys
  Targets <- MCTargets
  Envelopes <- MCEnvelopes
  Clocks = {1, 2, 4, 5}
INVARIANTS
  AcceptedForOneTarget
  VerdictClockFree
  ClassificationAdvances
CHECK_DEADLOCK FALSE
