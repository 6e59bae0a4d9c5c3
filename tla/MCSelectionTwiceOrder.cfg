SPECIFICATION TwiceSpec
CONSTANTS
  MaxCandidates = 2
  MAX_FUTURE_SKEW_MS = 1
  NoRecord = NoRecord
  NoResult = NoResult
  Envelopes <- MCEnvelopes
  Digests <- MCDigests
  VerifyError <- MCVerifyError
  BodyDigest <- MCBodyDigest
  Timestamp <- MCTimestamp
  Authority <- MCAuthority
  ValidUntil <- MCValidUntil
  CandidateLists <- MCCandidateLists
  Clocks = {1, 3}
INVARIANT WinnerArrivalOrderFree
CHECK_DEADLOCK FALSE
