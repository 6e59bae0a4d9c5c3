SPECIFICATION TwiceSpec
CONSTANTS
  MaxCandidates = 3
  MAX_FUTURE_SKEW_MS = 1
  NoRecord = NoRecord
  NoResult = NoResult
  Envelopes <- MCEnvelopes
  Digests <- MCDigests
  VerifyError <- MCVerifyError
  BodyDigest <- MCBodyDigest
  Timestamp <- MCTimestamp
  Authority <- MCAuthority
  ValidUntil <- MCValidUntil
  CandidateLists <- MCCandidateLists
  Clocks = {1, 3}
INVARIANTS
  SameWinningBody
  SameAuthorityState
  SameClassification
CHECK_DEADLOCK FALSE
