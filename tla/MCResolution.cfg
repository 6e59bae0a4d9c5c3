SPECIFICATION Spec
CONSTANTS
  MaxCandidates = 3
  MAX_FUTURE_SKEW_MS = 1
  MAX_RECORD_BYTES = 8
  Absent = Absent
  NoRecord = NoRecord
  NoResult = NoResult
  Keys <- MCKeys
  Targets <- MCTargets
  Contents <- MCContents
  Content <- MCContent
  target <- MCTarget
  Envelopes <- MCEnvelopes
  Digests <- MCDigests
  VerifyError <- MCVerifyError
  BodyDigest <- MCBodyDigest
  Timestamp <- MCTimestamp
  Authority <- MCAuthority
  ValidUntil <- MCValidUntil
  CandidateLists <- MCCandidateLists
  Clocks = {1, 4}
INVARIANTS
  WinnerIsAuthorised
  RevocationNeedsRevocationKey
  StrangersChangeNothing
CHECK_DEADLOCK FALSE
