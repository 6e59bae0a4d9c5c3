SPECIFICATION FairSpec
CONSTANTS
  MAX_FUTURE_SKEW_MS = 1
  UINT64_MAX = 2
  Clocks <- MCClocks
  MaxCalls = 3
  NoRecord = NoRecord
  Envelopes <- MCDigests
  Digests <- MCDigests
  VerifyError <- MCVerifyError
  BodyDigest <- MCBodyDigest
  Timestamp <- MCTimestamp
  Authority <- MCAuthority
  ValidUntil <- MCValidUntil
INVARIANTS
  LaterThanKnown
  ExhaustedOnlyAtTheEnd
  UsableAtOnce
PROPERTIES
  RevokedForGood
  NoReturnToPredecessor
  NoRollback
  Converges
