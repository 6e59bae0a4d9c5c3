SPECIFICATION Spec
CONSTANTS
  Base = 4
  ByteSize = 6
  SHA2_256_CODE = 2
  V1_DIGEST_LENGTH = 1
  MAX_VARINT_BYTES = 2
  MaxLength = 7
  Dids <- MCDids
INVARIANTS
  AcceptedIsMultihash
  OneSpelling
  UnsupportedOnlyIfSound
CHECK_DEADLOCK FALSE
