\* A curve like Curve25519 over the field of 29 elements: -x^2 + y^2 =
\* 1 + 27 x^2 y^2 has 8 * 5 points, 29 is three below 2^5, and the base point
\* (2, 23) has order 5.  All keys and all values of R are tried.
SPECIFICATION Spec
CONSTANTS
  P = 29
  L = 5
  D = 27
  BITS = 6
  BASE = 23
  MAX_S = 11
INVARIANTS
  AcceptsExactly
  SignaturesVerify
  OneEncoding
CHECK_DEADLOCK FALSE
