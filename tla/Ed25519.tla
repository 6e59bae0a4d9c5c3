------------------------------- MODULE Ed25519 -------------------------------
(***************************************************************************)
(* followee_model/ed25519.py: the curve arithmetic in extended coordinates,*)
(* signing, and Followee-strict verification step by step.  The field, the *)
(* curve and the width of encodings are parameters; a hash is any number.  *)
(***************************************************************************)
EXTENDS Integers, Sequences

CONSTANTS
  P,         \* the field's prime, 2^255 - 19 in the code
  L,         \* the order of the base point, about 2^252
  D,         \* the curve is -x^2 + y^2 = 1 + D x^2 y^2
  BITS,      \* the bits of an encoding, 256: y below the sign of x
  BASE,      \* the encoding of the base point
  MAX_S      \* the greatest S tried

SignBit == 2^(BITS - 1)

\* The shape of Curve25519: two square roots are tried in decompression, clamped
\* scalars are no multiples of the cofactor times L, and y may reach P.
ASSUME CurveAssumption ==
  /\ P \in Nat /\ P % 8 = 5 /\ P < SignBit
  /\ L \in Nat /\ L % 2 = 1 /\ 8 * L > SignBit
  /\ D \in 1..(P - 1) /\ \A x \in 1..(P - 1) : (x * x - D) % P # 0
  /\ MAX_S \in Nat /\ MAX_S >= L

NoEncoding == -1         \* bytes of any other length
NoPoint    == << >>      \* None
Identity   == << 0, 1, 1, 0 >>

RECURSIVE Power(_, _)
Power(b, n) == IF n = 0 THEN 1 ELSE (b * Power(b, n - 1)) % P

\* pow(b, -1, P)
InverseMod(b) == CHOOSE c \in 1..(P - 1) : (b * c) % P = 1

SQRT_M1 == Power(2, (P - 1) \div 4)

----------------------------------------------------------------------------
(* Points << X, Y, Z, T >> with x = X/Z, y = Y/Z and T = X Y / Z.          *)

PtAdd(p, q) ==
  LET a == ((p[2] - p[1]) * (q[2] - q[1])) % P
      b == ((p[2] + p[1]) * (q[2] + q[1])) % P
      c == (2 * p[4] * q[4] * D) % P
      d == (2 * p[3] * q[3]) % P
      e == b - a
      f == d - c
      g == d + c
      h == b + a
  IN << (e * f) % P, (g * h) % P, (f * g) % P, (e * h) % P >>

RECURSIVE MulLoop(_, _, _)
MulLoop(scalar, point, result) ==
  IF scalar = 0 THEN result
  ELSE MulLoop(scalar \div 2, PtAdd(point, point),
               IF scalar % 2 = 1 THEN PtAdd(result, point) ELSE result)

PtMul(scalar, point) == MulLoop(scalar, point, Identity)

PtEqual(p, q) ==
  /\ (p[1] * q[3] - q[1] * p[3]) % P = 0
  /\ (p[2] * q[3] - q[2] * p[3]) % P = 0

IsIdentity(point) == PtEqual(point, Identity)

\* Variant: no look at the sign of x = 0.
RecoverXAnySign(x, y, sign) ==
  LET xs == IF x % 2 # sign THEN P - x ELSE x IN << xs, y, 1, (xs * y) % P >>

\* The point with a root x found for y and the sign asked for.
RecoverX(x, y, sign) ==
  IF x = 0 /\ sign = 1 THEN NoPoint
  ELSE LET xs == IF x % 2 # sign THEN P - x ELSE x IN << xs, y, 1, (xs * y) % P >>

Decompress(encoded) ==
  LET sign == (encoded \div SignBit) % 2
      y    == encoded % SignBit
      u    == (y * y - 1) % P
      v    == (D * y * y + 1) % P
      x    == (u * Power(v, 3) * Power((u * Power(v, 7)) % P, (P - 5) \div 8)) % P
      vx2  == (v * x * x) % P
  IN IF y >= P THEN NoPoint
     ELSE IF vx2 = u THEN RecoverX(x, y, sign)
     ELSE IF vx2 = (P - u) % P THEN RecoverX((x * SQRT_M1) % P, y, sign)
     ELSE NoPoint

Compress(point) ==
  LET z_inv == InverseMod(point[3])
      x     == (point[1] * z_inv) % P
      y     == (point[2] * z_inv) % P
  IN y + (x % 2) * SignBit

BasePoint == Decompress(BASE)

----------------------------------------------------------------------------
(* Signing and verification, one call at a time.                           *)

VARIABLES
  public_key, signature,   \* the encoded key; << R, S >>
  k,                       \* the hash of R, key and message; -1 before it is taken
  step,                    \* what runs next; "done" and "ValueError" end a call
  a_point, r_point,        \* the decoded points
  verdict,                 \* what verify_strict returns
  signed                   \* whether key and signature were made by sign

vars == << public_key, signature, k, step, a_point, r_point, verdict, signed >>

Encodings == 0..(2 * SignBit - 1)

Init ==
  /\ k = -1 /\ a_point = NoPoint /\ r_point = NoPoint /\ verdict = FALSE
  /\ \/ /\ step = "sign" /\ signed = TRUE
        /\ public_key = NoEncoding /\ signature = << NoEncoding, 0 >>
     \/ /\ step = "size" /\ signed = FALSE
        /\ public_key \in Encodings \cup { NoEncoding }
        /\ signature \in (Encodings \cup { NoEncoding }) \X (0..MAX_S)

\* Variant: without the high bit.
SecretScalarUnset(digest) == ((digest % 2^(BITS - 2)) \div 8) * 8

\* _secret_expand: bits 3 to BITS - 3 of the digest, and the bit above them.
SecretScalar(digest) == ((digest % 2^(BITS - 2)) \div 8) * 8 + 2^(BITS - 2)

\* public_key_from_seed and sign, of a seed with any digest.  What it makes is
\* then verified, with the same hash of the same bytes.
Sign ==
  /\ step = "sign"
  /\ \E digest \in Encodings, r, hash \in 0..(L - 1) :
       LET scalar == SecretScalar(digest) IN
       /\ public_key' = Compress(PtMul(scalar, BasePoint))
       /\ signature' = << Compress(PtMul(r, BasePoint)), (r + hash * scalar) % L >>
       /\ k' = hash
  /\ step' = "size"
  /\ UNCHANGED << a_point, r_point, verdict, signed >>

\* A seed of any other length.
SignWrongSeed ==
  /\ step = "sign" /\ step' = "ValueError"
  /\ UNCHANGED << public_key, signature, k, a_point, r_point, verdict, signed >>

\* verify_strict returns False unless the condition holds.
Pass(s, condition, next) ==
  /\ step = s
  /\ step' = IF condition THEN next ELSE "done"
  /\ UNCHANGED << public_key, signature, verdict, signed >>

CheckSizes ==
  /\ Pass("size", public_key # NoEncoding /\ signature[1] # NoEncoding, "decompressA")
  /\ UNCHANGED << k, a_point, r_point >>

DecompressA ==
  /\ Pass("decompressA", Decompress(public_key) # NoPoint, "identityA")
  /\ a_point' = Decompress(public_key)
  /\ UNCHANGED << k, r_point >>

CheckKeyNotIdentity ==
  /\ Pass("identityA", ~IsIdentity(a_point), "orderA")
  /\ UNCHANGED << k, a_point, r_point >>

\* Variant: keys and R may be any points of the curve.
InSubgroupNotAsked(point) == TRUE

InSubgroup(point) == IsIdentity(PtMul(L, point))

CheckKeyOrder ==
  /\ Pass("orderA", InSubgroup(a_point), "scalar")
  /\ UNCHANGED << k, a_point, r_point >>

CheckScalar ==
  /\ Pass("scalar", signature[2] < L, "decompressR")
  /\ UNCHANGED << k, a_point, r_point >>

DecompressR ==
  /\ Pass("decompressR", Decompress(signature[1]) # NoPoint, "orderR")
  /\ r_point' = Decompress(signature[1])
  /\ UNCHANGED << k, a_point >>

CheckROrder ==
  /\ Pass("orderR", InSubgroup(r_point), "hash")
  /\ UNCHANGED << k, a_point, r_point >>

Hash ==
  /\ Pass("hash", TRUE, "equation")
  /\ k' \in IF signed THEN {k} ELSE 0..(L - 1)
  /\ UNCHANGED << a_point, r_point >>

CheckEquation ==
  /\ step = "equation" /\ step' = "done"
  /\ verdict' = PtEqual(PtMul(signature[2], BasePoint),
                        PtAdd(r_point, PtMul(k, a_point)))
  /\ UNCHANGED << public_key, signature, k, a_point, r_point, signed >>

Next ==
  \/ Sign \/ SignWrongSeed \/ CheckSizes \/ DecompressA \/ CheckKeyNotIdentity
  \/ CheckKeyOrder \/ CheckScalar \/ DecompressR \/ CheckROrder \/ Hash
  \/ CheckEquation

Spec == Init /\ [][Next]_vars

----------------------------------------------------------------------------
(* The affine curve.                                                       *)

Curve == { q \in (0..(P - 1)) \X (0..(P - 1)) :
             (q[2] * q[2] - q[1] * q[1] - 1 - D * q[1] * q[1] * q[2] * q[2]) % P = 0 }

Quotient(a, b) == CHOOSE q \in 0..(P - 1) : (q * b - a) % P = 0

\* RFC 8032, Section 5.1.4: the complete addition law.
AffineAdd(p, q) ==
  LET t == D * p[1] * p[2] * q[1] * q[2] IN
  << Quotient(p[1] * q[2] + q[1] * p[2], 1 + t),
     Quotient(p[2] * q[2] + p[1] * q[1], 1 - t) >>

Encode(q) == q[2] + SignBit * (q[1] % 2)

AffineBase == CHOOSE q \in Curve : Encode(q) = BASE

Multiples[n \in 0..L] ==
  IF n = 0 THEN << 0, 1 >> ELSE AffineAdd(Multiples[n - 1], AffineBase)

ASSUME BaseAssumption == \A n \in 1..L : Multiples[n] = << 0, 1 >> <=> n = L

----------------------------------------------------------------------------
(* Properties.                                                             *)

\* Section 3.3: verify_strict accepts exactly the signatures [S]B = R + [k]A by a
\* key other than the identity, with A, R and S each in their only encoding.  So a
\* message, a key and an R have one signature and nothing of small order, mixed
\* order or of another spelling is ever accepted.
AcceptsExactly ==
  step = "done" =>
    (verdict <=> \E a \in 1..(L - 1), r \in 0..(L - 1) :
                   /\ public_key = Encode(Multiples[a])
                   /\ signature = << Encode(Multiples[r]), (r + k * a) % L >>)

\* What sign makes with the key of any seed, verify_strict accepts.
SignaturesVerify == signed /\ step = "done" => verdict

\* Decompression is the inverse of the one encoding of each point of the curve, the
\* points with x = 0 included, and decodes nothing else; so does compression.
OneEncoding ==
  step \notin { "sign", "ValueError", "size", "decompressA" }
    /\ public_key # NoEncoding /\ signature[1] # NoEncoding =>
    IF a_point = NoPoint
    THEN \A q \in Curve : Encode(q) # public_key
    ELSE /\ \E q \in Curve : /\ Encode(q) = public_key
                             /\ a_point = << q[1], q[2], 1, (q[1] * q[2]) % P >>
         /\ Compress(PtAdd(a_point, Identity)) = public_key
=============================================================================
