-------------------------------- MODULE Base58 --------------------------------
(***************************************************************************)
(* followee_model/base58.py over any base and any size of a byte.  A text  *)
(* is a sequence of digits, the digit 0 being the character '1'; a         *)
(* character outside the alphabet is the number Base.                      *)
(***************************************************************************)
EXTENDS Integers, Sequences

CONSTANTS
  Base,        \* 58 in the code
  ByteSize     \* 256

ASSUME Base58Assumption == Base \in Nat /\ Base > 1 /\ ByteSize \in Nat /\ ByteSize > 1

Byte == 0..ByteSize - 1

\* int.from_bytes and the loop of decode: the number that digits denote.
Number(digits, radix) ==
  LET number[k \in 0..Len(digits)] ==
        IF k = 0 THEN 0 ELSE number[k - 1] * radix + digits[k]
  IN number[Len(digits)]

\* to_bytes and the loop of encode: the digits of n, none for 0.
DigitsOf(n, radix) ==
  LET digits[m \in 0..n] ==
        IF m = 0 THEN << >> ELSE Append(digits[m \div radix], m % radix)
  IN digits[n]

\* The zeros at the front of a text or of bytes.
LeadingZeros(s) ==
  CHOOSE n \in 0..Len(s) :
    (\A k \in 1..n : s[k] = 0) /\ (n < Len(s) => s[n + 1] # 0)

Zeros(n) == [ k \in 1..n |-> 0 ]

\* What encode and decode share: the zeros in front stay, the rest is the number.
Recode(s, from, to) == Zeros(LeadingZeros(s)) \o DigitsOf(Number(s, from), to)

Base58Encode(data) == Recode(data, ByteSize, Base)

IsBase58(text) == \A k \in DOMAIN text : text[k] < Base

Base58Decode(text) == Recode(text, Base, ByteSize)
=============================================================================
