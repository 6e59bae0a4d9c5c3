--------------------------------- MODULE Did ---------------------------------
(***************************************************************************)
(* parse_did and did_from_digest of followee_model/did.py; the loop of     *)
(* _read_uvarint takes one byte a step, first for the code of the          *)
(* multihash and then for the length of the digest.  A DID is what         *)
(* parse_did tells apart: whether it starts with the prefix and the        *)
(* multibase character, and the base58 text that follows.                  *)
(***************************************************************************)
EXTENDS Base58, SequencesExt

CONSTANTS
  Dids,                \* the argument did: [prefix, multibase, encoded]
  SHA2_256_CODE,       \* 0x12 in the code
  V1_DIGEST_LENGTH,    \* 0x20
  MAX_VARINT_BYTES     \* 9

\* The values of one byte of a varint; the other half of the bytes continue it.
Half == ByteSize \div 2

ASSUME DidAssumption ==
  /\ ByteSize = 2 * Half /\ Half \in Nat \ { 0, 1 }
  /\ SHA2_256_CODE \in 0..Half - 1 /\ V1_DIGEST_LENGTH \in 0..Half - 1
  /\ MAX_VARINT_BYTES \in Nat \ { 0 }
  /\ Dids \subseteq [ prefix : BOOLEAN, multibase : BOOLEAN, encoded : Seq(Nat) ]

VARIABLES
  did,         \* the argument
  step,        \* what runs next, "raised" or "returned"
  error,       \* the code raised, or "noError"
  raw,         \* the bytes that encoded stands for
  pos,         \* how many of them have been read
  value,       \* the varint so far
  scale,       \* 1 << shift
  count,       \* its bytes so far
  code,        \* the multihash code
  digest       \* the bytes returned

vars == << did, step, error, raw, pos, value, scale, count, code, digest >>

Init ==
  /\ did \in Dids
  /\ step = "syntax" /\ error = "noError"
  /\ raw = << >> /\ pos = 0 /\ value = 0 /\ scale = 1 /\ count = 0 /\ code = 0
  /\ digest = << >>

Raise(e) ==
  /\ step' = "raised" /\ error' = e
  /\ UNCHANGED << did, raw, pos, value, scale, count, code, digest >>

IsSyntax(d) == d.prefix /\ d.multibase /\ d.encoded # << >> /\ IsBase58(d.encoded)

RefuseSyntax == step = "syntax" /\ ~IsSyntax(did) /\ Raise("invalidDid")

DecodeText ==
  /\ step = "syntax" /\ IsSyntax(did)
  /\ raw' = Base58Decode(did.encoded)
  /\ step' = "code"
  /\ UNCHANGED << did, error, pos, value, scale, count, code, digest >>

----------------------------------------------------------------------------
(* _read_uvarint.                                                          *)

Reading    == step \in { "code", "length" }
MoreBytes  == pos < Len(raw)
Octet      == raw[pos + 1]
Continues  == Octet >= Half
Extended   == value + (Octet % Half) * scale

\* The byte to be read is one more than a varint may have.
TooLong == count + 1 > MAX_VARINT_BYTES

\* Variant: a last byte that adds nothing is let through.
NonMinimalNever == FALSE

NonMinimal == count > 0 /\ Octet = 0

RefuseVarint ==
  /\ Reading
  /\ \/ ~MoreBytes
     \/ MoreBytes /\ (TooLong \/ (~Continues /\ NonMinimal))
  /\ Raise("invalidDid")

ContinueVarint ==
  /\ Reading /\ MoreBytes /\ ~TooLong /\ Continues
  /\ pos' = pos + 1 /\ count' = count + 1
  /\ value' = Extended /\ scale' = scale * Half
  /\ UNCHANGED << did, step, error, raw, code, digest >>

\* The value of the second varint stays in value.
EndVarint ==
  /\ Reading /\ MoreBytes /\ ~TooLong /\ ~Continues /\ ~NonMinimal
  /\ pos' = pos + 1 /\ count' = 0 /\ scale' = 1
  /\ code' = IF step = "code" THEN Extended ELSE code
  /\ value' = IF step = "code" THEN 0 ELSE Extended
  /\ step' = IF step = "code" THEN "length" ELSE "digest"
  /\ UNCHANGED << did, error, raw, digest >>

----------------------------------------------------------------------------
\* Variant: a digest of another length is a hash not supported.
LengthAgreesIfSupported == value = V1_DIGEST_LENGTH => Len(raw) - pos = value

LengthAgrees == Len(raw) - pos = value

RefuseLength ==
  /\ step = "digest"
  /\ ~LengthAgrees
  /\ Raise("invalidDid")

RefuseHash ==
  /\ step = "digest"
  /\ LengthAgrees
  /\ code # SHA2_256_CODE \/ value # V1_DIGEST_LENGTH
  /\ Raise("unsupportedHash")

ReturnDigest ==
  /\ step = "digest"
  /\ LengthAgrees
  /\ code = SHA2_256_CODE /\ value = V1_DIGEST_LENGTH
  /\ step' = "returned"
  /\ digest' = SubSeq(raw, pos + 1, Len(raw))
  /\ UNCHANGED << did, error, raw, pos, value, scale, count, code >>

Next ==
  \/ RefuseSyntax \/ DecodeText
  \/ RefuseVarint \/ ContinueVarint \/ EndVarint
  \/ RefuseLength \/ RefuseHash \/ ReturnDigest

Spec == Init /\ [][Next]_vars

----------------------------------------------------------------------------
(* What a DID should be.                                                   *)

MultihashFromDigest(d) == << SHA2_256_CODE, V1_DIGEST_LENGTH >> \o d

DidFromDigest(d) ==
  [ prefix |-> TRUE, multibase |-> TRUE, encoded |-> Base58Encode(MultihashFromDigest(d)) ]

\* The unsigned varint of n: groups of digits, the least significant first, all
\* but the last marked as continued.
Varint(n) ==
  LET groups == IF n = 0 THEN << 0 >> ELSE Reverse(DigitsOf(n, Half)) IN
  [ k \in DOMAIN groups |-> groups[k] + IF k < Len(groups) THEN Half ELSE 0 ]

\* bytes is a multihash of any function: the varints of a code and of the number
\* of bytes that follow.
IsMultihash(bytes) ==
  \E k \in 1..Len(bytes) :
    LET length == Varint(Len(bytes) - k)
        prefix == SubSeq(bytes, 1, k - Len(length))
    IN
    /\ Len(length) < k
    /\ SubSeq(bytes, k - Len(length) + 1, k) = length
    /\ \A j \in DOMAIN prefix : prefix[j] >= Half <=> j < Len(prefix)
    /\ Len(prefix) > 1 => Last(prefix) # 0
    /\ Len(prefix) <= MAX_VARINT_BYTES /\ Len(length) <= MAX_VARINT_BYTES

----------------------------------------------------------------------------
(* Properties.                                                             *)

TypeOK ==
  /\ did \in Dids
  /\ step \in { "syntax", "code", "length", "digest", "raised", "returned" }
  /\ error \in { "noError", "invalidDid", "unsupportedHash" }
  /\ step = "raised" <=> error # "noError"
  /\ raw \in Seq(Byte) /\ pos \in 0..Len(raw)
  /\ value \in Nat /\ scale \in Nat \ { 0 } /\ code \in Nat
  /\ count \in 0..MAX_VARINT_BYTES
  /\ digest \in Seq(Byte)

\* What parse_did returns is what stands in the multihash after its one-byte code
\* and its one-byte length: no longer varint of the same two numbers leads there.
AcceptedIsMultihash ==
  step = "returned" =>
    raw = MultihashFromDigest(digest) /\ Len(digest) = V1_DIGEST_LENGTH

\* Every digest has exactly one DID: parse_did accepts what did_from_digest makes,
\* nothing else, and returns the digest it was made from.
OneSpelling ==
  /\ step = "returned" => did = DidFromDigest(digest) /\ Len(digest) = V1_DIGEST_LENGTH
  /\ step = "raised" =>
       \A d \in [ 1..V1_DIGEST_LENGTH -> Byte ] : did # DidFromDigest(d)

\* A hash is called unsupported only when the multihash is sound in structure, as
\* the docstring of did.py has it, and a sound one is never called invalid.
UnsupportedOnlyIfSound ==
  /\ error = "unsupportedHash" => IsSyntax(did) /\ IsMultihash(raw)
  /\ error = "invalidDid" /\ IsSyntax(did) => ~IsMultihash(raw)
=============================================================================
