------------------------------- MODULE Records -------------------------------
(***************************************************************************)
(* What followee_model/verify.py hands to followee_model/selection.py: the *)
(* candidate envelopes, the verdict verify_full_record gives on each, and  *)
(* the fields of a VerifiedRecord that selection reads.                    *)
(*                                                                         *)
(* An envelope is opaque.  A body digest stands for the body it was        *)
(* computed from (SHA-256 is taken to be collision free), so timestamp,    *)
(* authority and horizon are functions of the digest and two envelopes may *)
(* carry the same body under different signatures.  Digests are numbers:   *)
(* the unsigned left-to-right order of 32-byte strings is the order of the *)
(* numbers they encode.                                                    *)
(***************************************************************************)
EXTENDS Basics, Sequences

CONSTANTS
  Envelopes,           \* the candidate byte strings
  Digests,             \* the body digests, as numbers
  VerifyError,         \* envelope -> what verify_full_record raises, or NoError
  BodyDigest,          \* envelope -> digest of its payload
  Timestamp,           \* digest -> timestamp_ms, body label 2
  Authority,           \* digest -> AUTHORITY_ROOT or AUTHORITY_ROOT_REVOKED
  ValidUntil,          \* digest -> validUntil_ms, body label 6, or NoHorizon
  NoRecord             \* None in place of a VerifiedRecord

Accepted(e) == VerifyError[e] = NoError

\* The record verify_full_record(target, e, t) returns when it raises nothing.
VerifiedRecord(e, t) ==
  LET d == BodyDigest[e] IN
  [ envelope     |-> e,
    body_digest  |-> d,
    timestamp_ms |-> Timestamp[d],
    authority    |-> Authority[d],
    premature    |-> IsPremature(Timestamp[d], t),
    stale        |-> IsStale(ValidUntil[d], t) ]

VerifiedRecords ==
  [ envelope     : Envelopes,
    body_digest  : Digests,
    timestamp_ms : Nat,
    authority    : { AUTHORITY_ROOT, AUTHORITY_ROOT_REVOKED },
    premature    : BOOLEAN,
    stale        : BOOLEAN ]

ASSUME RecordsAssumption ==
  /\ Digests \subseteq Nat
  /\ VerifyError \in [Envelopes -> VerifyErrors \cup {NoError}]
  /\ BodyDigest \in [Envelopes -> Digests]
  /\ Timestamp \in [Digests -> Nat]
  /\ Authority \in [Digests -> {AUTHORITY_ROOT, AUTHORITY_ROOT_REVOKED}]
  /\ ValidUntil \in [Digests -> Nat \cup {NoHorizon}]
  /\ NoRecord \notin VerifiedRecords

\* Variant: without the tie break the later candidate wins.
BeatsOrTies(a, b) == a.timestamp_ms >= b.timestamp_ms

\* Variant: the body digest alone decides.
BeatsByDigest(a, b) == a.body_digest < b.body_digest

\* _beats(a, b): within one authority state the greater timestamp wins, then
\* the lower body digest.
Beats(a, b) ==
  IF a.timestamp_ms # b.timestamp_ms
  THEN a.timestamp_ms > b.timestamp_ms
  ELSE a.body_digest < b.body_digest
=============================================================================
