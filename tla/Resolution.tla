------------------------------ MODULE Resolution ------------------------------
(***************************************************************************)
(* select_current together with the verify_full_record it calls: the       *)
(* candidates are the envelopes of VerificationRules, and the verdict that *)
(* selection sees on each one is any that VerificationContract allows.     *)
(* What the candidates' signatures say about the result belongs to neither *)
(* component alone.                                                        *)
(***************************************************************************)
EXTENDS Selection, FiniteSets

CONSTANTS
  Keys, Targets, MAX_RECORD_BYTES, Absent,   \* see VerificationRules
  Contents,                                  \* its Envelopes
  Content,                                   \* candidate -> its fields
  target                                     \* the argument target

V == INSTANCE VerificationRules WITH Envelopes <- Contents

\* What a candidate's verdict and record owe to its content.
ASSUME ResolutionAssumption ==
  /\ target \in V!TargetFields
  /\ Content \in [Envelopes -> V!EnvelopeFields]
  /\ Absent \notin VerifyErrors \cup { NoError }
  /\ \A e \in Envelopes :
       LET faults == V!Faults(target, Content[e])
           body   == Content[e].body
           digest == BodyDigest[e]
       IN
       /\ IF faults = {} THEN VerifyError[e] = NoError ELSE VerifyError[e] \in faults
       /\ Accepted(e) => /\ Timestamp[digest]  = body.timestamp_ms
                         /\ Authority[digest]  = body.authority
                         /\ ValidUntil[digest] = body.validUntil_ms

----------------------------------------------------------------------------
(* Properties.                                                             *)

\* The key made the envelope's signature, over this payload.
SignedBy(e, key) == Content[e].intact /\ Content[e].signer = key

\* The winner speaks for the target DID: the root key it commits to signed it
\* while the identity is not revoked, its revocation key afterwards.
WinnerIsAuthorised ==
  pc = "done" /\ winner # NoRecord =>
    SignedBy(winner.envelope,
             IF rootRevoked THEN target.digest.commitment ELSE target.digest.root)

\* An identity does not become revoked for a recipient before the recipient has
\* seen a record that the committed revocation key signed and revealed, and that
\* does not lead the recipient's clock.
RevocationNeedsRevocationKey ==
  pc = "done" /\ rootRevoked /\ ~sticky =>
    \E k \in DOMAIN candidates :
      LET body == Content[candidates[k]].body IN
      /\ SignedBy(candidates[k], target.digest.commitment)
      /\ body.revocationKey # Absent
      /\ body.revocationKey.key = target.digest.commitment
      /\ ~IsPremature(body.timestamp_ms, now)

\* The ways to go through the positions M in their order: there is one.
InOrder(M) ==
  { f \in [ 1..Cardinality(M) -> M ] :
      \A m, n \in 1..Cardinality(M) : m < n => f[m] < f[n] }

BySubject(e) ==
  SignedBy(e, target.digest.root) \/ SignedBy(e, target.digest.commitment)

\* Envelopes that neither key of the target DID signed leave no trace in the
\* winner or the sticky state, wherever they stand in the list.
StrangersChangeNothing ==
  pc = "done" =>
    \A f \in InOrder({ k \in DOMAIN candidates : BySubject(candidates[k]) }) :
      \A answer \in { Select([ m \in DOMAIN f |-> candidates[f[m]] ], now, sticky) } :
        /\ winner = answer.winner
        /\ rootRevoked <=> answer.root_revoked
=============================================================================
