----------------------------- MODULE Publication -----------------------------
(***************************************************************************)
(* The two ends of the protocol together: the records of one identity,     *)
(* stamped by next_timestamp on any of its devices (Signer), and a         *)
(* recipient that calls select_current (SelectionRules) now and then.      *)
(*                                                                         *)
(* What lies between is not in the repository.  Records reach the          *)
(* recipient in any order, late or never; it may forget a candidate, and   *)
(* receive it again; its clock may be corrected.  It hands the candidates  *)
(* it holds to select_current in the order they arrived, and carries       *)
(* root_revoked forward as select_current's docstring demands.             *)
(***************************************************************************)
EXTENDS Signer, SelectionRules, SequencesExt

\* The candidates are records that verify, each in one envelope, which stands
\* for its body.
ASSUME PublicationAssumption ==
  /\ Envelopes = Digests
  /\ \A d \in Digests : VerifyError[d] = NoError /\ BodyDigest[d] = d

VARIABLES
  bodies,      \* the digest of the record that each call of the history stamped,
               \* NoRecord for one that raised
  clock,       \* the recipient's clock
  held,        \* the candidates it holds, in the order they arrived
  sticky,      \* the sticky state it carries
  current,     \* the record it takes for current, or NoRecord
  answered     \* whether it took it from what it holds and its clock shows now

vars == << history, bodies, clock, held, sticky, current, answered >>

Published == { bodies[k] : k \in Issued }

PublicationInit ==
  /\ Init
  /\ bodies = << >>
  /\ clock \in Clocks
  /\ held = << >>
  /\ sticky = FALSE
  /\ current = NoRecord
  /\ answered = FALSE

\* The signer of a body is one for its authority value: a root record and a
\* root-revoked one take their timestamps from the same calls.
Publish ==
  /\ Next
  /\ LET call == history'[Len(history')] IN
     \/ /\ call.error = NoError
        /\ \E d \in Digests \ Published :
             Timestamp[d] = call.timestamp /\ bodies' = Append(bodies, d)
     \/ call.error # NoError /\ bodies' = Append(bodies, NoRecord)
  /\ UNCHANGED << clock, held, sticky, current, answered >>

Held == { held[k] : k \in DOMAIN held }

Deliver ==
  /\ \E d \in Published \ Held : held' = Append(held, d)
  /\ answered' = FALSE
  /\ UNCHANGED << history, bodies, clock, sticky, current >>

Forget ==
  /\ \E k \in DOMAIN held : held' = RemoveAt(held, k)
  /\ answered' = FALSE
  /\ UNCHANGED << history, bodies, clock, sticky, current >>

CorrectClock ==
  /\ clock' \in Clocks \ { clock }
  /\ answered' = FALSE
  /\ UNCHANGED << history, bodies, held, sticky, current >>

\* Variant: the caller passes no sticky state, the parameter's default.
ResolveForgetful ==
  LET answer == Select(held, clock, FALSE) IN
  /\ current' = answer.winner
  /\ sticky' = answer.root_revoked

Resolve ==
  LET answer == Select(held, clock, sticky) IN
  /\ current' = answer.winner
  /\ sticky' = answer.root_revoked

ResolveHeld ==
  /\ Resolve
  /\ answered' = TRUE
  /\ UNCHANGED << history, bodies, clock, held >>

PublicationNext == Publish \/ Deliver \/ Forget \/ CorrectClock \/ ResolveHeld

PublicationSpec == PublicationInit /\ [][PublicationNext]_vars

\* What is at hand to be received is received, time goes on, and the recipient
\* keeps resolving.
Tick == CorrectClock /\ clock' = clock + 1

FairSpec ==
  PublicationSpec /\ WF_vars(Deliver) /\ WF_vars(Tick) /\ []<>answered

----------------------------------------------------------------------------
(* Properties.                                                             *)

IsRoot(d) == Authority[d] = AUTHORITY_ROOT
Newer(d, x) ==
  Timestamp[d] > Timestamp[x] \/ (Timestamp[d] = Timestamp[x] /\ d < x)

Timely(d) == ~IsPremature(Timestamp[d], clock)

\* Once a recipient that carries root_revoked forward has learned of a revocation,
\* select_current never again gives it a root record, though the record that
\* revoked is forgotten, or premature after a correction of the clock.
RevokedForGood ==
  [][sticky => /\ sticky'
               /\ (current' # NoRecord /\ current' # current
                     => current'.authority = AUTHORITY_ROOT_REVOKED)]_vars

\* A recipient that holds a record it may use does not come back to one its signer
\* knew of and meant to replace, however the candidates arrived; only a
\* predecessor that led the signer's clock can still win.
NoReturnToPredecessor ==
  [][current' # current /\ current' # NoRecord =>
       \A k \in Issued : \A j \in history[k].known :
         (/\ bodies[k] \in Held /\ Timely(bodies[k])
          /\ Authority[bodies[k]] = current'.authority
          /\ history[j].timestamp <= history[k].now)
           => bodies[j] # current'.body_digest]_vars

\* A device whose clock leads does not get the records of the others refused: once
\* select_current has been called with a record stamped by a clock that leads the
\* recipient's by less than the skew, it gives that record or one that beats it,
\* or has learned of a revocation.  Whether next_timestamp was passed the fast
\* device's timestamp is up to its caller, who must leave it out.
UsableAtOnce ==
  answered =>
    \A k \in Issued :
      LET d == bodies[k] IN
      d \in Held /\ history[k].now < clock + MAX_FUTURE_SKEW_MS =>
        \/ IsRoot(d) /\ sticky
        \/ /\ current # NoRecord
           /\ current.authority = Authority[d]
           /\ ~Newer(d, current.body_digest)

\* As long as the record it takes for current is at hand and not premature, the
\* recipient only ever moves to one that beats it, or to revocation.
AtHand == /\ current # NoRecord
          /\ current.body_digest \in Held /\ Timely(current.body_digest)

NoRollback ==
  [][AtHand /\ current' # current =>
       /\ current' # NoRecord
       /\ \/ current'.body_digest = current.body_digest
          \/ Newer(current'.body_digest, current.body_digest)
          \/ IsRoot(current.body_digest) /\ sticky']_vars

\* What everyone should come to take for current: of the revoked records, or of the
\* root ones if there is none, the one with the greatest timestamp and then the
\* lowest digest.
IsNewest(d) ==
  LET revoked == { x \in Published : ~IsRoot(x) }
      among   == IF revoked # {} THEN revoked ELSE Published
  IN
  /\ d \in among
  /\ \A x \in among \ { d } : Newer(d, x)

\* Recipients agree in the end: once a recipient forgets nothing and its clock is
\* corrected back no more, select_current settles on the one record determined by
\* what was published, in whatever order it arrived and whatever was current before.
Settled == Held \subseteq Held' /\ clock <= clock'

Converges ==
  <>[][Settled]_vars =>
    <>[](Published # {} => current # NoRecord /\ IsNewest(current.body_digest))
=============================================================================
