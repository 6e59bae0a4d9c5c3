--------------------------- MODULE SelectionRules ---------------------------
(***************************************************************************)
(* What select_current promises, stated without its loops: the winner, the *)
(* updated sticky state and the outcome of every candidate as functions of *)
(* the call's arguments.                                                   *)
(***************************************************************************)
EXTENDS Records

(* c is the candidate list, t the recipient clock, s the sticky state in.  *)

RecordAt(c, t, k) == VerifiedRecord(c[k], t)

\* Positions whose candidate verifies and is not premature for the recipient.
TimelyPositions(c, t) ==
  { k \in DOMAIN c : Accepted(c[k]) /\ ~RecordAt(c, t, k).premature }

\* Sticky RootRevoked state: learned before, or revealed by a timely candidate.
RootRevokedBy(c, t, s) ==
  s \/ \E k \in TimelyPositions(c, t) :
         RecordAt(c, t, k).authority = AUTHORITY_ROOT_REVOKED

ApplicableAuthority(revoked) ==
  IF revoked THEN AUTHORITY_ROOT_REVOKED ELSE AUTHORITY_ROOT

EligiblePositions(c, t, s) ==
  { k \in TimelyPositions(c, t) :
      RecordAt(c, t, k).authority = ApplicableAuthority(RootRevokedBy(c, t, s)) }

\* k holds the best record among the positions P, and is the first of those
\* that hold its body.
IsFirstBest(c, t, P, k) ==
  /\ k \in P
  /\ \A j \in P : ~Beats(RecordAt(c, t, j), RecordAt(c, t, k))
  /\ \A j \in P :
       RecordAt(c, t, j).body_digest = RecordAt(c, t, k).body_digest => k <= j

\* 0 when no candidate is eligible.
WinnerPosition(c, t, s) ==
  LET P == EligiblePositions(c, t, s) IN
  IF P = {} THEN 0 ELSE CHOOSE k \in P : IsFirstBest(c, t, P, k)

Outcome(record, error, won) ==
  [ record |-> record, error |-> error, is_winner |-> won ]

OutcomeAt(c, t, s, k) ==
  LET w   == WinnerPosition(c, t, s)
      rec == RecordAt(c, t, k)
  IN
  IF ~Accepted(c[k])                       THEN Outcome(NoRecord, VerifyError[c[k]], FALSE)
  ELSE IF k \notin TimelyPositions(c, t)   THEN Outcome(rec, "premature", FALSE)
  ELSE IF k \notin EligiblePositions(c, t, s) THEN Outcome(rec, "rootRevoked", FALSE)
  ELSE IF k = w                            THEN Outcome(rec, NoError, TRUE)
  ELSE IF rec.body_digest = RecordAt(c, t, w).body_digest
                                           THEN Outcome(rec, "duplicate", FALSE)
  ELSE Outcome(rec, "losingRecord", FALSE)

Select(c, t, s) ==
  LET w == WinnerPosition(c, t, s) IN
  [ winner       |-> IF w = 0 THEN NoRecord ELSE RecordAt(c, t, w),
    root_revoked |-> RootRevokedBy(c, t, s),
    outcomes     |-> [ k \in DOMAIN c |-> OutcomeAt(c, t, s, k) ] ]
=============================================================================
