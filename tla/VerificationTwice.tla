--------------------------- MODULE VerificationTwice ---------------------------
(***************************************************************************)
(* Two calls of verify_full_record on one envelope, the second against     *)
(* another target or at another time: what selection and caching assume    *)
(* when they treat the verdict as a property of the envelope.              *)
(***************************************************************************)
EXTENDS Verification

VARIABLE first     \* [target, now, result] of the first call, or Absent

TwiceInit == Init /\ first = Absent

RunCall == Next /\ UNCHANGED first

CallAgain ==
  /\ result # Absent
  /\ first = Absent
  /\ first' = [ target |-> target, now |-> now, result |-> result ]
  /\ target' \in Targets
  /\ now' \in Clocks
  /\ step' = "size"
  /\ error' = NoError
  /\ signingKey' = Absent
  /\ record' = Absent
  /\ UNCHANGED envelope

TwiceNext == RunCall \/ CallAgain

TwiceSpec == TwiceInit /\ [][TwiceNext]_<< vars, first >>

BothEnded == result # Absent /\ first # Absent

\* An envelope accepted for one DID is refused for every other, and for that
\* reason alone: the verifier cannot be made to attribute a record to a DID
\* whose descriptor it does not carry.
AcceptedForOneTarget ==
  BothEnded /\ first.result.error = NoError /\ target # first.target =>
    error = IF target.form # NoError THEN target.form
                                     ELSE "identityBindingMismatch"

\* The clock decides the classification of a record, never the verdict: what
\* was refused stays refused, with one code, and what was accepted comes back
\* with the same content.
VerdictClockFree ==
  BothEnded /\ target = first.target =>
    /\ error = first.result.error
    /\ error = NoError =>
         [ record EXCEPT !.premature = FALSE, !.stale = FALSE ]
           = [ first.result.record EXCEPT !.premature = FALSE, !.stale = FALSE ]

\* As the clock advances an accepted record goes from premature to fresh to
\* stale and not back, and is never both premature and stale.
ClassificationAdvances ==
  BothEnded /\ target = first.target /\ error = NoError /\ first.now <= now =>
    /\ record.premature => first.result.record.premature
    /\ first.result.record.stale => record.stale
    /\ ~(record.premature /\ record.stale)
=============================================================================
