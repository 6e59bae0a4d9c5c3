------------------------------ MODULE Selection ------------------------------
(***************************************************************************)
(* select_current of followee_model/selection.py, one action per branch of *)
(* each of its loops: verify every candidate, update the sticky state,     *)
(* pick the winner, classify every candidate.                              *)
(***************************************************************************)
EXTENDS SelectionRules

CONSTANTS
  CandidateLists,  \* the lists a caller may pass
  Clocks,          \* the values of now_ms
  NoResult         \* a call that has not returned

ASSUME CallAssumption ==
  /\ CandidateLists \subseteq Seq(Envelopes)
  /\ Clocks \subseteq Nat

VARIABLES
  candidates,      \* the argument candidate_envelopes
  now,             \* the argument now_ms
  sticky,          \* the argument sticky_root_revoked
  pc,              \* the loop being executed
  i,               \* the position that loop looks at next
  verified,        \* the records so far, NoRecord where verification failed
  errors,          \* the codes so far, NoError where it succeeded
  rootRevoked,     \* the updated sticky state
  winner,          \* the best record so far, or NoRecord
  winnerAssigned,  \* has an outcome been marked as the winner?
  outcomes         \* the outcomes so far

arguments == << candidates, now, sticky >>
vars == << candidates, now, sticky, pc, i, verified, errors, rootRevoked,
           winner, winnerAssigned, outcomes >>

Phases == { "verify", "pick", "classify", "done" }

Init ==
  /\ candidates \in CandidateLists
  /\ now \in Clocks
  /\ sticky \in BOOLEAN
  /\ pc = "verify"
  /\ i = 1
  /\ verified = << >>
  /\ errors = << >>
  /\ rootRevoked = FALSE
  /\ winner = NoRecord
  /\ winnerAssigned = FALSE
  /\ outcomes = << >>

More(phase) == pc = phase /\ i <= Len(candidates)
Over(phase) == pc = phase /\ i > Len(candidates)
Goto(phase) == pc' = phase /\ i' = 1
Advance     == i' = i + 1 /\ UNCHANGED pc

----------------------------------------------------------------------------
(* The first loop: every candidate is verified on its own.                 *)

VerifyCandidate ==
  /\ More("verify")
  /\ Accepted(candidates[i])
  /\ verified' = Append(verified, VerifiedRecord(candidates[i], now))
  /\ errors' = Append(errors, NoError)
  /\ Advance
  /\ UNCHANGED << arguments, rootRevoked, winner, winnerAssigned, outcomes >>

RejectCandidate ==
  /\ More("verify")
  /\ ~Accepted(candidates[i])
  /\ verified' = Append(verified, NoRecord)
  /\ errors' = Append(errors, VerifyError[candidates[i]])
  /\ Advance
  /\ UNCHANGED << arguments, rootRevoked, winner, winnerAssigned, outcomes >>

----------------------------------------------------------------------------
(* Sticky RootRevoked state is carried in, or activated by a record that   *)
(* is not premature; staleness does not matter.                            *)

\* Variant: a stale record does not activate.
ActivatesFresh(rec) ==
  /\ rec # NoRecord
  /\ rec.authority = AUTHORITY_ROOT_REVOKED
  /\ ~rec.premature
  /\ ~rec.stale

Activates(rec) ==
  /\ rec # NoRecord
  /\ rec.authority = AUTHORITY_ROOT_REVOKED
  /\ ~rec.premature

\* Variant: the state carried in is forgotten.
UpdateAuthorityStateForgets ==
  /\ Over("verify")
  /\ rootRevoked' = \E k \in DOMAIN verified : Activates(verified[k])
  /\ Goto("pick")
  /\ UNCHANGED << arguments, verified, errors, winner, winnerAssigned, outcomes >>

\* Variant: each candidate overwrites what the one before it decided.
UpdateAuthorityStateLast ==
  /\ Over("verify")
  /\ rootRevoked' = (sticky \/ (verified # << >> /\ Activates(verified[Len(verified)])))
  /\ Goto("pick")
  /\ UNCHANGED << arguments, verified, errors, winner, winnerAssigned, outcomes >>

UpdateAuthorityState ==
  /\ Over("verify")
  /\ rootRevoked' = (sticky \/ \E k \in DOMAIN verified : Activates(verified[k]))
  /\ Goto("pick")
  /\ UNCHANGED << arguments, verified, errors, winner, winnerAssigned, outcomes >>

----------------------------------------------------------------------------
(* The second loop: the winner is the best applicable record.              *)

\* Variant: records of both authority states compete.
ApplicableAnyAuthority(rec) == rec # NoRecord /\ ~rec.premature

Applicable(rec) ==
  /\ rec # NoRecord
  /\ ~rec.premature
  /\ rec.authority = ApplicableAuthority(rootRevoked)

BeatsWinner(rec) == IF winner = NoRecord THEN TRUE ELSE Beats(rec, winner)

TakeWinner ==
  /\ More("pick")
  /\ Applicable(verified[i])
  /\ BeatsWinner(verified[i])
  /\ winner' = verified[i]
  /\ Advance
  /\ UNCHANGED << arguments, verified, errors, rootRevoked, winnerAssigned, outcomes >>

KeepWinner ==
  /\ More("pick")
  /\ Applicable(verified[i])
  /\ ~BeatsWinner(verified[i])
  /\ Advance
  /\ UNCHANGED << arguments, verified, errors, rootRevoked, winner,
                  winnerAssigned, outcomes >>

PassOver ==
  /\ More("pick")
  /\ ~Applicable(verified[i])
  /\ Advance
  /\ UNCHANGED << arguments, verified, errors, rootRevoked, winner,
                  winnerAssigned, outcomes >>

StartClassify ==
  /\ Over("pick")
  /\ Goto("classify")
  /\ UNCHANGED << arguments, verified, errors, rootRevoked, winner,
                  winnerAssigned, outcomes >>

----------------------------------------------------------------------------
(* The third loop: one outcome per candidate, in the order of the list.    *)

Classify(error, won) ==
  /\ outcomes' = Append(outcomes, Outcome(verified[i], error, won))
  /\ Advance
  /\ UNCHANGED << arguments, verified, errors, rootRevoked, winner >>

\* The record reaches the comparison with the winner.
Contends(rec) ==
  /\ rec # NoRecord
  /\ ~rec.premature
  /\ ~(rootRevoked /\ rec.authority = AUTHORITY_ROOT)

\* Variant: copies of the body under other signatures are losers.
HasWinningEnvelope(rec) ==
  winner # NoRecord /\ rec.envelope = winner.envelope

HasWinningBody(rec) ==
  winner # NoRecord /\ rec.body_digest = winner.body_digest

ClassifyInvalid ==
  /\ More("classify")
  /\ verified[i] = NoRecord
  /\ Classify(errors[i], FALSE)
  /\ UNCHANGED winnerAssigned

ClassifyPremature ==
  /\ More("classify")
  /\ verified[i] # NoRecord
  /\ verified[i].premature
  /\ Classify("premature", FALSE)
  /\ UNCHANGED winnerAssigned

ClassifyRootRevoked ==
  /\ More("classify")
  /\ verified[i] # NoRecord
  /\ ~verified[i].premature
  /\ rootRevoked /\ verified[i].authority = AUTHORITY_ROOT
  /\ Classify("rootRevoked", FALSE)
  /\ UNCHANGED winnerAssigned

ClassifyWinner ==
  /\ More("classify")
  /\ Contends(verified[i])
  /\ HasWinningBody(verified[i])
  /\ ~winnerAssigned
  /\ Classify(NoError, TRUE)
  /\ winnerAssigned' = TRUE

ClassifyDuplicate ==
  /\ More("classify")
  /\ Contends(verified[i])
  /\ HasWinningBody(verified[i])
  /\ winnerAssigned
  /\ Classify("duplicate", FALSE)
  /\ UNCHANGED winnerAssigned

ClassifyLosing ==
  /\ More("classify")
  /\ Contends(verified[i])
  /\ ~HasWinningBody(verified[i])
  /\ Classify("losingRecord", FALSE)
  /\ UNCHANGED winnerAssigned

ReturnResult ==
  /\ Over("classify")
  /\ pc' = "done"
  /\ UNCHANGED << arguments, i, verified, errors, rootRevoked, winner,
                  winnerAssigned, outcomes >>

Next ==
  \/ VerifyCandidate \/ RejectCandidate
  \/ UpdateAuthorityState
  \/ TakeWinner \/ KeepWinner \/ PassOver
  \/ StartClassify
  \/ ClassifyInvalid \/ ClassifyPremature \/ ClassifyRootRevoked
  \/ ClassifyWinner \/ ClassifyDuplicate \/ ClassifyLosing
  \/ ReturnResult

Spec == Init /\ [][Next]_vars

\* The call's result, once it has returned.
result ==
  IF pc = "done"
  THEN [ winner |-> winner, root_revoked |-> rootRevoked, outcomes |-> outcomes ]
  ELSE NoResult

Contract == INSTANCE SelectionContract

----------------------------------------------------------------------------
(* Invariants.                                                             *)

MaybeRecords == VerifiedRecords \cup { NoRecord }
Outcomes     == [ record : MaybeRecords, error : ErrorCodes, is_winner : BOOLEAN ]

\* The variables have their types, and the two parallel lists the first loop
\* of select_current builds stay aligned with the candidates.
TypeOK ==
  /\ candidates \in Seq(Envelopes)
  /\ now \in Nat
  /\ sticky \in BOOLEAN
  /\ pc \in Phases
  /\ i \in 1..(Len(candidates) + 1)
  /\ verified \in Seq(MaybeRecords)
  /\ errors \in Seq(ErrorCodes)
  /\ Len(verified) = Len(errors)
  /\ rootRevoked \in BOOLEAN
  /\ winner \in MaybeRecords
  /\ winnerAssigned \in BOOLEAN
  /\ outcomes \in Seq(Outcomes)

\* The first loop has recorded verify_full_record's verdict on each candidate
\* it has passed.
VerifiedInv ==
  /\ Len(verified) = IF pc = "verify" THEN i - 1 ELSE Len(candidates)
  /\ \A k \in 1..Len(verified) :
       /\ verified[k] = IF Accepted(candidates[k])
                        THEN RecordAt(candidates, now, k)
                        ELSE NoRecord
       /\ errors[k] = VerifyError[candidates[k]]

\* Past the first loop the sticky state is settled.
RevokedInv ==
  pc # "verify" => rootRevoked = RootRevokedBy(candidates, now, sticky)

\* The eligible positions among the first n.
EligibleUpTo(n) ==
  { k \in EligiblePositions(candidates, now, sticky) : k <= n }

WinnerIsBestOf(P) ==
  \/ P = {} /\ winner = NoRecord
  \/ \E k \in P : /\ IsFirstBest(candidates, now, P, k)
                  /\ winner = RecordAt(candidates, now, k)

\* The winner so far is the first best of the eligible records looked at.
WinnerInv ==
  /\ pc = "verify" => winner = NoRecord
  /\ pc = "pick"   => WinnerIsBestOf(EligibleUpTo(i - 1))
  /\ pc \in {"classify", "done"} =>
       WinnerIsBestOf(EligiblePositions(candidates, now, sticky))

\* The third loop has given the promised outcome to each candidate it passed,
\* and has marked the winner once it is behind.
OutcomesInv ==
  /\ pc \in {"verify", "pick"} => outcomes = << >> /\ ~winnerAssigned
  /\ pc \in {"classify", "done"} =>
       /\ Len(outcomes) = i - 1
       /\ \A k \in 1..(i - 1) :
            outcomes[k] = OutcomeAt(candidates, now, sticky, k)
       /\ winnerAssigned <=> WinnerPosition(candidates, now, sticky) \in 1..(i - 1)
  /\ pc = "done" => i = Len(candidates) + 1

\* Inductive: each loop of select_current has done its part of the result for
\* the candidates behind it.
SelectionInv ==
  /\ TypeOK
  /\ VerifiedInv
  /\ RevokedInv
  /\ WinnerInv
  /\ OutcomesInv

\* The second and the third loop of select_current agree: a winner is returned
\* exactly when one outcome, and only one, is marked as the winner, and it is
\* the outcome of the very record returned.
OneWinnerOutcome ==
  pc = "done" =>
    LET won == { k \in DOMAIN outcomes : outcomes[k].is_winner } IN
    IF winner = NoRecord
    THEN won = {}
    ELSE \E k \in DOMAIN outcomes :
           won = {k} /\ outcomes[k].record = winner

\* CandidateOutcome.error is None for the winner and for no other candidate,
\* so a caller may read either field.
NoErrorOnlyForWinner ==
  pc = "done" =>
    \A k \in DOMAIN outcomes :
      outcomes[k].is_winner <=> outcomes[k].error = NoError

\* The loops of select_current compute what SelectionRules states, whatever the
\* list, the clock and the sticky state.
ImplementsContract == Contract!CallSpec
=============================================================================
