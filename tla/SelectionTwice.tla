---------------------------- MODULE SelectionTwice ----------------------------
(***************************************************************************)
(* Two calls of select_current at one clock and sticky state, the second   *)
(* on the same envelopes as they might have arrived instead: in another    *)
(* order, or some of them again.  What a result may owe to the arrival     *)
(* order becomes an invariant that relates it to the first call's result.  *)
(***************************************************************************)
EXTENDS Selection

VARIABLE first     \* the result of the first call, NoResult while it runs

TwiceInit == Init /\ first = NoResult

RunCall == Next /\ UNCHANGED first

CallAgain ==
  /\ pc = "done"
  /\ first = NoResult
  /\ first' = result
  /\ \E c \in CandidateLists :
       /\ { c[k] : k \in DOMAIN c } = { candidates[k] : k \in DOMAIN candidates }
       /\ candidates' = c
  /\ pc' = "verify"
  /\ i' = 1
  /\ verified' = << >> /\ errors' = << >> /\ outcomes' = << >>
  /\ rootRevoked' = FALSE /\ winnerAssigned' = FALSE
  /\ winner' = NoRecord
  /\ UNCHANGED << now, sticky >>

TwiceNext == RunCall \/ CallAgain

TwiceSpec == TwiceInit /\ [][TwiceNext]_<< vars, first >>

BothReturned == pc = "done" /\ first # NoResult

\* Neither the order in which candidates arrive nor their repetition decides
\* which body select_current returns, or whether it returns one.
SameWinningBody ==
  BothReturned =>
    /\ winner = NoRecord <=> first.winner = NoRecord
    /\ winner # NoRecord => winner.body_digest = first.winner.body_digest

\* Nor do they decide the sticky state the caller is to carry forward.
SameAuthorityState == BothReturned => (rootRevoked <=> first.root_revoked)

\* The code select_current gives a record does not depend on the arrival order
\* either, except that each copy of the winning body may be the one that comes
\* first and is marked the winner.
SameClassification ==
  BothReturned =>
    \A j \in DOMAIN outcomes, k \in DOMAIN first.outcomes :
      outcomes[j].record # NoRecord /\ outcomes[j].record = first.outcomes[k].record
        => \/ outcomes[j].error = first.outcomes[k].error
           \/ { outcomes[j].error, first.outcomes[k].error }
                = { NoError, "duplicate" }

\* What selection.py says of itself (lines 4 to 6): candidate arrival order
\* never affects the winner.  Of two envelopes with one body it returns the
\* one that came first, so their order does.
WinnerArrivalOrderFree == BothReturned => winner = first.winner
=============================================================================
