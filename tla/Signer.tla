-------------------------------- MODULE Signer --------------------------------
(***************************************************************************)
(* followee_model/signing.py, next_timestamp, and the history its callers  *)
(* make with it.  Every record of an identity is stamped by one call.  Who *)
(* calls is not in the repository: several devices may hold the key, each  *)
(* with its own clock, which may be corrected backwards, and each knowing  *)
(* any part of what was issued so far.  So each call has any clock and any *)
(* known records, and passes on the greatest known timestamp that does not *)
(* lead its clock, as the docstring demands.                               *)
(***************************************************************************)
EXTENDS Basics, Sequences

CONSTANTS
  UINT64_MAX,    \* 2^64 - 1 in the code
  Clocks,        \* what a caller may pass as now_ms
  MaxCalls       \* bound on the history

ASSUME SignerAssumption == UINT64_MAX \in Nat /\ Clocks \subseteq Int /\ MaxCalls \in Nat

VARIABLE
  history        \* the calls so far: [now, known, error, timestamp]

Timestamps == 0..UINT64_MAX

\* In place of previous_ms = None, and of the timestamp of a call that raised.
NoTimestamp == -1

\* What a call of next_timestamp ends with: a timestamp, or an exception.
Returned(timestamp) == [ error |-> NoError, timestamp |-> timestamp ]
Raised(exception)   == [ error |-> exception, timestamp |-> NoTimestamp ]

\* Variant: the known timestamp itself is passed off as a new one.
NextReusingPrevious(now, previous) ==
  IF now \notin Timestamps THEN Raised("ValueError")
  ELSE IF previous > now THEN Returned(previous) ELSE Returned(now)

\* Variant: the last timestamp is never given out.
NextStoppingEarly(now, previous) ==
  IF now \notin Timestamps         THEN Raised("ValueError")
  ELSE IF previous = NoTimestamp   THEN Returned(now)
  ELSE IF previous + 1 >= UINT64_MAX THEN Raised("OverflowError")
  ELSE Returned(IF previous + 1 > now THEN previous + 1 ELSE now)

NextTimestamp(now, previous) ==
  IF now \notin Timestamps           THEN Raised("ValueError")
  ELSE IF previous = NoTimestamp     THEN Returned(now)
  ELSE IF previous \notin Timestamps THEN Raised("ValueError")
  ELSE IF previous + 1 > UINT64_MAX  THEN Raised("OverflowError")
  ELSE Returned(IF previous + 1 > now THEN previous + 1 ELSE now)

----------------------------------------------------------------------------
Issued == { k \in DOMAIN history : history[k].error = NoError }

\* Variant: the caller does not exclude the timestamps that lead its clock.
UsableOfAll(K, now) == { history[k].timestamp : k \in K }

\* The timestamps of the calls K that do not lead the clock.
Usable(K, now) == { history[k].timestamp : k \in K } \cap { x \in Timestamps : x <= now }

\* previous_ms: the greatest usable timestamp, None when there is none.
IsPrevious(previous, K, now) ==
  IF Usable(K, now) = {} THEN previous = NoTimestamp
  ELSE previous \in Usable(K, now) /\ \A x \in Usable(K, now) : x <= previous

Init == history = << >>

Call(now, K, previous) ==
  /\ Len(history) < MaxCalls
  /\ IsPrevious(previous, K, now)
  /\ LET answer == NextTimestamp(now, previous) IN
     history' = Append(history, [ now |-> now, known |-> K, error |-> answer.error,
                                  timestamp |-> answer.timestamp ])

Next ==
  \E now \in Clocks, K \in SUBSET Issued, previous \in Timestamps \cup { NoTimestamp } :
    Call(now, K, previous)

Spec == Init /\ [][Next]_history

----------------------------------------------------------------------------
(* Properties.                                                             *)

TypeOK ==
  /\ history \in Seq([ now : Clocks, known : SUBSET Nat,
                       error : { NoError, "ValueError", "OverflowError" },
                       timestamp : Timestamps \cup { NoTimestamp } ])
  /\ \A k \in DOMAIN history :
       /\ \A j \in history[k].known : j \in 1..k-1 /\ history[j].error = NoError
       /\ history[k].error = NoError <=> history[k].timestamp # NoTimestamp

\* A record is stamped later than every record its signer knew of, unless that
\* one led the signer's clock: only such a record can be reached or overtaken by
\* a later one, as after a clock was corrected backwards, or at the third call
\* within one millisecond.
LaterThanKnown ==
  \A k \in Issued : \A j \in history[k].known :
    history[j].timestamp <= history[k].now => history[j].timestamp < history[k].timestamp

\* No timestamp leads the clock of the call that made it by more than one, so
\* whatever the other devices' clocks said, a chain of calls does not run ahead
\* of every clock.
NeverRunsAhead ==
  \A k \in Issued : /\ history[k].now <= history[k].timestamp
                    /\ history[k].timestamp <= history[k].now + 1

\* No device can use up the timestamps of another: a call fails only at a clock
\* out of range, or at the last clock value when the last timestamp is known.
ExhaustedOnlyAtTheEnd ==
  \A k \in DOMAIN history \ Issued :
    \/ history[k].now \notin Timestamps
    \/ /\ history[k].now = UINT64_MAX
       /\ \E j \in history[k].known : history[j].timestamp = UINT64_MAX
=============================================================================
