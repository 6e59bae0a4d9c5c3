---------------------------- MODULE SelectionProofs ----------------------------
(***************************************************************************)
(* Proofs about Selection for every set of envelopes, every list a caller  *)
(* may pass and every clock: SelectionInv is inductive, and the properties *)
(* of the result and the refinement of SelectionContract follow from it.   *)
(* Then about two calls on two lists of the same envelopes: neither the    *)
(* winning body, nor the sticky state, nor the code given to a record      *)
(* depends on the arrival order or on repetition.                          *)
(***************************************************************************)
EXTENDS SelectionTwice, TLAPS

----------------------------------------------------------------------------
(* Records and their order.                                                *)

\* verify_full_record returns a well-formed record, never None.
LEMMA VerifiedRecordType ==
  ASSUME NEW e \in Envelopes, NEW t \in Nat
  PROVE  /\ VerifiedRecord(e, t) \in VerifiedRecords
         /\ VerifiedRecord(e, t) # NoRecord
<1>1. BodyDigest[e] \in Digests
  BY RecordsAssumption
<1>2. /\ Timestamp[BodyDigest[e]] \in Nat
      /\ Authority[BodyDigest[e]] \in {AUTHORITY_ROOT, AUTHORITY_ROOT_REVOKED}
  BY <1>1, RecordsAssumption
<1>3. /\ IsPremature(Timestamp[BodyDigest[e]], t) \in BOOLEAN
      /\ IsStale(ValidUntil[BodyDigest[e]], t) \in BOOLEAN
  BY DEF IsPremature, IsStale
<1>4. VerifiedRecord(e, t) \in VerifiedRecords
  BY <1>1, <1>2, <1>3 DEF VerifiedRecord, VerifiedRecords
<1>. QED
  BY <1>4, RecordsAssumption

\* _beats is the strict order that a sort key would give: it has no cycles,
\* and two records of which neither beats the other have one body.
LEMMA BeatsIsStrictOrder ==
  ASSUME NEW a \in VerifiedRecords, NEW b \in VerifiedRecords,
         NEW c \in VerifiedRecords
  PROVE  /\ ~Beats(a, a)
         /\ Beats(a, b) /\ Beats(b, c) => Beats(a, c)
         /\ ~Beats(a, b) /\ ~Beats(b, a) => a.body_digest = b.body_digest
<1>1. Digests \subseteq Nat
  BY RecordsAssumption
<1>2. \A r \in VerifiedRecords : r.timestamp_ms \in Nat /\ r.body_digest \in Nat
  BY <1>1 DEF VerifiedRecords
<1>3. /\ a.timestamp_ms \in Nat /\ b.timestamp_ms \in Nat /\ c.timestamp_ms \in Nat
      /\ a.body_digest \in Nat /\ b.body_digest \in Nat /\ c.body_digest \in Nat
  BY <1>2
<1>. QED
  BY <1>3 DEF Beats

\* Records of one body at one clock agree in what _beats looks at.
LEMMA SameBodySameRank ==
  ASSUME NEW d \in Envelopes, NEW e \in Envelopes, NEW f \in Envelopes,
         NEW t \in Nat,
         VerifiedRecord(d, t).body_digest = VerifiedRecord(e, t).body_digest
  PROVE  Beats(VerifiedRecord(d, t), VerifiedRecord(f, t))
           <=> Beats(VerifiedRecord(e, t), VerifiedRecord(f, t))
  BY DEF Beats, VerifiedRecord

----------------------------------------------------------------------------
(* The winner among a set of positions.                                    *)

\* The winning position is unique.
LEMMA FirstBestUnique ==
  ASSUME NEW c \in Seq(Envelopes), NEW t \in Nat, NEW P \in SUBSET DOMAIN c,
         NEW j \in P, NEW k \in P,
         IsFirstBest(c, t, P, j), IsFirstBest(c, t, P, k)
  PROVE  j = k
<1>1. /\ RecordAt(c, t, j) \in VerifiedRecords
      /\ RecordAt(c, t, k) \in VerifiedRecords
  BY VerifiedRecordType DEF RecordAt
<1>2. RecordAt(c, t, j).body_digest = RecordAt(c, t, k).body_digest
  BY <1>1, BeatsIsStrictOrder DEF IsFirstBest
<1>3. j <= k /\ k <= j
  BY <1>2 DEF IsFirstBest
<1>4. j \in Nat /\ k \in Nat
  OBVIOUS
<1>. QED
  BY <1>3, <1>4

\* A later position takes over exactly when its record beats the best so far.
LEMMA FirstBestStep ==
  ASSUME NEW c \in Seq(Envelopes), NEW t \in Nat, NEW P \in SUBSET DOMAIN c,
         NEW k \in P, IsFirstBest(c, t, P, k),
         NEW n \in DOMAIN c, \A j \in P : j < n
  PROVE  IsFirstBest(c, t, P \cup {n},
           IF Beats(RecordAt(c, t, n), RecordAt(c, t, k)) THEN n ELSE k)
<1>. DEFINE R(j) == RecordAt(c, t, j)
<1>1. \A j \in P \cup {n} : /\ c[j] \in Envelopes
                            /\ R(j) \in VerifiedRecords
                            /\ j \in Nat
  BY VerifiedRecordType DEF RecordAt
<1>2. /\ \A j \in P : ~Beats(R(j), R(k))
      /\ \A j \in P : R(j).body_digest = R(k).body_digest => k <= j
  BY DEF IsFirstBest
<1>3. CASE Beats(R(n), R(k))
  <2>1. \A j \in P \cup {n} : ~Beats(R(j), R(n))
    BY <1>1, <1>2, <1>3, BeatsIsStrictOrder
  <2>2. \A j \in P : R(j).body_digest # R(n).body_digest
    BY <1>1, <1>2, <1>3, SameBodySameRank DEF RecordAt
  <2>3. \A j \in P \cup {n} : R(j).body_digest = R(n).body_digest => n <= j
    BY <1>1, <2>2
  <2>. QED
    BY <1>3, <2>1, <2>3 DEF IsFirstBest
<1>4. CASE ~Beats(R(n), R(k))
  <2>1. k <= n
    BY <1>1
  <2>. QED
    BY <1>2, <1>4, <2>1 DEF IsFirstBest
<1>. QED
  BY <1>3, <1>4

\* The CHOOSE of WinnerPosition has one candidate.
LEMMA WinnerPositionIs ==
  ASSUME NEW c \in Seq(Envelopes), NEW t \in Nat, NEW s \in BOOLEAN,
         NEW k \in EligiblePositions(c, t, s),
         IsFirstBest(c, t, EligiblePositions(c, t, s), k)
  PROVE  WinnerPosition(c, t, s) = k
<1>. DEFINE P == EligiblePositions(c, t, s)
<1>1. P \in SUBSET DOMAIN c
  BY DEF EligiblePositions, TimelyPositions
<1>2. \A j \in P : IsFirstBest(c, t, P, j) => j = k
  BY <1>1, FirstBestUnique
<1>3. P # {} /\ k \in P
  OBVIOUS
<1>4. (CHOOSE j \in P : IsFirstBest(c, t, P, j)) = k
  BY <1>2, <1>3
<1>. QED
  BY <1>3, <1>4 DEF WinnerPosition

\* A timely record that sticky revocation does not exclude is eligible: past
\* the rootRevoked branch the third loop of select_current need not compare
\* the authority again.
LEMMA NotExcludedIsEligible ==
  ASSUME NEW c \in Seq(Envelopes), NEW t \in Nat, NEW s \in BOOLEAN,
         NEW k \in TimelyPositions(c, t)
  PROVE  k \in EligiblePositions(c, t, s)
           <=> ~( /\ RootRevokedBy(c, t, s)
                  /\ RecordAt(c, t, k).authority = AUTHORITY_ROOT )
<1>1. RecordAt(c, t, k).authority \in {AUTHORITY_ROOT, AUTHORITY_ROOT_REVOKED}
  <2>1. c[k] \in Envelopes
    BY DEF TimelyPositions
  <2>. QED
    BY <2>1, VerifiedRecordType DEF RecordAt, VerifiedRecords
<1>2. RecordAt(c, t, k).authority = AUTHORITY_ROOT_REVOKED
        => RootRevokedBy(c, t, s)
  BY DEF RootRevokedBy
<1>. QED
  BY <1>1, <1>2 DEF EligiblePositions, ApplicableAuthority,
                    AUTHORITY_ROOT, AUTHORITY_ROOT_REVOKED

----------------------------------------------------------------------------
(* What the invariant says of the position a loop looks at.                *)

\* The record at a position of the first loop's result is there exactly when
\* its candidate was accepted, and is then RecordAt.
LEMMA VerifiedAt ==
  ASSUME TypeOK, VerifiedInv, pc # "verify", NEW k \in DOMAIN candidates
  PROVE  /\ k \in DOMAIN verified
         /\ verified[k] \in MaybeRecords
         /\ errors[k] = VerifyError[candidates[k]]
         /\ verified[k] = NoRecord <=> ~Accepted(candidates[k])
         /\ verified[k] # NoRecord =>
              /\ verified[k] = RecordAt(candidates, now, k)
              /\ verified[k] \in VerifiedRecords
              /\ k \in TimelyPositions(candidates, now) <=> ~verified[k].premature
<1>1. /\ k \in 1..Len(verified)
      /\ candidates[k] \in Envelopes
      /\ now \in Nat
  BY DEF TypeOK, VerifiedInv
<1>2. /\ verified[k] = IF Accepted(candidates[k])
                       THEN RecordAt(candidates, now, k)
                       ELSE NoRecord
      /\ errors[k] = VerifyError[candidates[k]]
  BY <1>1 DEF VerifiedInv
<1>3. /\ RecordAt(candidates, now, k) \in VerifiedRecords
      /\ RecordAt(candidates, now, k) # NoRecord
  BY <1>1, VerifiedRecordType DEF RecordAt
<1>4. k \in DOMAIN verified /\ verified[k] \in MaybeRecords
  BY <1>1, <1>2, <1>3 DEF TypeOK, MaybeRecords
<1>. QED
  BY <1>2, <1>3, <1>4 DEF TimelyPositions

\* In the second loop the records that pass both filters are the eligible ones.
LEMMA ApplicableIsEligible ==
  ASSUME TypeOK, VerifiedInv, RevokedInv, pc # "verify",
         NEW k \in DOMAIN candidates
  PROVE  Applicable(verified[k])
           <=> k \in EligiblePositions(candidates, now, sticky)
<1>1. rootRevoked = RootRevokedBy(candidates, now, sticky)
  BY DEF RevokedInv
<1>2. CASE verified[k] = NoRecord
  BY <1>2, VerifiedAt DEF Applicable, EligiblePositions, TimelyPositions
<1>3. CASE verified[k] # NoRecord
  BY <1>1, <1>3, VerifiedAt DEF Applicable, EligiblePositions
<1>. QED
  BY <1>2, <1>3

\* In the third loop the records that reach the comparison with the winner are
\* the eligible ones too, although the code tests their authority otherwise.
LEMMA ContendsIsEligible ==
  ASSUME TypeOK, VerifiedInv, RevokedInv, pc # "verify",
         NEW k \in DOMAIN candidates
  PROVE  Contends(verified[k])
           <=> k \in EligiblePositions(candidates, now, sticky)
<1>1. rootRevoked = RootRevokedBy(candidates, now, sticky)
  BY DEF RevokedInv
<1>2. CASE verified[k] = NoRecord
  BY <1>2, VerifiedAt DEF Contends, EligiblePositions, TimelyPositions
<1>3. CASE verified[k] # NoRecord /\ verified[k].premature
  BY <1>3, VerifiedAt DEF Contends, EligiblePositions
<1>4. CASE verified[k] # NoRecord /\ ~verified[k].premature
  <2>1. k \in TimelyPositions(candidates, now)
    BY <1>4, VerifiedAt
  <2>2. candidates \in Seq(Envelopes) /\ now \in Nat /\ sticky \in BOOLEAN
    BY DEF TypeOK
  <2>. QED
    BY <1>1, <1>4, <2>1, <2>2, VerifiedAt, NotExcludedIsEligible DEF Contends
<1>. QED
  BY <1>2, <1>3, <1>4

\* Past the second loop, winner is what WinnerPosition points at.
LEMMA WinnerAtWinnerPosition ==
  ASSUME TypeOK, WinnerInv, pc \in {"classify", "done"},
         NEW w, w = WinnerPosition(candidates, now, sticky)
  PROVE  \/ /\ EligiblePositions(candidates, now, sticky) = {}
            /\ w = 0
            /\ winner = NoRecord
         \/ /\ w \in EligiblePositions(candidates, now, sticky)
            /\ w \in DOMAIN candidates
            /\ IsFirstBest(candidates, now,
                           EligiblePositions(candidates, now, sticky), w)
            /\ winner = RecordAt(candidates, now, w)
            /\ winner # NoRecord
<1>. DEFINE P == EligiblePositions(candidates, now, sticky)
<1>1. candidates \in Seq(Envelopes) /\ now \in Nat /\ sticky \in BOOLEAN
  BY DEF TypeOK
<1>2. WinnerIsBestOf(P)
  BY DEF WinnerInv
<1>3. CASE P = {} /\ winner = NoRecord
  BY <1>3 DEF WinnerPosition
<1>4. CASE \E k \in P : /\ IsFirstBest(candidates, now, P, k)
                        /\ winner = RecordAt(candidates, now, k)
  <2>1. PICK k \in P : /\ IsFirstBest(candidates, now, P, k)
                       /\ winner = RecordAt(candidates, now, k)
    BY <1>4
  <2>2. w = k
    BY <1>1, <2>1, WinnerPositionIs
  <2>3. k \in DOMAIN candidates
    BY DEF EligiblePositions, TimelyPositions
  <2>4. winner # NoRecord
    <3>1. candidates[k] \in Envelopes
      BY <1>1, <2>3
    <3>. QED
      BY <1>1, <2>1, <3>1, VerifiedRecordType DEF RecordAt
  <2>. QED
    BY <2>1, <2>2, <2>3, <2>4
<1>. QED
  BY <1>2, <1>3, <1>4 DEF WinnerIsBestOf

----------------------------------------------------------------------------
(* The invariant.                                                          *)

\* A call starts with empty lists.
LEMMA InitInv == Init => SelectionInv
<1>. SUFFICES ASSUME Init PROVE SelectionInv
  OBVIOUS
<1>1. candidates \in Seq(Envelopes) /\ now \in Nat
  BY CallAssumption DEF Init
<1>2. TypeOK
  <2>1. i \in 1..(Len(candidates) + 1)
    BY <1>1 DEF Init
  <2>2. /\ verified \in Seq(MaybeRecords)
        /\ errors \in Seq(ErrorCodes)
        /\ outcomes \in Seq(Outcomes)
        /\ Len(verified) = Len(errors)
    BY DEF Init
  <2>3. winner \in MaybeRecords
    BY DEF Init, MaybeRecords
  <2>. QED
    BY <1>1, <2>1, <2>2, <2>3 DEF Init, TypeOK, Phases
<1>3. VerifiedInv /\ RevokedInv /\ WinnerInv /\ OutcomesInv
  BY DEF Init, VerifiedInv, RevokedInv, WinnerInv, OutcomesInv
<1>. QED
  BY <1>2, <1>3 DEF SelectionInv
\* The first loop: what is appended is the verdict on the candidate at i.
LEMMA FirstLoopInv ==
  ASSUME SelectionInv, VerifyCandidate \/ RejectCandidate
  PROVE  SelectionInv'
<1>1. /\ pc = "verify" /\ pc' = "verify"
      /\ i \in DOMAIN candidates /\ i \in Nat \ {0} /\ i' = i + 1
      /\ Len(candidates) \in Nat
      /\ i' \in 1..(Len(candidates) + 1)
      /\ UNCHANGED << arguments, rootRevoked, winner, winnerAssigned, outcomes >>
  BY DEF SelectionInv, TypeOK, VerifyCandidate, RejectCandidate, More, Advance
<1>2. candidates[i] \in Envelopes /\ now \in Nat
  BY <1>1 DEF SelectionInv, TypeOK
<1>. DEFINE rec == IF Accepted(candidates[i])
                   THEN RecordAt(candidates, now, i) ELSE NoRecord
<1>3. rec \in MaybeRecords
  BY <1>2, VerifiedRecordType DEF MaybeRecords, RecordAt
<1>4. VerifyError[candidates[i]] \in ErrorCodes
  BY <1>2, RecordsAssumption DEF ErrorCodes
<1>5. /\ verified' = Append(verified, rec)
      /\ errors' = Append(errors, VerifyError[candidates[i]])
  BY <1>2 DEF VerifyCandidate, RejectCandidate, Accepted, RecordAt
<1>6. /\ verified \in Seq(MaybeRecords) /\ errors \in Seq(ErrorCodes)
      /\ Len(verified) = i - 1 /\ Len(errors) = i - 1
  BY <1>1 DEF SelectionInv, TypeOK, VerifiedInv
<1>. HIDE DEF rec
<1>7. TypeOK'
  <2>1. /\ verified' \in Seq(MaybeRecords) /\ errors' \in Seq(ErrorCodes)
        /\ Len(verified') = Len(errors')
    BY <1>3, <1>4, <1>5, <1>6
  <2>. QED
    BY <1>1, <2>1 DEF SelectionInv, TypeOK, arguments
<1>8. VerifiedInv'
  <2>1. Len(verified') = i
    BY <1>1, <1>5, <1>6
  <2>2. ASSUME NEW k \in 1..i
        PROVE  /\ verified'[k] = IF Accepted(candidates[k])
                                 THEN RecordAt(candidates, now, k) ELSE NoRecord
               /\ errors'[k] = VerifyError[candidates[k]]
    <3>1. CASE k = i
      BY <1>1, <1>5, <1>6, <3>1 DEF rec
    <3>2. CASE k # i
      <4>1. /\ k \in 1..Len(verified)
            /\ verified'[k] = verified[k] /\ errors'[k] = errors[k]
        BY <1>1, <1>5, <1>6, <3>2
      <4>. QED
        BY <4>1 DEF SelectionInv, VerifiedInv
    <3>. QED
      BY <3>1, <3>2
  <2>. QED
    BY <1>1, <2>1, <2>2 DEF VerifiedInv, arguments
<1>9. RevokedInv' /\ WinnerInv' /\ OutcomesInv'
  BY <1>1 DEF SelectionInv, RevokedInv, WinnerInv, OutcomesInv
<1>. QED
  BY <1>7, <1>8, <1>9 DEF SelectionInv

\* Between the loops: the sticky state carried in, or activated by a timely
\* candidate, is RootRevokedBy.
LEMMA AuthorityStateInv ==
  ASSUME SelectionInv, UpdateAuthorityState
  PROVE  SelectionInv'
<1>1. /\ pc = "verify" /\ pc' = "pick" /\ i' = 1 /\ Len(candidates) \in Nat
      /\ Len(verified) = Len(candidates) /\ i = Len(candidates) + 1
      /\ UNCHANGED << arguments, verified, errors, winner, winnerAssigned, outcomes >>
  BY DEF SelectionInv, TypeOK, VerifiedInv, UpdateAuthorityState, Over, Goto
<1>2. DOMAIN verified = DOMAIN candidates
  BY <1>1 DEF SelectionInv, TypeOK
<1>3. ASSUME NEW k \in DOMAIN candidates
      PROVE  Activates(verified[k])
               <=> /\ k \in TimelyPositions(candidates, now)
                   /\ RecordAt(candidates, now, k).authority
                        = AUTHORITY_ROOT_REVOKED
  <2>1. /\ candidates[k] \in Envelopes /\ now \in Nat
        /\ verified[k] = IF Accepted(candidates[k])
                         THEN RecordAt(candidates, now, k) ELSE NoRecord
    BY <1>1 DEF SelectionInv, TypeOK, VerifiedInv
  <2>2. RecordAt(candidates, now, k) # NoRecord
    BY <2>1, VerifiedRecordType DEF RecordAt
  <2>. QED
    BY <2>1, <2>2 DEF Activates, TimelyPositions
<1>4. TimelyPositions(candidates, now) \subseteq DOMAIN candidates
  BY DEF TimelyPositions
<1>5. rootRevoked' = RootRevokedBy(candidates, now, sticky)
  BY <1>2, <1>3, <1>4 DEF UpdateAuthorityState, RootRevokedBy
<1>6. TypeOK'
  <2>1. rootRevoked' \in BOOLEAN
    BY DEF SelectionInv, TypeOK, UpdateAuthorityState
  <2>2. i' \in 1..(Len(candidates') + 1) /\ pc' \in Phases
    BY <1>1 DEF Phases, arguments
  <2>. QED
    BY <1>1, <2>1, <2>2 DEF SelectionInv, TypeOK, arguments
<1>7. VerifiedInv'
  BY <1>1 DEF SelectionInv, VerifiedInv, arguments
<1>8. RevokedInv'
  BY <1>1, <1>5 DEF RevokedInv, arguments
<1>9. WinnerInv'
  <2>1. (EligibleUpTo(i - 1))' = {}
    BY <1>1, <1>4 DEF EligibleUpTo, EligiblePositions, TimelyPositions, arguments
  <2>2. winner' = NoRecord
    BY <1>1 DEF SelectionInv, WinnerInv
  <2>. QED
    BY <1>1, <2>1, <2>2 DEF WinnerInv, WinnerIsBestOf
<1>10. OutcomesInv'
  BY <1>1 DEF SelectionInv, OutcomesInv
<1>. QED
  BY <1>6, <1>7, <1>8, <1>9, <1>10 DEF SelectionInv
\* The second loop: i joins the positions looked at when it is eligible, and
\* takes over when its record beats the winner.
LEMMA SecondLoopInv ==
  ASSUME SelectionInv, TakeWinner \/ KeepWinner \/ PassOver
  PROVE  SelectionInv'
<1>1. /\ pc = "pick" /\ pc' = "pick"
      /\ i \in DOMAIN candidates /\ i \in Nat \ {0} /\ i' = i + 1
      /\ i' \in 1..(Len(candidates) + 1)
      /\ UNCHANGED << arguments, verified, errors, rootRevoked, winnerAssigned,
                      outcomes >>
  BY DEF SelectionInv, TypeOK, TakeWinner, KeepWinner, PassOver, More, Advance
<1>2. candidates \in Seq(Envelopes) /\ now \in Nat /\ sticky \in BOOLEAN
  BY DEF SelectionInv, TypeOK
<1>. DEFINE E == EligiblePositions(candidates, now, sticky)
            R(k) == RecordAt(candidates, now, k)
            P == EligibleUpTo(i - 1)
<1>3. E \subseteq DOMAIN candidates
  BY DEF EligiblePositions, TimelyPositions
<1>4. P \in SUBSET DOMAIN candidates /\ \A j \in P : j < i
  BY <1>1, <1>3 DEF EligibleUpTo
<1>5. (EligibleUpTo(i - 1))' = IF i \in E THEN P \cup {i} ELSE P
  BY <1>1, <1>3 DEF EligibleUpTo, arguments
<1>6. Applicable(verified[i]) <=> i \in E
  BY <1>1, ApplicableIsEligible DEF SelectionInv
<1>7. WinnerIsBestOf(P)
  BY <1>1 DEF SelectionInv, WinnerInv
<1>8. i \in E => verified[i] = R(i) /\ verified[i] \in VerifiedRecords
  BY <1>1, <1>6, VerifiedAt DEF SelectionInv, Applicable
<1>9. winner' \in MaybeRecords
  BY <1>1, <1>6, <1>8
     DEF SelectionInv, TypeOK, TakeWinner, KeepWinner, PassOver, MaybeRecords
<1>10. TypeOK'
  BY <1>1, <1>9 DEF SelectionInv, TypeOK, arguments
<1>11. VerifiedInv' /\ RevokedInv' /\ OutcomesInv'
  BY <1>1 DEF SelectionInv, VerifiedInv, RevokedInv, OutcomesInv, arguments
<1>12. WinnerInv'
  <2>. SUFFICES WinnerIsBestOf((EligibleUpTo(i - 1)))'
    BY <1>1 DEF WinnerInv
  <2>1. CASE i \notin E
    <3>1. winner' = winner
      BY <1>6, <2>1 DEF TakeWinner, KeepWinner, PassOver
    <3>. QED
      BY <1>1, <1>5, <1>7, <2>1, <3>1 DEF WinnerIsBestOf, arguments
  <2>2. CASE i \in E /\ P = {}
    <3>1. winner = NoRecord
      BY <1>7, <2>2 DEF WinnerIsBestOf
    <3>2. winner' = R(i)
      BY <1>6, <1>8, <2>2, <3>1
         DEF TakeWinner, KeepWinner, PassOver, BeatsWinner
    <3>3. IsFirstBest(candidates, now, {i}, i)
      BY <1>1, <1>8, <2>2, BeatsIsStrictOrder DEF IsFirstBest
    <3>. QED
      BY <1>1, <1>5, <2>2, <3>2, <3>3 DEF WinnerIsBestOf, arguments
  <2>3. CASE i \in E /\ P # {}
    <3>1. PICK k \in P : /\ IsFirstBest(candidates, now, P, k)
                         /\ winner = R(k)
      BY <1>7, <2>3 DEF WinnerIsBestOf
    <3>2. winner # NoRecord
      <4>1. candidates[k] \in Envelopes
        BY <1>2, <1>4
      <4>. QED
        BY <1>2, <3>1, <4>1, VerifiedRecordType DEF RecordAt
    <3>. DEFINE w == IF Beats(R(i), R(k)) THEN i ELSE k
    <3>3. IsFirstBest(candidates, now, P \cup {i}, w)
      BY <1>1, <1>2, <1>4, <3>1, FirstBestStep
    <3>4. winner' = R(w)
      BY <1>6, <1>8, <2>3, <3>1, <3>2
         DEF TakeWinner, KeepWinner, PassOver, BeatsWinner
    <3>5. w \in P \cup {i}
      OBVIOUS
    <3>. HIDE DEF w
    <3>. QED
      BY <1>1, <1>5, <2>3, <3>3, <3>4, <3>5 DEF WinnerIsBestOf, arguments
  <2>. QED
    BY <2>1, <2>2, <2>3
<1>. QED
  BY <1>10, <1>11, <1>12 DEF SelectionInv

\* The second loop has looked at every eligible position when it ends.
LEMMA StartClassifyInv ==
  ASSUME SelectionInv, StartClassify
  PROVE  SelectionInv'
<1>1. /\ pc = "pick" /\ pc' = "classify" /\ i' = 1
      /\ i = Len(candidates) + 1 /\ Len(candidates) \in Nat
      /\ DOMAIN candidates = 1..Len(candidates)
      /\ UNCHANGED << arguments, verified, errors, rootRevoked, winner,
                      winnerAssigned, outcomes >>
  BY DEF SelectionInv, TypeOK, StartClassify, Over, Goto
<1>2. EligibleUpTo(i - 1) = EligiblePositions(candidates, now, sticky)
  BY <1>1 DEF EligibleUpTo, EligiblePositions, TimelyPositions
<1>3. TypeOK'
  BY <1>1 DEF SelectionInv, TypeOK, Phases, arguments
<1>4. VerifiedInv' /\ RevokedInv'
  BY <1>1 DEF SelectionInv, VerifiedInv, RevokedInv, arguments
<1>5. WinnerInv'
  BY <1>1, <1>2 DEF SelectionInv, WinnerInv, WinnerIsBestOf, arguments
<1>6. OutcomesInv'
  <2>1. /\ outcomes' = << >> /\ ~winnerAssigned'
    BY <1>1 DEF SelectionInv, OutcomesInv
  <2>2. 1..(i' - 1) = {}
    BY <1>1
  <2>. QED
    BY <1>1, <2>1, <2>2 DEF OutcomesInv
<1>. QED
  BY <1>3, <1>4, <1>5, <1>6 DEF SelectionInv
ThirdLoop ==
  \/ ClassifyInvalid \/ ClassifyPremature \/ ClassifyRootRevoked
  \/ ClassifyWinner \/ ClassifyDuplicate \/ ClassifyLosing

\* Whatever branch of the third loop runs, it gives the candidate at i the
\* promised outcome, and marks the winner when i is its position.
LEMMA ThirdLoopOutcome ==
  ASSUME SelectionInv, ThirdLoop
  PROVE  /\ outcomes' = Append(outcomes, OutcomeAt(candidates, now, sticky, i))
         /\ winnerAssigned' <=>
              winnerAssigned \/ WinnerPosition(candidates, now, sticky) = i
         /\ OutcomeAt(candidates, now, sticky, i) \in Outcomes
<1>. DEFINE E == EligiblePositions(candidates, now, sticky)
            T == TimelyPositions(candidates, now)
            R(k) == RecordAt(candidates, now, k)
            w == WinnerPosition(candidates, now, sticky)
            o == OutcomeAt(candidates, now, sticky, i)
<1>1. pc = "classify" /\ i \in DOMAIN candidates /\ i \in Nat \ {0}
  <2>1. More("classify")
    BY DEF ThirdLoop, ClassifyInvalid, ClassifyPremature, ClassifyRootRevoked,
           ClassifyWinner, ClassifyDuplicate, ClassifyLosing
  <2>. QED
    BY <2>1 DEF SelectionInv, TypeOK, More
<1>2. /\ verified[i] \in MaybeRecords
      /\ errors[i] = VerifyError[candidates[i]]
      /\ verified[i] = NoRecord <=> ~Accepted(candidates[i])
      /\ verified[i] # NoRecord =>
           /\ verified[i] = R(i)
           /\ i \in T <=> ~verified[i].premature
  BY <1>1, VerifiedAt DEF SelectionInv
<1>3. rootRevoked = RootRevokedBy(candidates, now, sticky)
  BY <1>1 DEF SelectionInv, RevokedInv
<1>4. Contends(verified[i]) <=> i \in E
  BY <1>1, ContendsIsEligible DEF SelectionInv
<1>5. winnerAssigned <=> w \in 1..(i - 1)
  BY <1>1 DEF SelectionInv, OutcomesInv
<1>6. winnerAssigned \in BOOLEAN
  BY DEF SelectionInv, TypeOK
<1>7. VerifyError[candidates[i]] \in ErrorCodes
  <2>1. candidates[i] \in Envelopes
    BY <1>1 DEF SelectionInv, TypeOK
  <2>. QED
    BY <2>1, RecordsAssumption DEF ErrorCodes
<1>8. \/ E = {} /\ w = 0 /\ winner = NoRecord
      \/ /\ w \in E /\ w \in DOMAIN candidates
         /\ IsFirstBest(candidates, now, E, w)
         /\ winner = R(w) /\ winner # NoRecord
  BY <1>1, WinnerAtWinnerPosition DEF SelectionInv
<1>9. \A r \in MaybeRecords, error \in ErrorCodes, won \in BOOLEAN :
        Outcome(r, error, won) \in Outcomes
  BY DEF Outcome, Outcomes
<1>10. { "premature", "rootRevoked", "losingRecord", "duplicate", NoError }
         \subseteq ErrorCodes
  BY DEF ErrorCodes, SelectionErrors
<1>11. E \subseteq T /\ \A k \in T : Accepted(candidates[k])
  BY DEF EligiblePositions, TimelyPositions
<1>12. CASE ClassifyInvalid
  <2>1. verified[i] = NoRecord /\ w # i
    BY <1>1, <1>2, <1>8, <1>11, <1>12 DEF ClassifyInvalid
  <2>2. o = Outcome(verified[i], errors[i], FALSE)
    BY <1>2, <2>1 DEF OutcomeAt
  <2>. QED
    BY <1>2, <1>7, <1>9, <1>12, <2>1, <2>2 DEF ClassifyInvalid, Classify
<1>13. CASE ClassifyPremature
  <2>1. verified[i] # NoRecord /\ i \notin T /\ w # i
    BY <1>1, <1>2, <1>8, <1>11, <1>13 DEF ClassifyPremature
  <2>2. o = Outcome(verified[i], "premature", FALSE)
    BY <1>2, <2>1 DEF OutcomeAt
  <2>. QED
    BY <1>2, <1>9, <1>10, <1>13, <2>1, <2>2 DEF ClassifyPremature, Classify
<1>14. CASE ClassifyRootRevoked
  <2>1. /\ verified[i] # NoRecord /\ i \in T
        /\ rootRevoked /\ verified[i].authority = AUTHORITY_ROOT
    BY <1>2, <1>14 DEF ClassifyRootRevoked
  <2>2. i \notin E /\ w # i
    BY <1>1, <1>4, <1>8, <2>1 DEF Contends
  <2>3. o = Outcome(verified[i], "rootRevoked", FALSE)
    BY <1>2, <2>1, <2>2 DEF OutcomeAt
  <2>. QED
    BY <1>2, <1>9, <1>10, <1>14, <2>2, <2>3 DEF ClassifyRootRevoked, Classify
<1>15. ASSUME Contends(verified[i])
       PROVE  /\ i \in E /\ i \in T /\ Accepted(candidates[i])
              /\ verified[i] = R(i)
              /\ w \in E /\ w \in DOMAIN candidates /\ winner = R(w)
              /\ IsFirstBest(candidates, now, E, w)
              /\ HasWinningBody(verified[i]) <=>
                   R(i).body_digest = R(w).body_digest
  <2>1. i \in E /\ i \in T /\ Accepted(candidates[i]) /\ verified[i] = R(i)
    BY <1>2, <1>4, <1>11, <1>15
  <2>2. /\ w \in E /\ w \in DOMAIN candidates /\ winner = R(w)
        /\ winner # NoRecord /\ IsFirstBest(candidates, now, E, w)
    BY <1>8, <2>1
  <2>. QED
    BY <2>1, <2>2 DEF HasWinningBody
<1>16. CASE ClassifyWinner
  <2>1. Contends(verified[i]) /\ HasWinningBody(verified[i]) /\ ~winnerAssigned
    BY <1>16 DEF ClassifyWinner
  <2>2. w <= i
    BY <1>15, <2>1 DEF IsFirstBest
  <2>3. w = i
    <3>1. w \in Nat \ {0}
      BY <1>15, <2>1 DEF SelectionInv, TypeOK
    <3>. QED
      BY <1>1, <1>5, <2>1, <2>2, <3>1
  <2>4. o = Outcome(verified[i], NoError, TRUE)
    BY <1>15, <2>1, <2>3 DEF OutcomeAt
  <2>. QED
    BY <1>2, <1>9, <1>10, <1>16, <2>3, <2>4 DEF ClassifyWinner, Classify
<1>17. CASE ClassifyDuplicate
  <2>1. Contends(verified[i]) /\ HasWinningBody(verified[i]) /\ winnerAssigned
    BY <1>17 DEF ClassifyDuplicate
  <2>2. w # i
    BY <1>1, <1>5, <2>1
  <2>3. o = Outcome(verified[i], "duplicate", FALSE)
    BY <1>15, <2>1, <2>2 DEF OutcomeAt
  <2>. QED
    BY <1>2, <1>6, <1>9, <1>10, <1>17, <2>1, <2>2, <2>3
       DEF ClassifyDuplicate, Classify
<1>18. CASE ClassifyLosing
  <2>1. Contends(verified[i]) /\ ~HasWinningBody(verified[i])
    BY <1>18 DEF ClassifyLosing
  <2>2. w # i
    BY <1>15, <2>1
  <2>3. o = Outcome(verified[i], "losingRecord", FALSE)
    BY <1>15, <2>1, <2>2 DEF OutcomeAt
  <2>. QED
    BY <1>2, <1>6, <1>9, <1>10, <1>18, <2>2, <2>3 DEF ClassifyLosing, Classify
<1>. QED
  BY <1>12, <1>13, <1>14, <1>16, <1>17, <1>18 DEF ThirdLoop

\* The third loop: the candidate at i joins those that have their outcome.
LEMMA ThirdLoopInv ==
  ASSUME SelectionInv, ThirdLoop
  PROVE  SelectionInv'
<1>1. /\ pc = "classify" /\ pc' = "classify"
      /\ i \in Nat \ {0} /\ i' = i + 1
      /\ i' \in 1..(Len(candidates) + 1)
      /\ winnerAssigned' \in BOOLEAN
      /\ UNCHANGED << arguments, verified, errors, rootRevoked, winner >>
  <2>1. /\ More("classify")
        /\ \E error, won : Classify(error, won)
        /\ winnerAssigned' = winnerAssigned \/ winnerAssigned' = TRUE
    BY DEF ThirdLoop, ClassifyInvalid, ClassifyPremature, ClassifyRootRevoked,
           ClassifyWinner, ClassifyDuplicate, ClassifyLosing
  <2>2. /\ Advance
        /\ UNCHANGED << arguments, verified, errors, rootRevoked, winner >>
    BY <2>1 DEF Classify
  <2>3. winnerAssigned' \in BOOLEAN
    BY <2>1 DEF SelectionInv, TypeOK
  <2>. QED
    BY <2>1, <2>2, <2>3 DEF SelectionInv, TypeOK, More, Advance
<1>. DEFINE o == OutcomeAt(candidates, now, sticky, i)
            w == WinnerPosition(candidates, now, sticky)
<1>2. /\ outcomes' = Append(outcomes, o)
      /\ winnerAssigned' <=> winnerAssigned \/ w = i
      /\ o \in Outcomes
  BY ThirdLoopOutcome
<1>3. /\ outcomes \in Seq(Outcomes) /\ Len(outcomes) = i - 1
      /\ \A k \in 1..(i - 1) :
           outcomes[k] = OutcomeAt(candidates, now, sticky, k)
      /\ winnerAssigned <=> w \in 1..(i - 1)
  BY <1>1 DEF SelectionInv, TypeOK, OutcomesInv
<1>. HIDE DEF o, w
<1>4. TypeOK'
  <2>1. outcomes' \in Seq(Outcomes)
    BY <1>2, <1>3
  <2>. QED
    BY <1>1, <2>1 DEF SelectionInv, TypeOK, arguments
<1>5. VerifiedInv' /\ RevokedInv'
  BY <1>1 DEF SelectionInv, VerifiedInv, RevokedInv, arguments
<1>6. WinnerInv'
  BY <1>1 DEF SelectionInv, WinnerInv, WinnerIsBestOf, arguments
<1>7. OutcomesInv'
  <2>1. Len(outcomes') = i
    BY <1>1, <1>2, <1>3
  <2>2. ASSUME NEW k \in 1..i
        PROVE  outcomes'[k] = OutcomeAt(candidates, now, sticky, k)
    <3>1. CASE k = i
      BY <1>1, <1>2, <1>3, <3>1 DEF o
    <3>2. CASE k # i
      BY <1>1, <1>2, <1>3, <3>2
    <3>. QED
      BY <3>1, <3>2
  <2>3. winnerAssigned' <=> w \in 1..i
    BY <1>1, <1>2, <1>3
  <2>. QED
    BY <1>1, <2>1, <2>2, <2>3 DEF OutcomesInv, arguments, w
<1>. QED
  BY <1>4, <1>5, <1>6, <1>7 DEF SelectionInv

\* Returning only moves to "done".
LEMMA ReturnInv ==
  ASSUME SelectionInv, ReturnResult
  PROVE  SelectionInv'
<1>1. /\ pc = "classify" /\ pc' = "done" /\ i = Len(candidates) + 1
      /\ UNCHANGED << arguments, i, verified, errors, rootRevoked, winner,
                      winnerAssigned, outcomes >>
  BY DEF SelectionInv, TypeOK, ReturnResult, Over
<1>2. TypeOK'
  BY <1>1 DEF SelectionInv, TypeOK, Phases, arguments
<1>3. VerifiedInv' /\ RevokedInv'
  BY <1>1 DEF SelectionInv, VerifiedInv, RevokedInv, arguments
<1>4. WinnerInv'
  BY <1>1 DEF SelectionInv, WinnerInv, WinnerIsBestOf, arguments
<1>5. OutcomesInv'
  BY <1>1 DEF SelectionInv, OutcomesInv, arguments
<1>. QED
  BY <1>2, <1>3, <1>4, <1>5 DEF SelectionInv

\* SelectionInv is inductive.
LEMMA NextInv == SelectionInv /\ [Next]_vars => SelectionInv'
<1>. SUFFICES ASSUME SelectionInv, [Next]_vars PROVE SelectionInv'
  OBVIOUS
<1>1. CASE VerifyCandidate \/ RejectCandidate
  BY <1>1, FirstLoopInv
<1>2. CASE UpdateAuthorityState
  BY <1>2, AuthorityStateInv
<1>3. CASE TakeWinner \/ KeepWinner \/ PassOver
  BY <1>3, SecondLoopInv
<1>4. CASE StartClassify
  BY <1>4, StartClassifyInv
<1>5. CASE ThirdLoop
  BY <1>5, ThirdLoopInv
<1>6. CASE ReturnResult
  BY <1>6, ReturnInv
<1>7. CASE UNCHANGED vars
  BY <1>7 DEF vars, SelectionInv, TypeOK, VerifiedInv, RevokedInv, WinnerInv,
              WinnerIsBestOf, EligibleUpTo, OutcomesInv
<1>. QED
  BY <1>1, <1>2, <1>3, <1>4, <1>5, <1>6, <1>7 DEF Next, ThirdLoop

\* Every reachable state of every call satisfies the invariant.
THEOREM SelectionInvariant == Spec => []SelectionInv
<1>. QED
  BY InitInv, NextInv, PTL DEF Spec

\* The variables of select_current keep their types.
THEOREM TypeCorrect == Spec => []TypeOK
<1>1. SelectionInv => TypeOK
  BY DEF SelectionInv
<1>. QED
  BY <1>1, SelectionInvariant, PTL
----------------------------------------------------------------------------
(* What a caller may rely on.                                              *)

\* When the call has returned, an outcome is the winner's exactly at the
\* position of the winner, and has no error exactly there.
LEMMA ReturnedOutcomes ==
  ASSUME SelectionInv, pc = "done", NEW k \in DOMAIN outcomes,
         NEW w, w = WinnerPosition(candidates, now, sticky)
  PROVE  /\ k \in DOMAIN candidates
         /\ outcomes[k].is_winner <=> k = w
         /\ outcomes[k].error = NoError <=> k = w
         /\ k = w => outcomes[k].record = winner
<1>1. /\ k \in DOMAIN candidates
      /\ outcomes[k] = OutcomeAt(candidates, now, sticky, k)
  BY DEF SelectionInv, TypeOK, OutcomesInv
<1>2. \/ w = 0
      \/ /\ w \in EligiblePositions(candidates, now, sticky)
         /\ winner = RecordAt(candidates, now, w)
  BY WinnerAtWinnerPosition DEF SelectionInv
<1>3. k # 0
  BY <1>1 DEF SelectionInv, TypeOK
<1>4. CASE k = w
  <2>1. /\ k \in EligiblePositions(candidates, now, sticky)
        /\ k \in TimelyPositions(candidates, now)
        /\ Accepted(candidates[k])
        /\ winner = RecordAt(candidates, now, k)
    BY <1>2, <1>3, <1>4 DEF EligiblePositions, TimelyPositions
  <2>2. outcomes[k] = Outcome(winner, NoError, TRUE)
    BY <1>1, <1>4, <2>1 DEF OutcomeAt
  <2>. QED
    BY <1>1, <1>4, <2>2 DEF Outcome
<1>5. CASE k # w
  <2>1. /\ outcomes[k].is_winner = FALSE
        /\ outcomes[k].error # NoError
    BY <1>1, <1>5 DEF OutcomeAt, Outcome, NoError, Accepted
  <2>. QED
    BY <1>1, <1>5, <2>1
<1>. QED
  BY <1>4, <1>5

\* The second and the third loop of select_current agree on the winner.
THEOREM OneWinner == Spec => []OneWinnerOutcome
<1>1. SelectionInv => OneWinnerOutcome
  <2>. SUFFICES ASSUME SelectionInv, pc = "done"
                PROVE  LET won == { k \in DOMAIN outcomes : outcomes[k].is_winner }
                       IN IF winner = NoRecord
                          THEN won = {}
                          ELSE \E k \in DOMAIN outcomes :
                                 won = {k} /\ outcomes[k].record = winner
    BY DEF OneWinnerOutcome
  <2>. DEFINE w == WinnerPosition(candidates, now, sticky)
  <2>1. \A k \in DOMAIN outcomes : /\ outcomes[k].is_winner <=> k = w
                                   /\ k = w => outcomes[k].record = winner
    BY ReturnedOutcomes
  <2>2. DOMAIN outcomes = DOMAIN candidates
    BY DEF SelectionInv, TypeOK, OutcomesInv
  <2>3. \/ w = 0 /\ winner = NoRecord
        \/ w \in DOMAIN candidates /\ winner # NoRecord
    BY WinnerAtWinnerPosition DEF SelectionInv
  <2>4. 0 \notin DOMAIN candidates
    BY DEF SelectionInv, TypeOK
  <2>. HIDE DEF w
  <2>. QED
    BY <2>1, <2>2, <2>3, <2>4
<1>. QED
  BY <1>1, SelectionInvariant, PTL

\* CandidateOutcome.error is None for the winner and for no other candidate.
THEOREM NoErrorMarksWinner == Spec => []NoErrorOnlyForWinner
<1>1. SelectionInv => NoErrorOnlyForWinner
  BY ReturnedOutcomes DEF NoErrorOnlyForWinner
<1>. QED
  BY <1>1, SelectionInvariant, PTL

\* The contract's rules are those of SelectionRules: the two instances agree.
LEMMA SameSelect ==
  ASSUME NEW c, NEW t, NEW s
  PROVE  Contract!Select(c, t, s) = Select(c, t, s)
<1>1. \A k : Contract!RecordAt(c, t, k) = RecordAt(c, t, k)
  BY DEF Contract!RecordAt, RecordAt, Contract!VerifiedRecord, VerifiedRecord,
         Contract!IsPremature, IsPremature, Contract!IsStale, IsStale,
         Contract!NoHorizon, NoHorizon
<1>2. \A e : Contract!Accepted(e) <=> Accepted(e)
  BY DEF Contract!Accepted, Accepted, Contract!NoError, NoError
<1>3. Contract!TimelyPositions(c, t) = TimelyPositions(c, t)
  BY <1>1, <1>2 DEF Contract!TimelyPositions, TimelyPositions
<1>4. Contract!RootRevokedBy(c, t, s) = RootRevokedBy(c, t, s)
  BY <1>1, <1>3 DEF Contract!RootRevokedBy, RootRevokedBy,
                    Contract!AUTHORITY_ROOT_REVOKED, AUTHORITY_ROOT_REVOKED
<1>5. Contract!EligiblePositions(c, t, s) = EligiblePositions(c, t, s)
  BY <1>1, <1>3, <1>4 DEF Contract!EligiblePositions, EligiblePositions,
       Contract!ApplicableAuthority, ApplicableAuthority,
       Contract!AUTHORITY_ROOT, AUTHORITY_ROOT,
       Contract!AUTHORITY_ROOT_REVOKED, AUTHORITY_ROOT_REVOKED
<1>6. Contract!WinnerPosition(c, t, s) = WinnerPosition(c, t, s)
  <2>. DEFINE First(P) == CHOOSE k \in P : IsFirstBest(c, t, P, k)
              ContractFirst(P) == CHOOSE k \in P : Contract!IsFirstBest(c, t, P, k)
  <2>1. ASSUME NEW P PROVE ContractFirst(P) = First(P)
    BY DEF Contract!IsFirstBest, IsFirstBest, Contract!Beats, Beats,
           Contract!RecordAt, RecordAt, Contract!VerifiedRecord, VerifiedRecord,
           Contract!IsPremature, IsPremature, Contract!IsStale, IsStale,
           Contract!NoHorizon, NoHorizon
  <2>2. /\ Contract!WinnerPosition(c, t, s)
            = IF Contract!EligiblePositions(c, t, s) = {} THEN 0
              ELSE ContractFirst(Contract!EligiblePositions(c, t, s))
        /\ WinnerPosition(c, t, s)
            = IF EligiblePositions(c, t, s) = {} THEN 0
              ELSE First(EligiblePositions(c, t, s))
    BY DEF Contract!WinnerPosition, WinnerPosition
  <2>. HIDE DEF First, ContractFirst
  <2>. QED
    BY <1>5, <2>1, <2>2
<1>7. ASSUME NEW k
      PROVE  Contract!OutcomeAt(c, t, s, k) = OutcomeAt(c, t, s, k)
  <2>1. /\ Contract!RecordAt(c, t, k) = RecordAt(c, t, k)
        /\ Contract!RecordAt(c, t, WinnerPosition(c, t, s))
             = RecordAt(c, t, WinnerPosition(c, t, s))
        /\ Contract!Accepted(c[k]) <=> Accepted(c[k])
    BY <1>1, <1>2
  <2>. QED
    BY <1>3, <1>5, <1>6, <2>1 DEF Contract!OutcomeAt, OutcomeAt,
       Contract!Outcome, Outcome, Contract!NoError, NoError
<1>. QED
  BY <1>1, <1>4, <1>6, <1>7 DEF Contract!Select, Select

\* select_current computes what SelectionRules states, in one step for its
\* caller.
THEOREM Refinement == Spec => ImplementsContract
<1>1. Init => Contract!CallInit
  BY CallAssumption DEF Init, Contract!CallInit, result
<1>2. SelectionInv /\ [Next]_vars => [Contract!Return]_(Contract!callVars)
  <2>. SUFFICES ASSUME SelectionInv, [Next]_vars
                PROVE  Contract!Return \/ UNCHANGED Contract!callVars
    OBVIOUS
  <2>1. CASE ReturnResult
    <3>1. /\ pc = "classify" /\ pc' = "done" /\ i = Len(candidates) + 1
          /\ UNCHANGED << arguments, rootRevoked, winner, outcomes >>
      BY <2>1 DEF ReturnResult, Over, SelectionInv, TypeOK
    <3>2. /\ outcomes = [ k \in DOMAIN candidates |->
                            OutcomeAt(candidates, now, sticky, k) ]
      BY <3>1 DEF SelectionInv, TypeOK, OutcomesInv
    <3>3. rootRevoked = RootRevokedBy(candidates, now, sticky)
      BY <3>1 DEF SelectionInv, RevokedInv
    <3>4. winner = IF WinnerPosition(candidates, now, sticky) = 0 THEN NoRecord
                   ELSE RecordAt(candidates, now,
                                 WinnerPosition(candidates, now, sticky))
      <4>1. 0 \notin DOMAIN candidates
        BY DEF SelectionInv, TypeOK
      <4>. QED
        BY <3>1, <4>1, WinnerAtWinnerPosition DEF SelectionInv
    <3>5. result' = Select(candidates, now, sticky)
      BY <3>1, <3>2, <3>3, <3>4 DEF result, Select
    <3>6. result = NoResult
      BY <3>1 DEF result
    <3>. QED
      BY <3>1, <3>5, <3>6, SameSelect DEF Contract!Return, arguments
  <2>2. CASE Next /\ ~ReturnResult
    <3>1. pc # "done" /\ pc' # "done" /\ UNCHANGED arguments
      BY <2>2 DEF Next, VerifyCandidate, RejectCandidate, UpdateAuthorityState,
                  TakeWinner, KeepWinner, PassOver, StartClassify,
                  ClassifyInvalid, ClassifyPremature, ClassifyRootRevoked,
                  ClassifyWinner, ClassifyDuplicate, ClassifyLosing, Classify,
                  More, Over, Goto, Advance
    <3>. QED
      BY <3>1 DEF Contract!callVars, result, arguments
  <2>3. CASE UNCHANGED vars
    BY <2>3 DEF vars, Contract!callVars, result
  <2>. QED
    BY <2>1, <2>2, <2>3
<1>. QED
  BY <1>1, <1>2, SelectionInvariant, PTL
     DEF Spec, ImplementsContract, Contract!CallSpec

----------------------------------------------------------------------------
(* Two calls on two lists of the same envelopes.                           *)

Elements(c) == { c[k] : k \in DOMAIN c }

\* What SelectionInv says of the winner a call returns.
BestOrNone(c, t, s, rec) ==
  LET P == EligiblePositions(c, t, s) IN
  \/ P = {} /\ rec = NoRecord
  \/ \E k \in P : IsFirstBest(c, t, P, k) /\ rec = RecordAt(c, t, k)

\* The result kept from the first call is the one for a list of the same
\* envelopes.
FirstInv ==
  first # NoResult =>
    \E c \in Seq(Envelopes) :
      /\ Elements(c) = Elements(candidates)
      /\ first.root_revoked = RootRevokedBy(c, now, sticky)
      /\ BestOrNone(c, now, sticky, first.winner)
      /\ \A k \in DOMAIN first.outcomes :
           /\ k \in DOMAIN c
           /\ first.outcomes[k] = OutcomeAt(c, now, sticky, k)

TwiceInv == SelectionInv /\ FirstInv

----------------------------------------------------------------------------
(* Lists of the same envelopes.                                            *)

\* The sticky state depends on the envelopes only.
LEMMA SameRootRevoked ==
  ASSUME NEW c, NEW d, NEW t, NEW s, Elements(c) = Elements(d)
  PROVE  RootRevokedBy(c, t, s) <=> RootRevokedBy(d, t, s)
<1>. DEFINE Reveals(e) == /\ Accepted(e)
                         /\ ~VerifiedRecord(e, t).premature
                         /\ VerifiedRecord(e, t).authority = AUTHORITY_ROOT_REVOKED
<1>1. ASSUME NEW l
      PROVE  RootRevokedBy(l, t, s) <=> s \/ \E e \in Elements(l) : Reveals(e)
  BY DEF RootRevokedBy, TimelyPositions, RecordAt, Elements
<1>. HIDE DEF Reveals
<1>. QED
  BY <1>1

\* So does eligibility: an envelope is eligible wherever it stands.
LEMMA EligibleAnywhere ==
  ASSUME NEW c, NEW d, NEW t, NEW s, Elements(c) = Elements(d),
         NEW k \in DOMAIN c, NEW j \in DOMAIN d, d[j] = c[k]
  PROVE  k \in EligiblePositions(c, t, s) <=> j \in EligiblePositions(d, t, s)
<1>1. RecordAt(d, t, j) = RecordAt(c, t, k)
  BY DEF RecordAt
<1>2. RootRevokedBy(c, t, s) <=> RootRevokedBy(d, t, s)
  BY SameRootRevoked
<1>3. ApplicableAuthority(RootRevokedBy(c, t, s))
        = ApplicableAuthority(RootRevokedBy(d, t, s))
  BY <1>2 DEF ApplicableAuthority
<1>. QED
  BY <1>1, <1>3 DEF EligiblePositions, TimelyPositions

LEMMA SameEligible ==
  ASSUME NEW c, NEW d, NEW t, NEW s, Elements(c) = Elements(d),
         NEW k \in EligiblePositions(c, t, s)
  PROVE  \E j \in EligiblePositions(d, t, s) : d[j] = c[k]
<1>1. k \in DOMAIN c
  BY DEF EligiblePositions, TimelyPositions
<1>2. PICK j \in DOMAIN d : d[j] = c[k]
  BY <1>1 DEF Elements
<1>3. j \in EligiblePositions(d, t, s)
  BY <1>1, <1>2, EligibleAnywhere
<1>. QED
  BY <1>2, <1>3

\* Two lists of the same envelopes have winners of the same body.
LEMMA SameBestBody ==
  ASSUME NEW c \in Seq(Envelopes), NEW d \in Seq(Envelopes), NEW t \in Nat,
         NEW s \in BOOLEAN, Elements(c) = Elements(d),
         NEW a, NEW b, BestOrNone(c, t, s, a), BestOrNone(d, t, s, b)
  PROVE  /\ a = NoRecord <=> b = NoRecord
         /\ a # NoRecord => a.body_digest = b.body_digest
<1>. DEFINE C == EligiblePositions(c, t, s)
            D == EligiblePositions(d, t, s)
<1>1. C \subseteq DOMAIN c /\ D \subseteq DOMAIN d
  BY DEF EligiblePositions, TimelyPositions
<1>2. /\ \A k \in C : \E j \in D : d[j] = c[k]
      /\ \A j \in D : \E k \in C : c[k] = d[j]
  BY SameEligible
<1>3. /\ \A k \in C : c[k] \in Envelopes
      /\ \A j \in D : d[j] \in Envelopes
  BY <1>1
<1>4. CASE C = {}
  BY <1>2, <1>4 DEF BestOrNone
<1>5. CASE C # {}
  <2>1. PICK k \in C : IsFirstBest(c, t, C, k) /\ a = RecordAt(c, t, k)
    BY <1>5 DEF BestOrNone
  <2>2. PICK j \in D : IsFirstBest(d, t, D, j) /\ b = RecordAt(d, t, j)
    BY <1>2, <1>5 DEF BestOrNone
  <2>3. /\ a \in VerifiedRecords /\ a # NoRecord
        /\ b \in VerifiedRecords /\ b # NoRecord
    BY <1>3, <2>1, <2>2, VerifiedRecordType DEF RecordAt
  <2>4. PICK m \in D : d[m] = c[k]
    BY <1>2
  <2>5. PICK n \in C : c[n] = d[j]
    BY <1>2
  <2>6. RecordAt(d, t, m) = a /\ RecordAt(c, t, n) = b
    BY <2>1, <2>2, <2>4, <2>5 DEF RecordAt
  <2>7. ~Beats(a, b) /\ ~Beats(b, a)
    BY <2>1, <2>2, <2>6 DEF IsFirstBest
  <2>. QED
    BY <2>3, <2>7, BeatsIsStrictOrder
<1>. QED
  BY <1>4, <1>5

\* The code a position gets, in the terms of the winner rec that is returned.
CodeOf(c, t, s, rec, k) ==
  LET r == RecordAt(c, t, k) IN
  IF k \notin TimelyPositions(c, t)           THEN { "premature" }
  ELSE IF k \notin EligiblePositions(c, t, s) THEN { "rootRevoked" }
  ELSE IF r.body_digest = rec.body_digest     THEN { NoError, "duplicate" }
  ELSE { "losingRecord" }

LEMMA OutcomeCode ==
  ASSUME NEW c \in Seq(Envelopes), NEW t \in Nat, NEW s \in BOOLEAN,
         NEW rec, BestOrNone(c, t, s, rec),
         NEW k \in DOMAIN c, OutcomeAt(c, t, s, k).record # NoRecord
  PROVE  /\ Accepted(c[k])
         /\ OutcomeAt(c, t, s, k).record = RecordAt(c, t, k)
         /\ OutcomeAt(c, t, s, k).error \in CodeOf(c, t, s, rec, k)
         /\ k \in EligiblePositions(c, t, s) => rec # NoRecord
<1>. DEFINE P == EligiblePositions(c, t, s)
<1>1. Accepted(c[k])
  BY DEF OutcomeAt, Outcome
<1>2. OutcomeAt(c, t, s, k).record = RecordAt(c, t, k)
  BY <1>1 DEF OutcomeAt, Outcome
<1>3. CASE k \notin P
  BY <1>1, <1>2, <1>3 DEF OutcomeAt, Outcome, CodeOf
<1>4. CASE k \in P
  <2>1. PICK w \in P : IsFirstBest(c, t, P, w) /\ rec = RecordAt(c, t, w)
    BY <1>4 DEF BestOrNone
  <2>2. WinnerPosition(c, t, s) = w
    BY <2>1, WinnerPositionIs
  <2>3. k \in TimelyPositions(c, t)
    BY <1>4 DEF EligiblePositions
  <2>4. rec # NoRecord
    <3>1. w \in DOMAIN c
      BY DEF EligiblePositions, TimelyPositions
    <3>. QED
      BY <2>1, <3>1, VerifiedRecordType DEF RecordAt
  <2>5. OutcomeAt(c, t, s, k).error
          = IF k = w THEN NoError
            ELSE IF RecordAt(c, t, k).body_digest = rec.body_digest
                 THEN "duplicate" ELSE "losingRecord"
    BY <1>1, <1>4, <2>1, <2>2, <2>3 DEF OutcomeAt, Outcome
  <2>6. k = w => RecordAt(c, t, k).body_digest = rec.body_digest
    BY <2>1
  <2>7. OutcomeAt(c, t, s, k).error \in CodeOf(c, t, s, rec, k)
    BY <1>4, <2>3, <2>5, <2>6 DEF CodeOf
  <2>. QED
    BY <1>1, <1>2, <2>4, <2>7
<1>. QED
  BY <1>3, <1>4

\* A record gets its codes from one and the same set in two lists of the same
\* envelopes.
LEMMA SameCodes ==
  ASSUME NEW c \in Seq(Envelopes), NEW d \in Seq(Envelopes), NEW t \in Nat,
         NEW s \in BOOLEAN, Elements(c) = Elements(d),
         NEW a, NEW b, BestOrNone(c, t, s, a), BestOrNone(d, t, s, b),
         NEW k \in DOMAIN c, NEW j \in DOMAIN d, c[k] = d[j],
         k \in EligiblePositions(c, t, s) => a # NoRecord
  PROVE  CodeOf(c, t, s, a, k) = CodeOf(d, t, s, b, j)
<1>1. RecordAt(c, t, k) = RecordAt(d, t, j)
  BY DEF RecordAt
<1>2. k \in TimelyPositions(c, t) <=> j \in TimelyPositions(d, t)
  BY <1>1 DEF TimelyPositions
<1>3. k \in EligiblePositions(c, t, s) <=> j \in EligiblePositions(d, t, s)
  BY EligibleAnywhere
<1>4. k \in EligiblePositions(c, t, s) => a.body_digest = b.body_digest
  BY SameBestBody
<1>. QED
  BY <1>1, <1>2, <1>3, <1>4 DEF CodeOf

----------------------------------------------------------------------------
(* The invariant.                                                          *)

\* The result of a call that has returned is what FirstInv asks.
LEMMA ReturnedResult ==
  ASSUME SelectionInv, pc = "done"
  PROVE  /\ candidates \in Seq(Envelopes) /\ now \in Nat /\ sticky \in BOOLEAN
         /\ result.root_revoked = RootRevokedBy(candidates, now, sticky)
         /\ result.winner = winner
         /\ result.outcomes = outcomes
         /\ rootRevoked = RootRevokedBy(candidates, now, sticky)
         /\ BestOrNone(candidates, now, sticky, winner)
         /\ \A k \in DOMAIN outcomes :
              /\ k \in DOMAIN candidates
              /\ outcomes[k] = OutcomeAt(candidates, now, sticky, k)
<1>1. \A k \in DOMAIN outcomes :
        /\ k \in DOMAIN candidates
        /\ outcomes[k] = OutcomeAt(candidates, now, sticky, k)
  BY DEF SelectionInv, TypeOK, OutcomesInv
<1>. QED
  BY <1>1 DEF SelectionInv, TypeOK, RevokedInv, WinnerInv, WinnerIsBestOf, result,
              BestOrNone

\* TwiceInv is inductive.
LEMMA TwiceNextInv == TwiceInv /\ [TwiceNext]_<<vars, first>> => TwiceInv'
<1>. SUFFICES ASSUME TwiceInv, [TwiceNext]_<<vars, first>> PROVE TwiceInv'
  OBVIOUS
<1>1. CASE [Next]_vars /\ UNCHANGED first
  <2>1. SelectionInv'
    BY <1>1, NextInv DEF TwiceInv
  <2>2. UNCHANGED << candidates, now, sticky >>
    BY <1>1 DEF Next, VerifyCandidate, RejectCandidate, UpdateAuthorityState,
                TakeWinner, KeepWinner, PassOver, StartClassify, ReturnResult,
                ClassifyInvalid, ClassifyPremature, ClassifyRootRevoked,
                ClassifyWinner, ClassifyDuplicate, ClassifyLosing, Classify,
                vars, arguments
  <2>3. FirstInv'
    BY <1>1, <2>2 DEF TwiceInv, FirstInv, Elements
  <2>. QED
    BY <2>1, <2>3 DEF TwiceInv
<1>2. CASE CallAgain
  <2>1. PICK c \in CandidateLists : /\ Elements(c) = Elements(candidates)
                                    /\ candidates' = c
    BY <1>2 DEF CallAgain, Elements
  <2>2. c \in Seq(Envelopes)
    BY <2>1, CallAssumption
  <2>3. /\ pc = "done" /\ first' = result /\ now' = now /\ sticky' = sticky
        /\ pc' = "verify" /\ i' = 1 /\ verified' = << >> /\ errors' = << >>
        /\ outcomes' = << >> /\ rootRevoked' = FALSE /\ winnerAssigned' = FALSE
        /\ winner' = NoRecord
    BY <1>2 DEF CallAgain
  <2>4. TypeOK'
    <3>1. i' \in 1..(Len(candidates') + 1)
      BY <2>1, <2>2, <2>3
    <3>2. /\ verified' \in Seq(MaybeRecords) /\ errors' \in Seq(ErrorCodes)
          /\ outcomes' \in Seq(Outcomes) /\ Len(verified') = Len(errors')
      BY <2>3
    <3>3. now' \in Nat /\ sticky' \in BOOLEAN
      BY <2>3 DEF TwiceInv, SelectionInv, TypeOK
    <3>. QED
      BY <2>1, <2>2, <2>3, <3>1, <3>2, <3>3 DEF TypeOK, Phases, MaybeRecords
  <2>5. VerifiedInv' /\ RevokedInv' /\ WinnerInv' /\ OutcomesInv'
    BY <2>3 DEF VerifiedInv, RevokedInv, WinnerInv, OutcomesInv
  <2>6. FirstInv'
    <3>1. /\ candidates \in Seq(Envelopes)
          /\ first'.root_revoked = RootRevokedBy(candidates, now, sticky)
          /\ BestOrNone(candidates, now, sticky, first'.winner)
          /\ \A k \in DOMAIN first'.outcomes :
               /\ k \in DOMAIN candidates
               /\ first'.outcomes[k] = OutcomeAt(candidates, now, sticky, k)
      BY <2>3, ReturnedResult DEF TwiceInv
    <3>2. Elements(candidates) = Elements(candidates')
      BY <2>1
    <3>. QED
      BY <2>3, <3>1, <3>2 DEF FirstInv
  <2>. QED
    BY <2>4, <2>5, <2>6 DEF TwiceInv, SelectionInv
<1>. QED
  BY <1>1, <1>2 DEF TwiceNext, RunCall, vars

\* Every reachable state of the two calls satisfies TwiceInv.
LEMMA TwiceInvariant == TwiceSpec => []TwiceInv
<1>1. TwiceInit => TwiceInv
  BY InitInv DEF TwiceInit, TwiceInv, FirstInv
<1>. QED
  BY <1>1, TwiceNextInv, PTL DEF TwiceSpec

\* Both results of BothReturned are results for lists of the same envelopes.
LEMMA BothResults ==
  ASSUME TwiceInv, BothReturned
  PROVE  /\ rootRevoked <=> first.root_revoked
         /\ winner = NoRecord <=> first.winner = NoRecord
         /\ winner # NoRecord => winner.body_digest = first.winner.body_digest
<1>1. /\ candidates \in Seq(Envelopes) /\ now \in Nat /\ sticky \in BOOLEAN
      /\ rootRevoked = RootRevokedBy(candidates, now, sticky)
      /\ BestOrNone(candidates, now, sticky, winner)
  BY ReturnedResult DEF TwiceInv, BothReturned
<1>2. PICK c \in Seq(Envelopes) :
        /\ Elements(c) = Elements(candidates)
        /\ first.root_revoked = RootRevokedBy(c, now, sticky)
        /\ BestOrNone(c, now, sticky, first.winner)
  BY DEF TwiceInv, FirstInv, BothReturned
<1>3. rootRevoked <=> first.root_revoked
  BY <1>1, <1>2, SameRootRevoked
<1>4. /\ winner = NoRecord <=> first.winner = NoRecord
      /\ winner # NoRecord => winner.body_digest = first.winner.body_digest
  <2>. DEFINE a == winner
              b == first.winner
  <2>1. /\ Elements(candidates) = Elements(c)
        /\ BestOrNone(candidates, now, sticky, a)
        /\ BestOrNone(c, now, sticky, b)
    BY <1>1, <1>2
  <2>2. /\ a = NoRecord <=> b = NoRecord
        /\ a # NoRecord => a.body_digest = b.body_digest
    <3>. HIDE DEF a, b
    <3>. QED
      BY <1>1, <2>1, SameBestBody
  <2>. QED
    BY <2>2
<1>. QED
  BY <1>3, <1>4

\* Neither the order nor the repetition of candidates decides the body
\* select_current returns.
THEOREM OrderFreeWinner == TwiceSpec => []SameWinningBody
<1>1. TwiceInv => SameWinningBody
  BY BothResults DEF SameWinningBody
<1>. QED
  BY <1>1, TwiceInvariant, PTL

\* Nor the sticky state it hands back.
THEOREM OrderFreeAuthority == TwiceSpec => []SameAuthorityState
<1>1. TwiceInv => SameAuthorityState
  BY BothResults DEF SameAuthorityState
<1>. QED
  BY <1>1, TwiceInvariant, PTL
\* Nor the code it gives a record, but for which copy of the winning body comes
\* first and is marked the winner.
THEOREM OrderFreeClassification == TwiceSpec => []SameClassification
<1>1. TwiceInv => SameClassification
  <2>. SUFFICES ASSUME TwiceInv, BothReturned,
                       NEW j \in DOMAIN outcomes, NEW k \in DOMAIN first.outcomes,
                       outcomes[j].record # NoRecord,
                       outcomes[j].record = first.outcomes[k].record
                PROVE  \/ outcomes[j].error = first.outcomes[k].error
                       \/ { outcomes[j].error, first.outcomes[k].error }
                            = { NoError, "duplicate" }
    BY DEF SameClassification
  <2>. DEFINE a == winner
              b == first.winner
              d == candidates
  <2>1. /\ d \in Seq(Envelopes) /\ now \in Nat /\ sticky \in BOOLEAN
        /\ BestOrNone(d, now, sticky, a)
        /\ j \in DOMAIN d
        /\ outcomes[j] = OutcomeAt(d, now, sticky, j)
    BY ReturnedResult DEF TwiceInv, BothReturned
  <2>2. PICK c \in Seq(Envelopes) :
          /\ Elements(c) = Elements(d)
          /\ BestOrNone(c, now, sticky, b)
          /\ k \in DOMAIN c
          /\ first.outcomes[k] = OutcomeAt(c, now, sticky, k)
    BY DEF TwiceInv, FirstInv, BothReturned
  <2>. HIDE DEF a, b, d
  <2>3. /\ Accepted(d[j])
        /\ outcomes[j].record = RecordAt(d, now, j)
        /\ outcomes[j].error \in CodeOf(d, now, sticky, a, j)
        /\ j \in EligiblePositions(d, now, sticky) => a # NoRecord
    BY <2>1, OutcomeCode
  <2>4. /\ first.outcomes[k].record = RecordAt(c, now, k)
        /\ first.outcomes[k].error \in CodeOf(c, now, sticky, b, k)
    BY <2>1, <2>2, OutcomeCode
  <2>5. d[j] = c[k]
    <3>1. /\ RecordAt(d, now, j).envelope = d[j]
          /\ RecordAt(c, now, k).envelope = c[k]
      BY DEF RecordAt, VerifiedRecord
    <3>2. RecordAt(d, now, j) = RecordAt(c, now, k)
      BY <2>3, <2>4
    <3>. QED
      BY <3>1, <3>2
  <2>6. CodeOf(d, now, sticky, a, j) = CodeOf(c, now, sticky, b, k)
    <3>1. Elements(d) = Elements(c)
      BY <2>2
    <3>. QED
      BY <2>1, <2>2, <2>3, <2>5, <3>1, SameCodes
  <2>7. ASSUME NEW x \in CodeOf(d, now, sticky, a, j),
               NEW y \in CodeOf(d, now, sticky, a, j)
        PROVE  x = y \/ { x, y } = { NoError, "duplicate" }
    BY DEF CodeOf
  <2>. QED
    BY <2>3, <2>4, <2>6, <2>7
<1>. QED
  BY <1>1, TwiceInvariant, PTL
=============================================================================
