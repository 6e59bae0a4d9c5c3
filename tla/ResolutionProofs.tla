--------------------------- MODULE ResolutionProofs ---------------------------
(***************************************************************************)
(* Proofs about Resolution: what the rules of verification say of a single *)
(* envelope, carried through the loops of select_current by SelectionInv.  *)
(***************************************************************************)
EXTENDS Resolution, SelectionProofs, NaturalsAndSequences, FiniteSetTheorems

----------------------------------------------------------------------------
(* One candidate.                                                          *)

\* A candidate without faults has no fault in any layer.
LEMMA AcceptedNoBodyFaults ==
  ASSUME NEW e \in Envelopes, Accepted(e)
  PROVE  V!BodyFaults(target, Content[e]) = {} /\ target.form = NoError
<1>. DEFINE c == Content[e]
<1>1. V!Faults(target, c) = {}
  <2>1. VerifyError[e] = NoError
    BY DEF Accepted
  <2>2. NoError \notin V!Faults(target, c)
    BY DEF V!Faults, V!BodyFaults, V!Verdicts, V!Fault, V!NoError, NoError
  <2>. QED
    BY <2>1, <2>2, ResolutionAssumption
<1>2. /\ c \in V!EnvelopeFields
      /\ target \in V!TargetFields
      /\ Absent \notin VerifyErrors \cup { NoError }
  BY ResolutionAssumption
<1>3. /\ c.profile # Absent
      /\ target.form # Absent
  BY <1>2 DEF V!EnvelopeFields, V!TargetFields, VerifyErrors, V!NoError, NoError
<1>. HIDE DEF c
<1>4. V!Verdicts({ target.form, c.profile }) = {}
  BY <1>1 DEF V!Faults
<1>5. c.profile = NoError /\ target.form = NoError
  BY <1>3, <1>4 DEF V!Verdicts, V!NoError, NoError
<1>6. c.encoding = NoError
  BY <1>1, <1>5 DEF V!Faults, V!NoError, NoError
<1>7. c.body.schema = NoError
  BY <1>1, <1>5, <1>6 DEF V!Faults, V!NoError, NoError
<1>8. V!BodyFaults(target, c) = {}
  BY <1>1, <1>5, <1>6, <1>7 DEF V!Faults, V!NoError, NoError
<1>. QED
  BY <1>5, <1>8 DEF c

\* A candidate that verifies is signed by the key the target commits to for the
\* record's authority state, and a revoked record reveals that key.
LEMMA AcceptedSigned ==
  ASSUME NEW e \in Envelopes, Accepted(e)
  PROVE  LET b == Content[e].body IN
         /\ b.authority = AUTHORITY_ROOT => SignedBy(e, target.digest.root)
         /\ b.authority = AUTHORITY_ROOT_REVOKED
              => /\ SignedBy(e, target.digest.commitment)
                 /\ b.revocationKey # Absent
                 /\ b.revocationKey.key = target.digest.commitment
<1>. DEFINE c == Content[e]
           b == c.body
<1>1. V!BodyFaults(target, c) = {} /\ target.form = NoError
  BY AcceptedNoBodyFaults
<1>. HIDE DEF c
<1>2. V!Bound(target, b)
  BY <1>1 DEF V!BodyFaults, V!Fault, V!NoError, NoError
<1>3. CASE b.authority = AUTHORITY_ROOT
  <2>1. V!Signed(c)
    BY <1>1, <1>3 DEF V!BodyFaults, V!Fault, V!AUTHORITY_ROOT_REVOKED,
                      AUTHORITY_ROOT
  <2>2. SignedBy(e, target.digest.root)
    BY <1>2, <1>3, <2>1 DEF V!Signed, V!SigningKey, V!Bound, V!AUTHORITY_ROOT,
                            AUTHORITY_ROOT, SignedBy, c
  <2>. QED
    BY <1>3, <2>2 DEF c, AUTHORITY_ROOT, AUTHORITY_ROOT_REVOKED
<1>4. CASE b.authority = AUTHORITY_ROOT_REVOKED
  <2>1. b.revocationKey # Absent
    BY <1>1, <1>4 DEF V!BodyFaults, V!Fault, V!AUTHORITY_ROOT_REVOKED,
                      AUTHORITY_ROOT_REVOKED
  <2>2. b.revocationKey.schema = NoError
    BY <1>1, <1>4, <2>1 DEF V!BodyFaults, V!Fault, V!AUTHORITY_ROOT_REVOKED,
                            AUTHORITY_ROOT_REVOKED, V!NoError, NoError
  <2>3. V!Reveals(b) /\ V!Signed(c)
    BY <1>1, <1>4, <2>1, <2>2 DEF V!BodyFaults, V!Fault, V!NoError, NoError,
                       V!AUTHORITY_ROOT_REVOKED, AUTHORITY_ROOT_REVOKED
  <2>4. b.revocationKey.key = target.digest.commitment
    BY <1>2, <2>3 DEF V!Reveals, V!Bound
  <2>5. SignedBy(e, target.digest.commitment)
    BY <1>4, <2>3, <2>4 DEF V!Signed, V!SigningKey, V!AUTHORITY_ROOT,
                            AUTHORITY_ROOT_REVOKED, SignedBy, c
  <2>. QED
    BY <1>4, <2>1, <2>4, <2>5 DEF c, AUTHORITY_ROOT, AUTHORITY_ROOT_REVOKED
<1>. QED
  BY <1>3, <1>4 DEF c

\* The same of a position of the list, in the terms of its record.
LEMMA RecordSigned ==
  ASSUME SelectionInv, NEW k \in TimelyPositions(candidates, now)
  PROVE  LET r == RecordAt(candidates, now, k)
             b == Content[candidates[k]].body
         IN
         /\ k \in DOMAIN candidates
         /\ r.envelope = candidates[k]
         /\ r.authority = AUTHORITY_ROOT
              => SignedBy(candidates[k], target.digest.root)
         /\ r.authority = AUTHORITY_ROOT_REVOKED
              => /\ SignedBy(candidates[k], target.digest.commitment)
                 /\ b.revocationKey # Absent
                 /\ b.revocationKey.key = target.digest.commitment
         /\ ~IsPremature(b.timestamp_ms, now)
<1>1. /\ k \in DOMAIN candidates
      /\ Accepted(candidates[k])
      /\ ~RecordAt(candidates, now, k).premature
  BY DEF TimelyPositions
<1>2. candidates[k] \in Envelopes
  BY <1>1 DEF SelectionInv, TypeOK
<1>3. LET b == Content[candidates[k]].body
          d == BodyDigest[candidates[k]]
      IN Timestamp[d] = b.timestamp_ms /\ Authority[d] = b.authority
  BY <1>1, <1>2, ResolutionAssumption
<1>. QED
  BY <1>1, <1>2, <1>3, AcceptedSigned DEF RecordAt, VerifiedRecord

----------------------------------------------------------------------------
(* The result.                                                             *)

\* The winner speaks for the target DID: the root key it commits to signed it
\* while the identity is not revoked, its revocation key afterwards.
THEOREM WinnerAuthorised == Spec => []WinnerIsAuthorised
<1>1. SelectionInv => WinnerIsAuthorised
  <2>. SUFFICES ASSUME SelectionInv, pc = "done", winner # NoRecord
                PROVE  SignedBy(winner.envelope,
                                IF rootRevoked THEN target.digest.commitment
                                               ELSE target.digest.root)
    BY DEF WinnerIsAuthorised
  <2>1. PICK k \in EligiblePositions(candidates, now, sticky) :
               winner = RecordAt(candidates, now, k)
    BY DEF SelectionInv, WinnerInv, WinnerIsBestOf
  <2>2. /\ k \in TimelyPositions(candidates, now)
        /\ winner.authority = ApplicableAuthority(rootRevoked)
    BY <2>1 DEF EligiblePositions, SelectionInv, RevokedInv
  <2>3. /\ winner.envelope = candidates[k]
        /\ winner.authority = AUTHORITY_ROOT
             => SignedBy(candidates[k], target.digest.root)
        /\ winner.authority = AUTHORITY_ROOT_REVOKED
             => SignedBy(candidates[k], target.digest.commitment)
    BY <2>1, <2>2, RecordSigned
  <2>. QED
    BY <2>2, <2>3 DEF ApplicableAuthority
<1>. QED
  BY <1>1, SelectionInvariant, PTL

\* An identity does not become revoked for a recipient before the recipient has
\* seen a timely record that the committed revocation key signed and revealed.
THEOREM RevocationAuthorised == Spec => []RevocationNeedsRevocationKey
<1>1. SelectionInv => RevocationNeedsRevocationKey
  <2>. SUFFICES ASSUME SelectionInv, pc = "done", rootRevoked, ~sticky
                PROVE  \E k \in DOMAIN candidates :
                         LET body == Content[candidates[k]].body IN
                         /\ SignedBy(candidates[k], target.digest.commitment)
                         /\ body.revocationKey # Absent
                         /\ body.revocationKey.key = target.digest.commitment
                         /\ ~IsPremature(body.timestamp_ms, now)
    BY DEF RevocationNeedsRevocationKey
  <2>1. RootRevokedBy(candidates, now, sticky)
    BY DEF SelectionInv, RevokedInv
  <2>2. PICK k \in TimelyPositions(candidates, now) :
               RecordAt(candidates, now, k).authority = AUTHORITY_ROOT_REVOKED
    BY <2>1 DEF RootRevokedBy
  <2>. QED
    BY <2>2, RecordSigned
<1>. QED
  BY <1>1, SelectionInvariant, PTL
----------------------------------------------------------------------------
(* Candidates that do not count.                                           *)

\* Going through finitely many positions in order meets each of them.
LEMMA InOrderMeets ==
  ASSUME NEW M \in SUBSET Nat, IsFiniteSet(M), NEW f \in InOrder(M)
  PROVE  /\ Cardinality(M) \in Nat /\ DOMAIN f = 1..Cardinality(M)
         /\ \A m \in DOMAIN f : f[m] \in M
         /\ \A k \in M : \E m \in DOMAIN f : f[m] = k
         /\ \A m, n \in DOMAIN f : f[m] <= f[n] <=> m <= n
<1>. DEFINE I == 1..Cardinality(M)
<1>1. Cardinality(M) \in Nat
  BY FS_CardinalityType
<1>2. /\ f \in [ I -> M ] /\ DOMAIN f = I
      /\ \A m, n \in I : m < n => f[m] < f[n]
      /\ \A m \in I : f[m] \in M /\ f[m] \in Nat
  BY DEF InOrder
<1>3. \A m, n \in I : f[m] = f[n] => m = n
  BY <1>1, <1>2
<1>4. IsFiniteSet(I) /\ Cardinality(I) = Cardinality(M)
  BY <1>1, FS_Interval
<1>5. f \in Injection(I, M)
  BY <1>2, <1>3 DEF Injection, IsInjective
<1>6. f \in Surjection(I, M)
  BY <1>4, <1>5, FS_Injection
<1>7. \A k \in M : \E m \in I : f[m] = k
  BY <1>6 DEF Surjection
<1>8. \A m, n \in I : f[m] <= f[n] <=> m <= n
  BY <1>1, <1>2
<1>. QED
  BY <1>1, <1>2, <1>7, <1>8

\* There is a way to do so: what is said of all of them is said of one.
LEMMA InOrderExists ==
  ASSUME NEW size \in Nat, NEW M \in SUBSET (1..size)
  PROVE  InOrder(M) # {}
<1>. DEFINE S == { n \in Nat : \A P \in SUBSET (1..n) : InOrder(P) # {} }
<1>1. 0 \in S
  <2>. SUFFICES ASSUME NEW P \in SUBSET (1..0) PROVE InOrder(P) # {}
    OBVIOUS
  <2>1. P = {}
    OBVIOUS
  <2>3. Cardinality(P) = 0
    BY <2>1, FS_EmptySet
  <2>2. [ m \in 1..0 |-> 0 ] \in InOrder(P)
    BY <2>1, <2>3 DEF InOrder
  <2>. QED
    BY <2>2
<1>2. ASSUME NEW n \in S PROVE n + 1 \in S
  <2>. SUFFICES ASSUME NEW P \in SUBSET (1..n + 1) PROVE InOrder(P) # {}
    OBVIOUS
  <2>1. n \in Nat /\ \A Q \in SUBSET (1..n) : InOrder(Q) # {}
    OBVIOUS
  <2>2. CASE n + 1 \notin P
    <3>1. P \in SUBSET (1..n)
      BY <2>1, <2>2
    <3>. QED
      BY <2>1, <3>1
  <2>3. CASE n + 1 \in P
    <3>. DEFINE Q == P \ { n + 1 }
                N == Cardinality(Q)
    <3>1. Q \in SUBSET (1..n)
      BY <2>1
    <3>2. PICK g : g \in InOrder(Q)
      BY <2>1, <3>1
    <3>3. N \in Nat /\ Cardinality(P) = N + 1
      <4>3. IsFiniteSet(1..n)
        BY <2>1, FS_Interval
      <4>1. IsFiniteSet(Q)
        BY <3>1, <4>3, FS_Subset
      <4>2. P = Q \cup { n + 1 } /\ n + 1 \notin Q
        BY <2>3
      <4>. QED
        BY <4>1, <4>2, FS_CardinalityType, FS_AddElement
    <3>4. /\ g \in [ 1..N -> Q ]
          /\ \A j, m \in 1..N : j < m => g[j] < g[m]
      BY <3>2 DEF InOrder
    <3>. HIDE DEF N
    <3>. DEFINE f == [ m \in 1..N + 1 |-> IF m = N + 1 THEN n + 1 ELSE g[m] ]
    <3>5. f \in [ 1..N + 1 -> P ]
      BY <2>3, <3>3, <3>4
    <3>6. ASSUME NEW j \in 1..N + 1, NEW m \in 1..N + 1, j < m
          PROVE  f[j] < f[m]
      <4>4. j \in 1..N /\ j # N + 1
        BY <3>3, <3>6
      <4>5. f[j] = g[j]
        BY <4>4
      <4>6. g[j] \in Q
        BY <3>4, <4>4
      <4>1. j \in 1..N /\ f[j] = g[j] /\ g[j] \in 1..n
        BY <3>1, <4>4, <4>5, <4>6
      <4>2. CASE m = N + 1
        BY <2>1, <4>1, <4>2
      <4>3. CASE m # N + 1
        BY <3>3, <3>4, <3>6, <4>1, <4>3
      <4>. QED
        BY <4>2, <4>3
    <3>. HIDE DEF f
    <3>7. f \in InOrder(P)
      BY <3>3, <3>5, <3>6 DEF InOrder
    <3>. QED
      BY <3>7
  <2>. QED
    BY <2>2, <2>3
<1>3. S = Nat
  <2>. HIDE DEF S
  <2>1. S \in SUBSET Nat
    BY DEF S
  <2>. QED
    BY <1>1, <1>2, <2>1, EveryNatural
<1>. QED
  BY <1>3

\* The list of the candidates at the positions f goes through.
Sublist(c, f) == [ m \in DOMAIN f |-> c[f[m]] ]

\* A sublist that leaves out no timely candidate has the same sticky state and the
\* same eligible candidates.
LEMMA SublistEligible ==
  ASSUME NEW c \in Seq(Envelopes), NEW t, NEW s,
         NEW M \in SUBSET DOMAIN c, TimelyPositions(c, t) \subseteq M,
         NEW f \in InOrder(M)
  PROVE  /\ Sublist(c, f) \in Seq(Envelopes)
         /\ RootRevokedBy(Sublist(c, f), t, s) <=> RootRevokedBy(c, t, s)
         /\ \A m \in DOMAIN f :
              /\ RecordAt(Sublist(c, f), t, m) = RecordAt(c, t, f[m])
              /\ m \in EligiblePositions(Sublist(c, f), t, s)
                   <=> f[m] \in EligiblePositions(c, t, s)
<1>. DEFINE d == Sublist(c, f)
<1>1. M \in SUBSET Nat /\ IsFiniteSet(M)
  <2>1. IsFiniteSet(1..Len(c))
    BY FS_Interval
  <2>. QED
    BY <2>1, FS_Subset
<1>2. /\ Cardinality(M) \in Nat /\ DOMAIN f = 1..Cardinality(M)
      /\ \A m \in DOMAIN f : f[m] \in M
      /\ \A k \in M : \E m \in DOMAIN f : f[m] = k
  BY <1>1, InOrderMeets
<1>3. DOMAIN d = DOMAIN f /\ \A m \in DOMAIN f : d[m] = c[f[m]] /\ d[m] \in Envelopes
  BY <1>2 DEF Sublist
<1>4. d \in Seq(Envelopes)
  BY <1>2, <1>3 DEF Sublist
<1>. HIDE DEF d
<1>5. \A m \in DOMAIN f : RecordAt(d, t, m) = RecordAt(c, t, f[m])
  BY <1>3 DEF RecordAt
<1>6. \A m \in DOMAIN f :
        m \in TimelyPositions(d, t) <=> f[m] \in TimelyPositions(c, t)
  BY <1>2, <1>3, <1>5 DEF TimelyPositions
<1>7. TimelyPositions(d, t) \subseteq DOMAIN f
  BY <1>3 DEF TimelyPositions
<1>8. RootRevokedBy(d, t, s) <=> RootRevokedBy(c, t, s)
  BY <1>2, <1>5, <1>6, <1>7 DEF RootRevokedBy
<1>9. ApplicableAuthority(RootRevokedBy(d, t, s))
        = ApplicableAuthority(RootRevokedBy(c, t, s))
  BY <1>8 DEF ApplicableAuthority
<1>10. \A m \in DOMAIN f :
         m \in EligiblePositions(d, t, s) <=> f[m] \in EligiblePositions(c, t, s)
  BY <1>5, <1>6, <1>9 DEF EligiblePositions
<1>. QED
  BY <1>4, <1>5, <1>8, <1>10 DEF d

\* It has the same winner, whatever the two lists call its position.
LEMMA SublistWinner ==
  ASSUME NEW c \in Seq(Envelopes), NEW t \in Nat, NEW s \in BOOLEAN, NEW rec,
         BestOrNone(c, t, s, rec),
         NEW M \in SUBSET DOMAIN c, TimelyPositions(c, t) \subseteq M,
         NEW f \in InOrder(M)
  PROVE  Select(Sublist(c, f), t, s).winner = rec
<1>. DEFINE d == Sublist(c, f)
           C == EligiblePositions(c, t, s)
           D == EligiblePositions(d, t, s)
<1>1. M \in SUBSET Nat /\ IsFiniteSet(M)
  <2>1. IsFiniteSet(1..Len(c))
    BY FS_Interval
  <2>. QED
    BY <2>1, FS_Subset
<1>2. /\ DOMAIN f \subseteq Nat \ { 0 }
      /\ \A k \in M : \E m \in DOMAIN f : f[m] = k
      /\ \A m, n \in DOMAIN f : f[m] <= f[n] <=> m <= n
  BY <1>1, InOrderMeets
<1>3. /\ d \in Seq(Envelopes)
      /\ \A m \in DOMAIN f : /\ RecordAt(d, t, m) = RecordAt(c, t, f[m])
                             /\ m \in D <=> f[m] \in C
  BY SublistEligible
<1>4. D \subseteq DOMAIN f /\ C \subseteq M
  BY DEF EligiblePositions, TimelyPositions, Sublist
<1>5. Select(d, t, s).winner = IF WinnerPosition(d, t, s) = 0 THEN NoRecord
                               ELSE RecordAt(d, t, WinnerPosition(d, t, s))
  BY DEF Select
<1>. HIDE DEF d, C, D
<1>6. CASE C = {} /\ rec = NoRecord
  <2>1. D = {}
    BY <1>3, <1>4, <1>6
  <2>. QED
    BY <1>5, <1>6, <2>1 DEF WinnerPosition, D, d
<1>7. ASSUME NEW k \in C, IsFirstBest(c, t, C, k), rec = RecordAt(c, t, k)
      PROVE  Select(d, t, s).winner = rec
  <2>1. PICK m \in DOMAIN f : f[m] = k
    BY <1>2, <1>4
  <2>2. m \in D
    BY <1>3, <2>1
  <2>3. IsFirstBest(d, t, D, m)
    <3>1. \A j \in D : ~Beats(RecordAt(d, t, j), RecordAt(d, t, m))
      BY <1>3, <1>4, <1>7, <2>1 DEF IsFirstBest
    <3>2. ASSUME NEW j \in D,
                 RecordAt(d, t, j).body_digest = RecordAt(d, t, m).body_digest
          PROVE  m <= j
      <4>1. j \in DOMAIN f /\ f[j] \in C
        BY <1>3, <1>4
      <4>2. f[m] <= f[j]
        BY <1>3, <1>7, <2>1, <3>2, <4>1 DEF IsFirstBest
      <4>. QED
        BY <1>2, <4>1, <4>2
    <3>. QED
      BY <2>2, <3>1, <3>2 DEF IsFirstBest
  <2>4. WinnerPosition(d, t, s) = m
    BY <1>3, <2>2, <2>3, WinnerPositionIs DEF D
  <2>. QED
    BY <1>2, <1>3, <1>5, <1>7, <2>1, <2>4
<1>. QED
  BY <1>6, <1>7 DEF BestOrNone, C, d

\* Envelopes that neither key of the target DID signed leave no trace in the
\* winner or the sticky state, wherever they stand in the list and however many
\* they are.
THEOREM StrangersIgnored == Spec => []StrangersChangeNothing
<1>1. SelectionInv => StrangersChangeNothing
  <2>. DEFINE M == { k \in DOMAIN candidates : BySubject(candidates[k]) }
  <2>. SUFFICES ASSUME SelectionInv, pc = "done", NEW f \in InOrder(M)
                PROVE  /\ winner = Select(Sublist(candidates, f), now, sticky).winner
                       /\ rootRevoked <=>
                            Select(Sublist(candidates, f), now, sticky).root_revoked
    BY DEF StrangersChangeNothing, Sublist
  <2>1. /\ candidates \in Seq(Envelopes) /\ now \in Nat /\ sticky \in BOOLEAN
        /\ rootRevoked = RootRevokedBy(candidates, now, sticky)
        /\ BestOrNone(candidates, now, sticky, winner)
    BY ReturnedResult
  <2>2. TimelyPositions(candidates, now) \subseteq M
    <3>. SUFFICES ASSUME NEW k \in TimelyPositions(candidates, now) PROVE k \in M
      OBVIOUS
    <3>1. k \in DOMAIN candidates /\ candidates[k] \in Envelopes
      BY <2>1 DEF TimelyPositions
    <3>2. RecordAt(candidates, now, k).authority
            \in { AUTHORITY_ROOT, AUTHORITY_ROOT_REVOKED }
      BY <2>1, <3>1, VerifiedRecordType DEF RecordAt, VerifiedRecords
    <3>. QED
      BY <3>1, <3>2, RecordSigned DEF BySubject
  <2>. HIDE DEF M
  <2>3. M \in SUBSET DOMAIN candidates
    BY DEF M
  <2>4. Select(Sublist(candidates, f), now, sticky).winner = winner
    BY <2>1, <2>2, <2>3, SublistWinner
  <2>5. RootRevokedBy(Sublist(candidates, f), now, sticky)
          <=> RootRevokedBy(candidates, now, sticky)
    BY <2>1, <2>2, <2>3, SublistEligible
  <2>. QED
    BY <2>1, <2>4, <2>5 DEF Select
<1>. QED
  BY <1>1, SelectionInvariant, PTL
=============================================================================
