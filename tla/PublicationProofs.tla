-------------------------- MODULE PublicationProofs --------------------------
(***************************************************************************)
(* What holds of the histories of next_timestamp, for every range of       *)
(* timestamps, every clock and every number of calls; and that a recipient *)
(* never goes back: for every number of calls and of records, every width  *)
(* of timestamps, skew and clocks, and whatever is delivered, lost and     *)
(* forgotten in between.                                                   *)
(***************************************************************************)
EXTENDS Publication, NaturalsAndSequences

----------------------------------------------------------------------------
(* The signer.                                                             *)

\* The entries of a history.
Entries == [ now : Clocks, known : SUBSET Nat,
             error : { NoError, "ValueError", "OverflowError" },
             timestamp : Timestamps \cup { NoTimestamp } ]

\* The safety properties of Signer together.
Safe == LaterThanKnown /\ NeverRunsAhead /\ ExhaustedOnlyAtTheEnd

\* What one call of next_timestamp answers, in each of its cases.
LEMMA Answer ==
  ASSUME NEW now \in Int, NEW previous \in Timestamps \cup { NoTimestamp },
         previous <= now \/ previous = NoTimestamp
  PROVE  LET answer == NextTimestamp(now, previous) IN
         /\ answer.error \in { NoError, "ValueError", "OverflowError" }
         /\ answer.error = NoError =>
              /\ answer.timestamp \in Timestamps
              /\ previous < answer.timestamp
              /\ now <= answer.timestamp /\ answer.timestamp <= now + 1
         /\ answer.error # NoError =>
              /\ answer.timestamp = NoTimestamp
              /\ now \in Timestamps => previous = UINT64_MAX /\ now = UINT64_MAX
  <1> DEFINE answer == NextTimestamp(now, previous)
  <1> USE SignerAssumption DEF Timestamps, NoTimestamp, Returned, Raised, NoError
  <1>1. CASE now \notin Timestamps
    BY <1>1 DEF NextTimestamp
  <1>2. CASE now \in Timestamps /\ previous = NoTimestamp
    <2>1. answer = Returned(now)
      BY <1>2 DEF NextTimestamp
    <2> QED BY <1>2, <2>1
  <1>3. CASE now \in Timestamps /\ previous # NoTimestamp /\ previous + 1 > UINT64_MAX
    <2>1. answer = Raised("OverflowError")
      BY <1>3 DEF NextTimestamp
    <2> QED BY <1>3, <2>1
  <1>4. CASE now \in Timestamps /\ previous # NoTimestamp /\ ~(previous + 1 > UINT64_MAX)
    <2>1. answer = Returned(IF previous + 1 > now THEN previous + 1 ELSE now)
      BY <1>4 DEF NextTimestamp
    <2> QED BY <1>4, <2>1
  <1> QED BY <1>1, <1>2, <1>3, <1>4

\* A call extends the history by its answer and keeps every property of it.
LEMMA CallKeeps ==
  ASSUME TypeOK, Safe, NEW now \in Clocks, NEW K \in SUBSET Issued,
         NEW previous \in Timestamps \cup { NoTimestamp }, Call(now, K, previous)
  PROVE  (TypeOK /\ Safe)'
  <1> DEFINE n      == Len(history) + 1
             answer == NextTimestamp(now, previous)
             entry  == [ now |-> now, known |-> K, error |-> answer.error,
                         timestamp |-> answer.timestamp ]
  <1>1. /\ history \in Seq(Entries) /\ K \subseteq 1..n-1 /\ K \subseteq Nat /\ n \in Nat
        /\ now \in Int /\ DOMAIN history = 1..n-1
        /\ \A k \in 1..n-1 : history[k] \in Entries
    <2>1. history \in Seq(Entries)
      BY DEF TypeOK, Entries
    <2>2. /\ Len(history) \in Nat /\ DOMAIN history = 1..Len(history)
          /\ \A k \in DOMAIN history : history[k] \in Entries
      BY <2>1
    <2> QED BY <2>1, <2>2, SignerAssumption DEF Issued
  <1>2. previous <= now \/ previous = NoTimestamp
    BY DEF Call, IsPrevious, Usable
  <1>3. /\ answer.error \in { NoError, "ValueError", "OverflowError" }
        /\ answer.error = NoError =>
             /\ answer.timestamp \in Timestamps
             /\ previous < answer.timestamp
             /\ now <= answer.timestamp /\ answer.timestamp <= now + 1
        /\ answer.error # NoError =>
             /\ answer.timestamp = NoTimestamp
             /\ now \in Timestamps => previous = UINT64_MAX /\ now = UINT64_MAX
    BY <1>1, <1>2, Answer
  <1> HIDE DEF answer
  <1>4. /\ history' = Append(history, entry)
        /\ entry \in Entries
    BY <1>1, <1>3 DEF Call, answer, Entries
  <1> HIDE DEF entry
  <1>5. /\ history' \in Seq(Entries)
        /\ DOMAIN history' = 1..n
        /\ history'[n] = entry
        /\ \A k \in 1..n-1 : history'[k] = history[k]
    BY <1>1, <1>4
  <1>6. /\ entry.now = now /\ entry.known = K
        /\ entry.error = answer.error /\ entry.timestamp = answer.timestamp
    BY DEF entry
  <1>7. TypeOK'
    <2>1. ASSUME NEW k \in 1..n
          PROVE  /\ \A j \in history'[k].known : j \in 1..k-1 /\ history'[j].error = NoError
                 /\ history'[k].error = NoError <=> history'[k].timestamp # NoTimestamp
      <3>1. CASE k = n
        BY <1>1, <1>3, <1>5, <1>6, <3>1, SignerAssumption
           DEF Issued, Timestamps, NoTimestamp
      <3>2. CASE k \in 1..n-1
        <4>1. \A j \in history[k].known : j \in 1..k-1 /\ history[j].error = NoError
          BY <1>1, <3>2 DEF TypeOK
        <4> QED BY <1>1, <1>5, <3>2, <4>1 DEF TypeOK
      <3> QED BY <1>1, <3>1, <3>2
    <2> QED BY <1>5, <2>1 DEF TypeOK, Entries
  <1>8. \A k \in 1..n-1 : k \in Issued' <=> k \in Issued
    BY <1>1, <1>5 DEF Issued
  <1>9. \A j \in K : /\ j \in 1..n-1 /\ history'[j] = history[j]
                     /\ history[j].timestamp \in Timestamps
    BY <1>1, <1>5 DEF Issued, TypeOK, Entries
  <1>10. \A j \in K : history[j].timestamp <= now =>
           history[j].timestamp <= previous /\ previous # NoTimestamp
    <2> SUFFICES ASSUME NEW j \in K, history[j].timestamp <= now
                 PROVE  history[j].timestamp <= previous /\ previous # NoTimestamp
      OBVIOUS
    <2>1. history[j].timestamp \in Usable(K, now)
      BY <1>9 DEF Usable
    <2> QED BY <2>1, SignerAssumption DEF Call, IsPrevious, Usable, Timestamps, NoTimestamp
  <1>11. LaterThanKnown'
    <2> SUFFICES ASSUME NEW k \in Issued', NEW j \in history'[k].known,
                        history'[j].timestamp <= history'[k].now
                 PROVE  history'[j].timestamp < history'[k].timestamp
      BY DEF LaterThanKnown
    <2>1. k \in 1..n
      BY <1>5 DEF Issued
    <2>2. CASE k = n
      <3>1. answer.error = NoError
        BY <1>5, <1>6, <2>2 DEF Issued
      <3> QED BY <1>3, <1>5, <1>6, <1>9, <1>10, <2>2, <3>1, SignerAssumption
              DEF Timestamps, NoTimestamp
    <2>3. CASE k \in 1..n-1
      <3>1. j \in 1..k-1 /\ k \in Issued /\ j \in history[k].known
        BY <1>1, <1>5, <1>8, <2>3 DEF TypeOK
      <3> QED BY <1>1, <1>5, <2>3, <3>1 DEF Safe, LaterThanKnown
    <2> QED BY <1>1, <2>1, <2>2, <2>3
  <1>12. NeverRunsAhead'
    <2> SUFFICES ASSUME NEW k \in Issued'
                 PROVE  /\ history'[k].now <= history'[k].timestamp
                        /\ history'[k].timestamp <= history'[k].now + 1
      BY DEF NeverRunsAhead
    <2>1. k \in 1..n
      BY <1>5 DEF Issued
    <2>2. CASE k = n
      BY <1>3, <1>5, <1>6, <2>2 DEF Issued
    <2>3. CASE k \in 1..n-1
      BY <1>5, <1>8, <2>3 DEF Safe, NeverRunsAhead
    <2> QED BY <1>1, <2>1, <2>2, <2>3
  <1>13. ExhaustedOnlyAtTheEnd'
    <2> SUFFICES ASSUME NEW k \in 1..n, k \notin Issued'
                 PROVE  \/ history'[k].now \notin Timestamps
                        \/ /\ history'[k].now = UINT64_MAX
                           /\ \E j \in history'[k].known :
                                history'[j].timestamp = UINT64_MAX
      BY <1>5 DEF ExhaustedOnlyAtTheEnd
    <2>2. CASE k = n
      <3>1. answer.error # NoError
        BY <1>5, <1>6, <2>2 DEF Issued
      <3>2. CASE now \notin Timestamps
        BY <1>5, <1>6, <2>2, <3>2
      <3>3. CASE now \in Timestamps
        <4>1. previous = UINT64_MAX /\ now = UINT64_MAX
          BY <1>3, <3>1, <3>3
        <4>2. previous \in Usable(K, now)
          BY <4>1, SignerAssumption DEF Call, IsPrevious, NoTimestamp
        <4>3. PICK j \in K : history[j].timestamp = UINT64_MAX
          BY <4>1, <4>2 DEF Usable
        <4> QED BY <1>5, <1>6, <1>9, <2>2, <4>1, <4>3
      <3> QED BY <3>2, <3>3
    <2>3. CASE k \in 1..n-1
      <3>1. /\ k \in DOMAIN history \ Issued /\ history'[k] = history[k]
            /\ \A j \in history[k].known : j \in 1..n-1 /\ history'[j] = history[j]
        <4>1. \A j \in history[k].known : j \in 1..k-1
          BY <1>1, <2>3 DEF TypeOK
        <4> QED BY <1>1, <1>5, <1>8, <2>3, <4>1
      <3> QED BY <3>1 DEF Safe, ExhaustedOnlyAtTheEnd
    <2> QED BY <1>1, <2>2, <2>3
  <1> QED BY <1>7, <1>11, <1>12, <1>13 DEF Safe

LEMMA SignerSafe == Spec => [](TypeOK /\ Safe)
  <1>1. Init => TypeOK /\ Safe
    BY DEF Init, TypeOK, Safe, LaterThanKnown, NeverRunsAhead, ExhaustedOnlyAtTheEnd,
           Issued
  <1>2. TypeOK /\ Safe /\ [Next]_history => (TypeOK /\ Safe)'
    <2>1. CASE Next
      BY <2>1, CallKeeps DEF Next
    <2>2. CASE UNCHANGED history
      BY <2>2 DEF TypeOK, Safe, LaterThanKnown, NeverRunsAhead, ExhaustedOnlyAtTheEnd,
                  Issued
    <2> QED BY <2>1, <2>2
  <1> QED BY <1>1, <1>2, PTL DEF Spec

\* Every call of next_timestamp ends with one timestamp of the range or one of
\* its two exceptions, and knows only of calls made before it that did not raise.
THEOREM SignerTypeOK == Spec => []TypeOK
  BY SignerSafe, PTL

\* However many devices call next_timestamp, at whatever clocks, each record is
\* stamped later than every record its signer knew of that did not lead the
\* signer's clock.
THEOREM SignerLaterThanKnown == Spec => []LaterThanKnown
  <1>1. TypeOK /\ Safe => LaterThanKnown
    BY DEF Safe
  <1> QED BY <1>1, SignerSafe, PTL

\* No chain of calls runs ahead of the clocks: a timestamp leads the clock of the
\* call that made it by one at the most.
THEOREM SignerNeverRunsAhead == Spec => []NeverRunsAhead
  <1>1. TypeOK /\ Safe => NeverRunsAhead
    BY DEF Safe
  <1> QED BY <1>1, SignerSafe, PTL

\* next_timestamp raises only for a clock out of range, or at the last clock value
\* when the last timestamp is known.
THEOREM SignerExhaustedOnlyAtTheEnd == Spec => []ExhaustedOnlyAtTheEnd
  <1>1. TypeOK /\ Safe => ExhaustedOnlyAtTheEnd
    BY DEF Safe
  <1> QED BY <1>1, SignerSafe, PTL


----------------------------------------------------------------------------
(* What Select answers.                                                    *)

\* The digests that select_current may choose from among those of c.
Usables(c, t, authority) ==
  { c[k] : k \in { k \in DOMAIN c : /\ ~IsPremature(Timestamp[c[k]], t)
                                    /\ Authority[c[k]] = authority } }

\* Among records that are not premature there is a newest one: timestamps are
\* bounded by the clock, and among equal ones digests have a least.
LEMMA NewestExists ==
  ASSUME NEW t \in Int, NEW S \in SUBSET Digests, S # {},
         \A d \in S : ~IsPremature(Timestamp[d], t)
  PROVE  \E d \in S : \A x \in S : ~Newer(x, d)
<1>. DEFINE B    == t + MAX_FUTURE_SKEW_MS
            Lead == { B - Timestamp[d] : d \in S }
<1>1. \A d \in S : d \in Nat /\ Timestamp[d] \in Nat /\ B - Timestamp[d] \in Nat
  BY RecordsAssumption, SkewAssumption DEF IsPremature
<1>2. Lead \subseteq Nat /\ Lead # {}
  BY <1>1
<1>3. PICK m \in Lead : \A n \in Lead : m <= n
  BY <1>2, LeastNatural
<1>. DEFINE Latest == { d \in S : B - Timestamp[d] = m }
<1>4. Latest \subseteq Nat /\ Latest # {}
  BY <1>1, <1>3
<1>5. PICK d \in Latest : \A x \in Latest : d <= x
  BY <1>4, LeastNatural
<1>6. ASSUME NEW x \in S
      PROVE  ~Newer(x, d)
  <2>1. B - Timestamp[d] <= B - Timestamp[x]
    BY <1>3
  <2>2. Timestamp[x] <= Timestamp[d]
    BY <1>1, <2>1, SkewAssumption
  <2>3. Timestamp[x] = Timestamp[d] => d <= x
    BY <1>5
  <2>. QED
    BY <1>1, <2>2, <2>3 DEF Newer
<1>. QED
  BY <1>6

LEMMA RecordOf ==
  ASSUME NEW d \in Digests, NEW t \in Int
  PROVE  /\ VerifiedRecord(d, t) # NoRecord
         /\ VerifiedRecord(d, t).body_digest = d
         /\ VerifiedRecord(d, t).timestamp_ms = Timestamp[d]
         /\ VerifiedRecord(d, t).authority = Authority[d]
         /\ VerifiedRecord(d, t).premature = IsPremature(Timestamp[d], t)
<1>1. BodyDigest[d] = d /\ d \in Envelopes
  BY PublicationAssumption
<1>2. /\ Timestamp[d] \in Nat
      /\ Authority[d] \in { AUTHORITY_ROOT, AUTHORITY_ROOT_REVOKED }
  BY RecordsAssumption
<1>3. /\ IsPremature(Timestamp[d], t) \in BOOLEAN
      /\ IsStale(ValidUntil[d], t) \in BOOLEAN
  BY DEF IsPremature, IsStale
<1>4. VerifiedRecord(d, t) \in VerifiedRecords
  BY <1>1, <1>2, <1>3 DEF VerifiedRecord, VerifiedRecords
<1>5. NoRecord \notin VerifiedRecords
  BY RecordsAssumption
<1>. QED
  BY <1>1, <1>4, <1>5 DEF VerifiedRecord

\* _beats compares records as Newer compares their digests.
LEMMA BeatsIsNewer ==
  ASSUME NEW d \in Digests, NEW e \in Digests, NEW t \in Int
  PROVE  Beats(VerifiedRecord(d, t), VerifiedRecord(e, t)) <=> Newer(d, e)
<1>1. Timestamp[d] \in Nat /\ Timestamp[e] \in Nat
  BY RecordsAssumption
<1>. QED
  BY <1>1, RecordOf DEF Beats, Newer

\* The winner is a newest record of the applicable authority, if there is one.
IsAnswer(c, t, s, winner, revoked) ==
  LET U == Usables(c, t, ApplicableAuthority(revoked)) IN
  /\ revoked \in BOOLEAN
  /\ revoked <=> s \/ Usables(c, t, AUTHORITY_ROOT_REVOKED) # {}
  /\ U = {} => winner = NoRecord
  /\ U # {} => \E d \in U : /\ winner = VerifiedRecord(d, t)
                            /\ \A x \in U : ~Newer(x, d)

LEMMA SelectAnswers ==
  ASSUME NEW c \in Seq(Digests), NEW t \in Int, NEW s \in BOOLEAN,
         NEW a, a = Select(c, t, s)
  PROVE  IsAnswer(c, t, s, a.winner, a.root_revoked)
<1>. DEFINE U == Usables(c, t, ApplicableAuthority(a.root_revoked))
<1>. DEFINE E == EligiblePositions(c, t, s)
            w == WinnerPosition(c, t, s)
<1>1. \A k \in DOMAIN c : /\ c[k] \in Digests /\ Accepted(c[k]) /\ k \in Nat
                          /\ RecordAt(c, t, k) = VerifiedRecord(c[k], t)
                          /\ RecordAt(c, t, k).premature = IsPremature(Timestamp[c[k]], t)
                          /\ RecordAt(c, t, k).authority = Authority[c[k]]
                          /\ RecordAt(c, t, k).body_digest = c[k]
  BY PublicationAssumption, RecordOf DEF RecordAt, Accepted
<1>2. TimelyPositions(c, t) = { k \in DOMAIN c : ~IsPremature(Timestamp[c[k]], t) }
  BY <1>1 DEF TimelyPositions
<1>3. /\ a.root_revoked = RootRevokedBy(c, t, s)
      /\ a.winner = IF w = 0 THEN NoRecord ELSE RecordAt(c, t, w)
  BY DEF Select
<1>4. RootRevokedBy(c, t, s) <=> s \/ Usables(c, t, AUTHORITY_ROOT_REVOKED) # {}
  BY <1>1, <1>2 DEF RootRevokedBy, Usables
<1>5. E = { k \in DOMAIN c : /\ ~IsPremature(Timestamp[c[k]], t)
                             /\ Authority[c[k]] = ApplicableAuthority(a.root_revoked) }
  BY <1>1, <1>2, <1>3 DEF EligiblePositions
<1>6. U = { c[k] : k \in E }
  BY <1>5 DEF Usables
<1>7. a.root_revoked \in BOOLEAN
  BY <1>3 DEF RootRevokedBy
<1>8. CASE U = {}
  <2>1. E = {}
    BY <1>6, <1>8
  <2>2. w = 0
    BY <2>1 DEF WinnerPosition
  <2>. QED
    BY <1>3, <1>4, <1>7, <1>8, <2>2 DEF IsAnswer
<1>9. CASE U # {}
  <2>1. U \subseteq Digests /\ \A d \in U : ~IsPremature(Timestamp[d], t)
    BY <1>1, <1>5, <1>6
  <2>2. PICK d \in U : \A x \in U : ~Newer(x, d)
    BY <1>9, <2>1, NewestExists
  <2>. DEFINE Bearers == { k \in E : c[k] = d }
  <2>3. Bearers # {} /\ Bearers \subseteq Nat
    BY <1>1, <1>5, <1>6
  <2>4. PICK k \in Bearers : \A j \in Bearers : k <= j
    BY <2>3, LeastNatural
  <2>5. IsFirstBest(c, t, E, k)
    <3>1. ASSUME NEW j \in E
          PROVE  /\ ~Beats(RecordAt(c, t, j), RecordAt(c, t, k))
                 /\ RecordAt(c, t, j).body_digest = RecordAt(c, t, k).body_digest => k <= j
      <4>1. j \in DOMAIN c /\ k \in DOMAIN c /\ c[j] \in U /\ c[k] = d
        BY <1>5, <1>6
      <4>2. ~Beats(RecordAt(c, t, j), RecordAt(c, t, k))
        BY <1>1, <2>2, <4>1, BeatsIsNewer
      <4>. QED
        BY <1>1, <2>4, <4>1, <4>2
    <3>. QED
      BY <3>1 DEF IsFirstBest
  <2>6. w \in E /\ IsFirstBest(c, t, E, w)
    <3>1. E # {} /\ \E j \in E : IsFirstBest(c, t, E, j)
      BY <2>5
    <3>. QED
      BY <3>1 DEF WinnerPosition
  <2>7. w \in DOMAIN c /\ w # 0 /\ c[w] \in U
    <3>1. w \in DOMAIN c
      BY <1>5, <2>6
    <3>2. w # 0
      BY <3>1
    <3>. QED
      BY <1>6, <2>6, <3>1, <3>2
  <2>8. a.winner = VerifiedRecord(c[w], t)
    BY <1>1, <1>3, <2>7
  <2>9. ASSUME NEW x \in U
        PROVE  ~Newer(x, c[w])
    <3>1. PICK j \in E : c[j] = x
      BY <1>6
    <3>2. ~Beats(RecordAt(c, t, j), RecordAt(c, t, w))
      BY <2>6 DEF IsFirstBest
    <3>3. j \in DOMAIN c
      BY <1>5
    <3>. QED
      BY <1>1, <2>7, <3>1, <3>2, <3>3, BeatsIsNewer
  <2>. QED
    BY <1>3, <1>4, <1>7, <1>9, <2>7, <2>8, <2>9 DEF IsAnswer
<1>. QED
  BY <1>8, <1>9

----------------------------------------------------------------------------
(* What holds at every step.                                               *)

\* The body of a call bears the timestamp that the call returned.
BodiesInv ==
  /\ bodies \in Seq(Digests \cup { NoRecord })
  /\ Len(bodies) = Len(history)
  /\ \A k \in Issued : /\ bodies[k] \in Digests
                       /\ Timestamp[bodies[k]] = history[k].timestamp

\* What the recipient takes for current is a record of the authority that its
\* sticky state calls for.
RecipientInv ==
  /\ clock \in Int
  /\ held \in Seq(Digests)
  /\ sticky \in BOOLEAN
  /\ current # NoRecord =>
       \E d \in Digests, t \in Int :
         current = VerifiedRecord(d, t) /\ Authority[d] = ApplicableAuthority(sticky)

PublicationInv == TypeOK /\ Safe /\ BodiesInv /\ RecipientInv

\* What the recipient holds are digests of bodies.
LEMMA HeldAreDigests ==
  ASSUME PublicationInv
  PROVE  Published \subseteq Digests /\ Held \subseteq Digests
<1>1. Published \subseteq Digests
  BY DEF PublicationInv, BodiesInv, Published
<1>2. held \in Seq(Digests)
  BY DEF PublicationInv, RecipientInv
<1>. QED
  BY <1>1, <1>2 DEF Held

LEMMA PublishKeeps ==
  ASSUME PublicationInv, Publish
  PROVE  PublicationInv'
<1>1. Next
  BY DEF Publish
<1>2. TypeOK' /\ Safe'
  BY <1>1, CallKeeps DEF PublicationInv, Next
<1>3. RecipientInv'
  BY DEF Publish, PublicationInv, RecipientInv
<1>. DEFINE n == Len(history)
<1>4. PICK entry : history' = Append(history, entry)
  BY <1>1 DEF Next, Call
<1>5. history \in Seq(Entries) /\ history' \in Seq(Entries)
  BY <1>2 DEF PublicationInv, TypeOK, Entries
<1>6. /\ n \in Nat /\ DOMAIN history = 1..n
      /\ Len(history') = n + 1 /\ DOMAIN history' = 1..(n + 1)
      /\ history'[n + 1] = entry
      /\ \A k \in 1..n : history'[k] = history[k]
  <2>1. n \in Nat /\ DOMAIN history = 1..n
    BY <1>5
  <2>2. Len(history') = n + 1
    BY <1>4, <1>5
  <2>3. DOMAIN history' = 1..(n + 1)
    BY <1>5, <2>1, <2>2
  <2>. QED
    BY <1>4, <1>5, <2>1, <2>2, <2>3
<1>7. PICK b \in Digests \cup { NoRecord } :
        /\ bodies' = Append(bodies, b)
        /\ entry.error = NoError => b \in Digests /\ Timestamp[b] = entry.timestamp
  <2>1. history'[Len(history')] = entry
    BY <1>6
  <2>2. CASE entry.error = NoError
    <3>1. \E d \in Digests : Timestamp[d] = entry.timestamp /\ bodies' = Append(bodies, d)
      BY <2>1, <2>2 DEF Publish
    <3>. QED
      BY <3>1
  <2>3. CASE entry.error # NoError
    <3>1. bodies' = Append(bodies, NoRecord)
      BY <2>1, <2>3 DEF Publish
    <3>. QED
      BY <2>3, <3>1
  <2>. QED
    BY <2>2, <2>3
<1>8. /\ bodies \in Seq(Digests \cup { NoRecord }) /\ Len(bodies) = n
      /\ \A k \in Issued : bodies[k] \in Digests /\ Timestamp[bodies[k]] = history[k].timestamp
  BY DEF PublicationInv, BodiesInv
<1>9. /\ bodies' \in Seq(Digests \cup { NoRecord }) /\ Len(bodies') = n + 1
      /\ bodies'[n + 1] = b
      /\ \A k \in 1..n : bodies'[k] = bodies[k]
  BY <1>6, <1>7, <1>8
<1>10. ASSUME NEW k \in Issued'
       PROVE  bodies'[k] \in Digests /\ Timestamp[bodies'[k]] = history'[k].timestamp
  <2>1. k \in 1..(n + 1) /\ history'[k].error = NoError
    BY <1>6 DEF Issued
  <2>2. CASE k = n + 1
    BY <1>6, <1>7, <1>9, <2>1, <2>2
  <2>3. CASE k \in 1..n
    BY <1>6, <1>8, <1>9, <2>1, <2>3 DEF Issued
  <2>. QED
    BY <1>6, <2>1, <2>2, <2>3
<1>11. BodiesInv'
  BY <1>6, <1>9, <1>10 DEF BodiesInv
<1>. QED
  BY <1>2, <1>3, <1>11 DEF PublicationInv

\* The signers' side does not change while the recipient acts.
LEMMA SignersKeep ==
  ASSUME PublicationInv, UNCHANGED << history, bodies >>
  PROVE  TypeOK' /\ Safe' /\ BodiesInv'
BY DEF PublicationInv, TypeOK, Safe, LaterThanKnown, NeverRunsAhead,
       ExhaustedOnlyAtTheEnd, Issued, BodiesInv

\* A call of select_current on what the recipient holds.
LEMMA ResolveAnswers ==
  ASSUME PublicationInv, ResolveHeld, NEW U,
         U = Usables(held, clock, ApplicableAuthority(sticky'))
  PROVE  /\ sticky' \in BOOLEAN
         /\ sticky' <=> sticky \/ Usables(held, clock, AUTHORITY_ROOT_REVOKED) # {}
         /\ U \subseteq Digests
         /\ U = {} => current' = NoRecord
         /\ U # {} => \E d \in U : /\ current' = VerifiedRecord(d, clock)
                                   /\ \A x \in U : ~Newer(x, d)
<1>1. held \in Seq(Digests) /\ clock \in Int /\ sticky \in BOOLEAN
  BY DEF PublicationInv, RecipientInv
<1>2. /\ current' = Select(held, clock, sticky).winner
      /\ sticky' = Select(held, clock, sticky).root_revoked
  BY DEF ResolveHeld, Resolve
<1>3. U \subseteq Digests
  BY <1>1 DEF Usables
<1>4. IsAnswer(held, clock, sticky, current', sticky')
  BY <1>1, <1>2, SelectAnswers
<1>. QED
  BY <1>3, <1>4 DEF IsAnswer

LEMMA ResolveKeeps ==
  ASSUME PublicationInv, ResolveHeld
  PROVE  PublicationInv'
<1>. DEFINE U == Usables(held, clock, ApplicableAuthority(sticky'))
<1>1. UNCHANGED << history, bodies, clock, held >>
  BY DEF ResolveHeld
<1>2. sticky' \in BOOLEAN
  BY ResolveAnswers
<1>3. current' # NoRecord =>
        \E d \in U : d \in Digests /\ current' = VerifiedRecord(d, clock)
  BY ResolveAnswers
<1>4. \A d \in U : Authority[d] = ApplicableAuthority(sticky')
  BY DEF Usables
<1>5. RecipientInv'
  <2>1. clock \in Int
    BY DEF PublicationInv, RecipientInv
  <2>. HIDE DEF U
  <2>2. current' # NoRecord =>
          \E d \in Digests, t \in Int :
            current' = VerifiedRecord(d, t) /\ Authority[d] = ApplicableAuthority(sticky')
    BY <1>3, <1>4, <2>1
  <2>. QED
    BY <1>1, <1>2, <2>2 DEF PublicationInv, RecipientInv
<1>. QED
  BY <1>1, <1>5, SignersKeep DEF PublicationInv

LEMMA PublicationInvariant == PublicationSpec => []PublicationInv
<1>1. PublicationInit => PublicationInv
  <2>. SUFFICES ASSUME PublicationInit PROVE PublicationInv
    OBVIOUS
  <2>1. Init /\ history = << >> /\ bodies = << >>
    BY DEF PublicationInit, Init
  <2>2. TypeOK /\ Safe
    BY <2>1 DEF Init, TypeOK, Safe, LaterThanKnown, NeverRunsAhead,
                ExhaustedOnlyAtTheEnd, Issued
  <2>3. BodiesInv
    BY <2>1 DEF BodiesInv, Issued
  <2>4. RecipientInv
    <3>1. clock \in Int
      BY SignerAssumption DEF PublicationInit
    <3>2. held = << >> /\ sticky = FALSE /\ current = NoRecord
      BY DEF PublicationInit
    <3>3. << >> \in Seq(Digests) /\ FALSE \in BOOLEAN
      OBVIOUS
    <3>4. held \in Seq(Digests) /\ sticky \in BOOLEAN
      BY <3>2, <3>3
    <3>. QED
      BY <3>1, <3>2, <3>4, Zenon DEF RecipientInv
  <2>. QED
    BY <2>2, <2>3, <2>4 DEF PublicationInv
<1>2. PublicationInv /\ [PublicationNext]_vars => PublicationInv'
  <2>. SUFFICES ASSUME PublicationInv, [PublicationNext]_vars PROVE PublicationInv'
    OBVIOUS
  <2>1. CASE Publish
    BY <2>1, PublishKeeps
  <2>2. CASE Deliver
    <3>1. RecipientInv'
      BY <2>2, HeldAreDigests DEF Deliver, PublicationInv, RecipientInv
    <3>. QED
      BY <2>2, <3>1, SignersKeep DEF Deliver, PublicationInv
  <2>3. CASE Forget
    <3>1. held' \in Seq(Digests)
      BY <2>3 DEF Forget, RemoveAt, PublicationInv, RecipientInv
    <3>2. RecipientInv'
      BY <2>3, <3>1 DEF Forget, PublicationInv, RecipientInv
    <3>. QED
      BY <2>3, <3>2, SignersKeep DEF Forget, PublicationInv
  <2>4. CASE CorrectClock
    <3>1. RecipientInv'
      BY <2>4, SignerAssumption DEF CorrectClock, PublicationInv, RecipientInv
    <3>. QED
      BY <2>4, <3>1, SignersKeep DEF CorrectClock, PublicationInv
  <2>5. CASE ResolveHeld
    BY <2>5, ResolveKeeps
  <2>6. CASE UNCHANGED vars
    <3>1. RecipientInv'
      BY <2>6 DEF vars, PublicationInv, RecipientInv
    <3>. QED
      BY <2>6, <3>1, SignersKeep DEF vars, PublicationInv
  <2>. QED
    BY <2>1, <2>2, <2>3, <2>4, <2>5, <2>6 DEF PublicationNext
<1>. QED
  BY <1>1, <1>2, PTL DEF PublicationSpec

----------------------------------------------------------------------------
(* The theorems.                                                           *)

\* The current record only changes when select_current is called.
LEMMA OnlyResolveMoves ==
  ASSUME [PublicationNext]_vars, current' # current \/ sticky' # sticky
  PROVE  ResolveHeld
BY DEF PublicationNext, Publish, Deliver, Forget, CorrectClock, vars

\* What RecipientInv says of a current record.
LEMMA CurrentIs ==
  ASSUME PublicationInv, current # NoRecord
  PROVE  /\ current.body_digest \in Digests
         /\ current.authority = Authority[current.body_digest]
         /\ current.authority = ApplicableAuthority(sticky)
<1>1. PICK d \in Digests, t \in Int :
        current = VerifiedRecord(d, t) /\ Authority[d] = ApplicableAuthority(sticky)
  BY DEF PublicationInv, RecipientInv
<1>2. current.body_digest = d /\ current.authority = Authority[d]
  BY <1>1, RecordOf
<1>. QED
  BY <1>1, <1>2

\* A timely record of the applicable authority that is held excludes all that are
\* less new.
LEMMA MovesToNewest ==
  ASSUME PublicationInv, ResolveHeld,
         NEW d \in Held, Timely(d), Authority[d] = ApplicableAuthority(sticky')
  PROVE  /\ current' # NoRecord
         /\ current'.body_digest \in Digests
         /\ current'.authority = ApplicableAuthority(sticky')
         /\ ~Newer(d, current'.body_digest)
<1>. DEFINE U == Usables(held, clock, ApplicableAuthority(sticky'))
<1>1. d \in U
  BY DEF Held, Timely, Usables
<1>2. \A x \in U : x \in Digests /\ Authority[x] = ApplicableAuthority(sticky')
  <2>1. U \subseteq Digests
    BY ResolveAnswers
  <2>. QED
    BY <2>1 DEF Usables
<1>3. U # {} => \E x \in U : /\ current' = VerifiedRecord(x, clock)
                             /\ \A y \in U : ~Newer(y, x)
  BY ResolveAnswers
<1>. HIDE DEF U
<1>4. PICK x \in U : current' = VerifiedRecord(x, clock) /\ \A y \in U : ~Newer(y, x)
  BY <1>1, <1>3
<1>5. clock \in Int
  BY DEF PublicationInv, RecipientInv
<1>6. /\ current' # NoRecord /\ current'.body_digest = x
      /\ current'.authority = Authority[x]
  BY <1>2, <1>4, <1>5, RecordOf
<1>. QED
  BY <1>1, <1>2, <1>4, <1>6

\* Two records are newer one than the other, or one.
LEMMA NewerIsTotal ==
  ASSUME NEW d \in Digests, NEW x \in Digests, ~Newer(d, x)
  PROVE  x = d \/ Newer(x, d)
<1>1. d \in Nat /\ x \in Nat /\ Timestamp[d] \in Nat /\ Timestamp[x] \in Nat
  BY RecordsAssumption
<1>. QED
  BY <1>1 DEF Newer

\* A recipient that carries root_revoked forward keeps it and takes no root record
\* for current again, for every history, delivery and correction of the clock.
THEOREM RecipientRevokedForGood == PublicationSpec => RevokedForGood
<1>1. PublicationInv /\ PublicationInv' /\ [PublicationNext]_vars =>
        (sticky => /\ sticky'
                   /\ (current' # NoRecord /\ current' # current
                         => current'.authority = AUTHORITY_ROOT_REVOKED))
  <2>. SUFFICES ASSUME PublicationInv, PublicationInv', [PublicationNext]_vars, sticky
                PROVE  /\ sticky'
                       /\ (current' # NoRecord /\ current' # current
                             => current'.authority = AUTHORITY_ROOT_REVOKED)
    OBVIOUS
  <2>1. sticky'
    <3>1. CASE sticky' = sticky
      BY <3>1
    <3>2. CASE sticky' # sticky
      BY <3>2, OnlyResolveMoves, ResolveAnswers
    <3>. QED
      BY <3>1, <3>2
  <2>2. ASSUME current' # NoRecord
        PROVE  current'.authority = AUTHORITY_ROOT_REVOKED
    <3>1. PICK d \in Digests, t \in Int :
            current' = VerifiedRecord(d, t) /\ Authority[d] = ApplicableAuthority(sticky')
      BY <2>2 DEF PublicationInv, RecipientInv
    <3>2. current'.authority = Authority[d]
      BY <3>1, RecordOf
    <3>. QED
      BY <2>1, <3>1, <3>2 DEF ApplicableAuthority
  <2>. QED
    BY <2>1, <2>2
<1>. QED
  BY <1>1, PublicationInvariant, PTL DEF PublicationSpec, RevokedForGood

\* As long as its current record is held and not premature, a recipient moves to
\* a newer record of the same authority or to revocation, never to none.
THEOREM RecipientNoRollback == PublicationSpec => NoRollback
<1>1. PublicationInv /\ [PublicationNext]_vars =>
        (AtHand /\ current' # current =>
           /\ current' # NoRecord
           /\ \/ current'.body_digest = current.body_digest
              \/ Newer(current'.body_digest, current.body_digest)
              \/ IsRoot(current.body_digest) /\ sticky')
  <2>. SUFFICES ASSUME PublicationInv, [PublicationNext]_vars, AtHand, current' # current
                PROVE  /\ current' # NoRecord
                       /\ \/ current'.body_digest = current.body_digest
                          \/ Newer(current'.body_digest, current.body_digest)
                          \/ IsRoot(current.body_digest) /\ sticky'
    OBVIOUS
  <2>. DEFINE d == current.body_digest
  <2>1. ResolveHeld
    BY OnlyResolveMoves
  <2>2. /\ d \in Digests /\ Authority[d] = ApplicableAuthority(sticky)
        /\ d \in Held /\ Timely(d)
    BY CurrentIs DEF AtHand
  <2>3. sticky' \in BOOLEAN /\ (sticky' <=> sticky \/ Usables(held, clock, AUTHORITY_ROOT_REVOKED) # {})
    BY <2>1, ResolveAnswers
  <2>4. CASE sticky' <=> sticky
    <3>1. ApplicableAuthority(sticky') = ApplicableAuthority(sticky)
      BY <2>4 DEF ApplicableAuthority
    <3>2. /\ current' # NoRecord /\ current'.body_digest \in Digests
          /\ ~Newer(d, current'.body_digest)
      BY <2>1, <2>2, <3>1, MovesToNewest
    <3>. QED
      BY <2>2, <3>2, NewerIsTotal
  <2>5. CASE ~sticky /\ sticky'
    <3>1. ApplicableAuthority(sticky') = AUTHORITY_ROOT_REVOKED
      BY <2>5 DEF ApplicableAuthority
    <3>2. PICK x \in Usables(held, clock, AUTHORITY_ROOT_REVOKED) : TRUE
      BY <2>3, <2>5
    <3>3. x \in Held /\ Timely(x) /\ Authority[x] = ApplicableAuthority(sticky')
      BY <3>1, <3>2 DEF Usables, Held, Timely
    <3>4. current' # NoRecord
      BY <2>1, <3>3, MovesToNewest
    <3>5. IsRoot(d)
      BY <2>2, <2>5 DEF IsRoot, ApplicableAuthority
    <3>. QED
      BY <2>5, <3>4, <3>5
  <2>. QED
    BY <2>3, <2>4, <2>5
<1>. QED
  BY <1>1, PublicationInvariant, PTL DEF PublicationSpec, NoRollback

\* A recipient that holds a record it may use does not come back to one that its
\* signer knew of and that did not lead the signer's clock: next_timestamp made the
\* record later, and select_current takes one at least as late.
THEOREM RecipientNoReturn == PublicationSpec => NoReturnToPredecessor
<1>1. PublicationInv /\ PublicationInv' /\ [PublicationNext]_vars =>
        (current' # current /\ current' # NoRecord =>
           \A k \in Issued : \A j \in history[k].known :
             (/\ bodies[k] \in Held /\ Timely(bodies[k])
              /\ Authority[bodies[k]] = current'.authority
              /\ history[j].timestamp <= history[k].now)
               => bodies[j] # current'.body_digest)
  <2>. SUFFICES ASSUME PublicationInv, PublicationInv', [PublicationNext]_vars,
                       current' # current, current' # NoRecord,
                       NEW k \in Issued, NEW j \in history[k].known,
                       bodies[k] \in Held, Timely(bodies[k]),
                       Authority[bodies[k]] = current'.authority,
                       history[j].timestamp <= history[k].now
                PROVE  bodies[j] # current'.body_digest
    OBVIOUS
  <2>1. ResolveHeld
    BY OnlyResolveMoves
  <2>2. current'.authority = ApplicableAuthority(sticky')
    <3>1. PICK d \in Digests, t \in Int :
            current' = VerifiedRecord(d, t) /\ Authority[d] = ApplicableAuthority(sticky')
      BY DEF PublicationInv, RecipientInv
    <3>. QED
      BY <3>1, RecordOf
  <2>3. ~Newer(bodies[k], current'.body_digest)
    BY <2>1, <2>2, MovesToNewest
  <2>4. history[j].timestamp < history[k].timestamp
    BY DEF PublicationInv, Safe, LaterThanKnown
  <2>5. j \in Issued
    <3>1. k \in DOMAIN history
      BY DEF Issued
    <3>2. /\ history \in Seq(Entries)
          /\ j \in 1..k-1 /\ history[j].error = NoError
      BY <3>1 DEF PublicationInv, TypeOK, Entries
    <3>3. j \in DOMAIN history
      BY <3>1, <3>2
    <3>. QED
      BY <3>2, <3>3 DEF Issued
  <2>6. /\ bodies[k] \in Digests /\ bodies[j] \in Digests
        /\ Timestamp[bodies[k]] = history[k].timestamp
        /\ Timestamp[bodies[j]] = history[j].timestamp
    BY <2>5 DEF PublicationInv, BodiesInv
  <2>7. Newer(bodies[k], bodies[j])
    BY <2>4, <2>6 DEF Newer
  <2>. QED
    BY <2>3, <2>7
<1>. QED
  BY <1>1, PublicationInvariant, PTL DEF PublicationSpec, NoReturnToPredecessor

\* While the recipient's answer is one for what it holds and its clock shows, a
\* timely revocation it holds has been learned of, and of the timely records of the
\* applicable authority none is newer than the current one.
AnsweredInv ==
  answered =>
    \A d \in Held : Timely(d) =>
      /\ ~IsRoot(d) => sticky
      /\ Authority[d] = ApplicableAuthority(sticky) =>
           /\ current # NoRecord
           /\ current.authority = Authority[d]
           /\ ~Newer(d, current.body_digest)

\* select_current establishes it, and all else unsets answered or leaves what the
\* recipient has as it is.
LEMMA AnsweredKeeps ==
  ASSUME PublicationInv, AnsweredInv, [PublicationNext]_vars
  PROVE  AnsweredInv'
<1>1. CASE ResolveHeld
  <2>1. UNCHANGED << clock, held >>
    BY <1>1 DEF ResolveHeld
  <2>2. Held' = Held
    BY <2>1 DEF Held
  <2>3. ASSUME NEW d \in Held, Timely(d)
        PROVE  /\ ~IsRoot(d) => sticky'
               /\ Authority[d] = ApplicableAuthority(sticky') =>
                    /\ current' # NoRecord
                    /\ current'.authority = Authority[d]
                    /\ ~Newer(d, current'.body_digest)
    <3>1. d \in Digests
      BY HeldAreDigests
    <3>2. ~IsRoot(d) => d \in Usables(held, clock, AUTHORITY_ROOT_REVOKED)
      <4>1. Authority[d] \in { AUTHORITY_ROOT, AUTHORITY_ROOT_REVOKED }
        BY <3>1, RecordsAssumption
      <4>. QED
        BY <2>3, <4>1 DEF IsRoot, Usables, Held, Timely
    <3>3. ~IsRoot(d) => sticky'
      BY <1>1, <3>2, ResolveAnswers
    <3>. QED
      BY <1>1, <2>3, <3>3, MovesToNewest
  <2>. QED
    BY <2>1, <2>2, <2>3 DEF AnsweredInv, Timely, IsRoot, Newer
<1>2. CASE Deliver \/ Forget \/ CorrectClock
  BY <1>2 DEF Deliver, Forget, CorrectClock, AnsweredInv
<1>3. CASE Publish \/ UNCHANGED vars
  <2>1. UNCHANGED << clock, held, sticky, current, answered >>
    BY <1>3 DEF Publish, vars
  <2>. QED
    BY <2>1 DEF AnsweredInv, Held, Timely, IsRoot, Newer
<1>. QED
  BY <1>1, <1>2, <1>3 DEF PublicationNext

\* A record stamped by a clock that leads the recipient's by less than the skew is
\* timely, for next_timestamp goes one beyond that clock at most, and then
\* select_current gives it, one that beats it, or a revoked one.
THEOREM RecordsUsableAtOnce == PublicationSpec => []UsableAtOnce
<1>1. PublicationInit => AnsweredInv
  BY DEF PublicationInit, AnsweredInv
<1>2. PublicationInv /\ AnsweredInv /\ [PublicationNext]_vars => AnsweredInv'
  BY AnsweredKeeps
<1>3. PublicationInv /\ AnsweredInv => UsableAtOnce
  <2>. SUFFICES ASSUME PublicationInv, AnsweredInv, answered,
                       NEW k \in Issued, NEW d, d = bodies[k], d \in Held,
                       history[k].now < clock + MAX_FUTURE_SKEW_MS
                PROVE  \/ IsRoot(d) /\ sticky
                       \/ /\ current # NoRecord
                          /\ current.authority = Authority[d]
                          /\ ~Newer(d, current.body_digest)
    BY DEF UsableAtOnce
  <2>1. d \in Digests /\ Timestamp[d] = history[k].timestamp
    BY DEF PublicationInv, BodiesInv
  <2>2. history[k].timestamp <= history[k].now + 1
    BY DEF PublicationInv, Safe, NeverRunsAhead
  <2>3. history[k].now \in Int /\ clock \in Int
    <3>1. k \in DOMAIN history /\ history \in Seq(Entries)
      BY DEF Issued, PublicationInv, TypeOK, Entries
    <3>2. history[k] \in Entries
      BY <3>1
    <3>. QED
      BY <3>2, SignerAssumption DEF Entries, PublicationInv, RecipientInv
  <2>4. Timely(d)
    <3>1. Timestamp[d] \in Nat /\ MAX_FUTURE_SKEW_MS \in Int
      BY <2>1, RecordsAssumption, SkewAssumption
    <3>. QED
      BY <2>1, <2>2, <2>3, <3>1 DEF Timely, IsPremature
  <2>5. Authority[d] \in { AUTHORITY_ROOT, AUTHORITY_ROOT_REVOKED }
    BY <2>1, RecordsAssumption
  <2>6. /\ ~IsRoot(d) => sticky
        /\ Authority[d] = ApplicableAuthority(sticky) =>
             /\ current # NoRecord
             /\ current.authority = Authority[d]
             /\ ~Newer(d, current.body_digest)
    BY <2>4 DEF AnsweredInv
  <2>7. Authority[d] = ApplicableAuthority(sticky) \/ (IsRoot(d) /\ sticky)
    BY <2>5, <2>6 DEF IsRoot, ApplicableAuthority
  <2>. QED
    BY <2>6, <2>7
<1>. QED
  BY <1>1, <1>2, <1>3, PublicationInvariant, PTL DEF PublicationSpec
=============================================================================
