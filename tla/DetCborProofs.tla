---------------------------- MODULE DetCborProofs ----------------------------
(***************************************************************************)
(* The decoder for every set of inputs and every limits.  TypeOK and       *)
(* WithinLimits of DetCbor are inductive together; and BytesAccountedFor,  *)
(* with what is known of the containers between two bytes: a value that    *)
(* decode returns encodes to its input.  Then that decode returns the      *)
(* valid values and no others: what it builds is valid, and what encodes a *)
(* valid value leads it, byte by byte, to that value.                      *)
(***************************************************************************)
EXTENDS DetCbor, NaturalsAndSequences, FiniteSetTheorems, TLAPS

----------------------------------------------------------------------------
(* The order of byte strings.                                              *)

\* a comes before b for what they have at position k.
LessAt(a, b, k) ==
  /\ k \in 1..Len(b) /\ k - 1 <= Len(a)
  /\ \A j \in 1..k - 1 : a[j] = b[j]
  /\ k <= Len(a) => a[k] < b[k]

\* Python's order of byte strings is decided at the first position where they differ.
LEMMA LexLessAt ==
  ASSUME NEW a \in Seq(Nat), NEW b \in Seq(Nat)
  PROVE  LexLess(a, b) <=> \E k \in Nat : LessAt(a, b, k)
<1>0. /\ Len(a) \in Nat /\ Len(b) \in Nat /\ DOMAIN a = 1..Len(a) /\ DOMAIN b = 1..Len(b)
  OBVIOUS
<1>1. ASSUME IsStrictPrefix(a, b) PROVE \E k \in Nat : LessAt(a, b, k)
  <2>1. Len(a) <= Len(b) /\ SubSeq(a, 1, Len(a)) = SubSeq(b, 1, Len(a)) /\ a # b
    BY <1>1 DEF IsStrictPrefix, IsPrefix
  <2>2. \A j \in 1..Len(a) : a[j] = b[j]
    <3>1. ASSUME NEW j \in 1..Len(a)
          PROVE  SubSeq(a, 1, Len(a))[j] = a[j] /\ SubSeq(b, 1, Len(a))[j] = b[j]
      BY <1>0, <2>1
    <3>. QED
      BY <2>1, <3>1
  <2>3. Len(a) # Len(b)
    <3>1. Len(a) = Len(b) => a = b
      BY <2>2, SeqEqual
    <3>. QED
      BY <2>1, <3>1
  <2>4. LessAt(a, b, Len(a) + 1)
    <3>0. Len(a) \in Nat /\ Len(b) \in Nat /\ Len(a) <= Len(b)
      BY <1>0, <2>1
    <3>1. /\ Len(a) + 1 \in 1..Len(b) /\ (Len(a) + 1) - 1 = Len(a)
          /\ ~(Len(a) + 1 <= Len(a))
      BY <3>0, <2>3
    <3>. QED
      BY <1>0, <2>2, <3>1 DEF LessAt
  <2>. QED
    BY <1>0, <2>4
<1>2. ASSUME NEW k \in DOMAIN a \cap DOMAIN b,
             \A j \in 1..(k - 1) : a[j] = b[j], a[k] < b[k]
      PROVE  k \in Nat /\ LessAt(a, b, k)
  BY <1>0, <1>2 DEF LessAt
<1>3. ASSUME NEW k \in Nat, LessAt(a, b, k) PROVE LexLess(a, b)
  <2>1. CASE k <= Len(a)
    <3>1. k \in DOMAIN a \cap DOMAIN b /\ a[k] < b[k] /\ \A j \in 1..(k - 1) : a[j] = b[j]
      BY <1>0, <1>3, <2>1 DEF LessAt
    <3>. QED
      BY <3>1 DEF LexLess
  <2>2. CASE ~(k <= Len(a))
    <3>1. k = Len(a) + 1 /\ Len(a) < Len(b) /\ \A j \in 1..Len(a) : a[j] = b[j]
      BY <1>0, <1>3, <2>2 DEF LessAt
    <3>. DEFINE s == SubSeq(a, 1, Len(a))
                t == SubSeq(b, 1, Len(a))
    <3>2. s \in Seq(Nat) /\ Len(s) = Len(a) /\ \A j \in 1..Len(a) : s[j] = a[j]
      BY <1>0
    <3>3. t \in Seq(Nat) /\ Len(t) = Len(a) /\ \A j \in 1..Len(a) : t[j] = b[j]
      BY <1>0, <3>1
    <3>. HIDE DEF s, t
    <3>4. s = t
      BY <3>1, <3>2, <3>3, SeqEqual
    <3>5. a # b /\ Len(a) <= Len(b)
      BY <1>0, <3>1
    <3>6. IsStrictPrefix(a, b)
      BY <3>4, <3>5 DEF IsStrictPrefix, IsPrefix, s, t
    <3>. QED
      BY <3>6 DEF LexLess
  <2>. QED
    BY <2>1, <2>2
<1>. QED
  BY <1>1, <1>2, <1>3 DEF LexLess

\* It is a strict order, and total.
LEMMA LexTransitive ==
  ASSUME NEW a \in Seq(Nat), NEW b \in Seq(Nat), NEW c \in Seq(Nat),
         LexLess(a, b), LexLess(b, c)
  PROVE  LexLess(a, c)
<1>1. PICK k \in Nat : LessAt(a, b, k)
  BY LexLessAt
<1>2. PICK l \in Nat : LessAt(b, c, l)
  BY LexLessAt
<1>3. Len(a) \in Nat /\ Len(b) \in Nat /\ Len(c) \in Nat
  OBVIOUS
<1>4. /\ \A j \in 1..Len(a) : a[j] \in Nat
      /\ \A j \in 1..Len(b) : b[j] \in Nat
      /\ \A j \in 1..Len(c) : c[j] \in Nat
  OBVIOUS
<1>5. CASE k < l
  <2>1. k \in 1..Len(c) /\ k - 1 <= Len(a) /\ k \in 1..l - 1 /\ b[k] = c[k]
    BY <1>1, <1>2, <1>3, <1>5 DEF LessAt
  <2>2. \A j \in 1..k - 1 : a[j] = c[j]
    <3>. TAKE j \in 1..k - 1
    <3>1. j \in 1..l - 1
      BY <1>5
    <3>. QED
      BY <1>1, <1>2, <3>1 DEF LessAt
  <2>3. LessAt(a, c, k)
    BY <1>1, <2>1, <2>2 DEF LessAt
  <2>. QED
    BY <2>3, LexLessAt
<1>6. CASE k >= l
  <2>1. l \in 1..Len(c) /\ l - 1 <= Len(a) /\ l \in 1..Len(b)
    BY <1>1, <1>2, <1>3, <1>6 DEF LessAt
  <2>2. \A j \in 1..l - 1 : a[j] = c[j]
    <3>. TAKE j \in 1..l - 1
    <3>1. j \in 1..k - 1
      BY <1>6
    <3>. QED
      BY <1>1, <1>2, <3>1 DEF LessAt
  <2>3. b[l] < c[l]
    BY <1>2, <1>3, <2>1 DEF LessAt
  <2>4. ASSUME l <= Len(a) PROVE a[l] < c[l]
    <3>1. l \in 1..Len(a)
      BY <1>3, <2>1, <2>4
    <3>2. CASE l = k
      <4>1. a[l] < b[l]
        BY <1>1, <2>4, <3>2 DEF LessAt
      <4>2. a[l] \in Nat /\ b[l] \in Nat /\ c[l] \in Nat
        BY <1>4, <2>1, <3>1
      <4>3. \A x, y, z \in Nat : x < y /\ y < z => x < z
        OBVIOUS
      <4>. QED
        BY <2>3, <4>1, <4>2, <4>3
    <3>3. CASE l # k
      <4>1. l \in 1..k - 1
        BY <1>6, <2>1, <3>3
      <4>2. a[l] = b[l]
        BY <1>1, <4>1 DEF LessAt
      <4>. QED
        BY <2>3, <4>2
    <3>. QED
      BY <3>2, <3>3
  <2>5. LessAt(a, c, l)
    BY <2>1, <2>2, <2>4 DEF LessAt
  <2>. QED
    BY <2>5, LexLessAt
<1>. QED
  BY <1>5, <1>6

\* No byte string comes before itself.
LEMMA LexIrreflexive ==
  ASSUME NEW a \in Seq(Nat)
  PROVE  ~LexLess(a, a)
<1>1. ASSUME NEW k \in Nat, LessAt(a, a, k) PROVE FALSE
  <2>1. k \in 1..Len(a) /\ a[k] < a[k] /\ a[k] \in Nat
    BY <1>1 DEF LessAt
  <2>. QED
    BY <2>1
<1>. QED
  BY <1>1, LexLessAt

\* Of two different byte strings one comes before the other.
LEMMA LexTotal ==
  ASSUME NEW a \in Seq(Nat), NEW b \in Seq(Nat), a # b
  PROVE  LexLess(a, b) \/ LexLess(b, a)
<1>. DEFINE D == { k \in Nat : k \in 1..Len(a) /\ k \in 1..Len(b) /\ a[k] # b[k] }
<1>0. Len(a) \in Nat /\ Len(b) \in Nat
  OBVIOUS
<1>1. CASE D = {}
  <2>1. \A k \in Nat : k \in 1..Len(a) /\ k \in 1..Len(b) => a[k] = b[k]
    BY <1>1
  <2>2. CASE Len(a) < Len(b)
    <3>1. \A j \in 1..(Len(a) + 1) - 1 : a[j] = b[j]
      BY <1>0, <2>1, <2>2
    <3>2. LessAt(a, b, Len(a) + 1)
      BY <1>0, <2>2, <3>1 DEF LessAt
    <3>. QED
      BY <1>0, <3>2, LexLessAt
  <2>3. CASE Len(b) < Len(a)
    <3>1. \A j \in 1..(Len(b) + 1) - 1 : b[j] = a[j]
      BY <1>0, <2>1, <2>3
    <3>2. LessAt(b, a, Len(b) + 1)
      BY <1>0, <2>3, <3>1 DEF LessAt
    <3>. QED
      BY <1>0, <3>2, LexLessAt
  <2>4. CASE Len(a) = Len(b)
    <3>1. \A k \in 1..Len(a) : a[k] = b[k]
      BY <1>0, <2>1, <2>4
    <3>. QED
      BY <2>4, <3>1, SeqEqual
  <2>. QED
    BY <1>0, <2>2, <2>3, <2>4
<1>2. CASE D # {}
  <2>1. D \in SUBSET Nat
    OBVIOUS
  <2>2. PICK m \in D : \A k \in D : m <= k
    BY <1>2, <2>1, LeastNatural
  <2>3. m \in Nat /\ m \in 1..Len(a) /\ m \in 1..Len(b) /\ a[m] # b[m]
    OBVIOUS
  <2>4. \A j \in 1..m - 1 : a[j] = b[j]
    <3>. TAKE j \in 1..m - 1
    <3>1. j \in Nat /\ j \in 1..Len(a) /\ j \in 1..Len(b) /\ ~(m <= j)
      BY <2>3
    <3>. QED
      BY <2>2, <3>1
  <2>5. a[m] \in Nat /\ b[m] \in Nat
    BY <2>3
  <2>6. CASE a[m] < b[m]
    <3>1. LessAt(a, b, m)
      BY <1>0, <2>3, <2>4, <2>6 DEF LessAt
    <3>. QED
      BY <2>3, <3>1, LexLessAt
  <2>7. CASE b[m] < a[m]
    <3>1. LessAt(b, a, m)
      BY <1>0, <2>3, <2>4, <2>7 DEF LessAt
    <3>. QED
      BY <2>3, <3>1, LexLessAt
  <2>. QED
    BY <2>3, <2>5, <2>6, <2>7
<1>. QED
  BY <1>1, <1>2

\* Keys each of which comes after the one before it are in order.
LEMMA InOrder ==
  ASSUME NEW n \in Nat, NEW key \in [ 1..n -> Seq(Nat) ],
         \A k \in 1..n : k + 1 \in 1..n => LexLess(key[k], key[k + 1])
  PROVE  \A j, k \in 1..n : j < k => LexLess(key[j], key[k])
<1>. DEFINE N == { k \in Nat : k \in 1..n =>
                     \A j \in 1..n : j < k => LexLess(key[j], key[k]) }
<1>1. 0 \in N
  OBVIOUS
<1>2. ASSUME NEW k \in N PROVE k + 1 \in N
  <2>. SUFFICES ASSUME k + 1 \in 1..n, NEW j \in 1..n, j < k + 1
                PROVE  LexLess(key[j], key[k + 1])
    OBVIOUS
  <2>1. k \in Nat /\ k \in 1..n /\ key[k] \in Seq(Nat) /\ key[j] \in Seq(Nat)
        /\ key[k + 1] \in Seq(Nat)
    OBVIOUS
  <2>2. LexLess(key[k], key[k + 1])
    BY <2>1
  <2>3. CASE j = k
    BY <2>2, <2>3
  <2>4. CASE j < k
    <3>1. LexLess(key[j], key[k])
      BY <2>1, <2>4
    <3>. QED
      BY <2>1, <2>2, <3>1, LexTransitive
  <2>. QED
    BY <2>1, <2>3, <2>4
<1>3. N = Nat
  <2>. HIDE DEF N
  <2>1. N \in SUBSET Nat
    BY DEF N
  <2>. QED
    BY <1>1, <1>2, <2>1, EveryNatural
<1>4. ASSUME NEW j \in 1..n, NEW k \in 1..n, j < k PROVE LexLess(key[j], key[k])
  <2>1. k \in N
    <3>1. k \in Nat
      OBVIOUS
    <3>. HIDE DEF N
    <3>. QED
      BY <1>3, <3>1
  <2>. QED
    BY <1>4, <2>1
<1>. QED
  BY <1>4

\* Entries in order are left as they are.
LEMMA SortedAlready ==
  ASSUME NEW n \in Nat, NEW key \in [ 1..n -> Seq(Nat) ],
         \A k \in 1..n : k + 1 \in 1..n => LexLess(key[k], key[k + 1]),
         NEW entries, entries = [ k \in 1..n |-> entries[k] ],
         \A k \in 1..n : entries[k][1] = key[k]
  PROVE  SortedEntries(entries) = entries
<1>1. \A j, k \in 1..n : j < k => LexLess(key[j], key[k])
  BY InOrder
<1>2. DOMAIN entries = 1..n
  OBVIOUS
<1>3. ASSUME NEW k \in 1..n PROVE Rank(entries, k) = k
  <2>. DEFINE before == { j \in 1..n : \/ LexLess(key[j], key[k])
                                       \/ key[j] = key[k] /\ j <= k }
  <2>1. Rank(entries, k) = Cardinality(before)
    <3>1. before = { j \in DOMAIN entries : \/ LexLess(entries[j][1], entries[k][1])
                                            \/ entries[j][1] = entries[k][1] /\ j <= k }
      BY <1>2
    <3>. QED
      BY <3>1 DEF Rank
  <2>2. ASSUME NEW j \in 1..n PROVE j \in before <=> j <= k
    <3>1. key[j] \in Seq(Nat) /\ key[k] \in Seq(Nat)
      OBVIOUS
    <3>2. CASE j < k
      BY <1>1, <3>2
    <3>3. CASE j = k
      BY <3>3
    <3>4. CASE j > k
      <4>1. LexLess(key[k], key[j])
        BY <1>1, <3>4
      <4>2. ~LexLess(key[j], key[k])
        BY <3>1, <4>1, LexTransitive, LexIrreflexive
      <4>. QED
        BY <3>4, <4>2
    <3>. QED
      BY <3>2, <3>3, <3>4
  <2>3. before = 1..k
    <3>1. before \subseteq 1..n /\ 1..k \subseteq 1..n
      OBVIOUS
    <3>2. \A j \in 1..n : j \in 1..k <=> j <= k
      OBVIOUS
    <3>. HIDE DEF before
    <3>. QED
      BY <2>2, <3>1, <3>2
  <2>4. Cardinality(1..k) = k
    BY FS_Interval
  <2>. QED
    BY <2>1, <2>3, <2>4
<1>4. ASSUME NEW m \in 1..n PROVE (CHOOSE k \in 1..n : Rank(entries, k) = m) = m
  <2>1. \E k \in 1..n : Rank(entries, k) = m
    BY <1>3
  <2>2. Rank(entries, CHOOSE k \in 1..n : Rank(entries, k) = m) = m
        /\ (CHOOSE k \in 1..n : Rank(entries, k) = m) \in 1..n
    BY <2>1
  <2>. QED
    BY <1>3, <2>2
<1>5. SortedEntries(entries) = [ m \in 1..n |-> entries[m] ]
  BY <1>2, <1>4 DEF SortedEntries
<1>. QED
  BY <1>5

----------------------------------------------------------------------------
(* The levels of the encoder.                                              *)

\* What EncodeTo[n + 1] is made of.
NextLevel(x) == [ v \in ValuesOf(DOMAIN x) |-> EncodeItem(v, x) ]

Level0 == [ v \in {} |-> << >> ]

\* f has the levels of EncodeTo up to n.
IsLevels(f, n) ==
  /\ f = [ k \in 0..n |-> f[k] ]
  /\ f[0] = Level0
  /\ \A k \in 1..n : f[k] = NextLevel(f[k - 1])

\* The levels up to n exist.
LEMMA LevelsExist ==
  ASSUME NEW n \in Nat
  PROVE  \E f : IsLevels(f, n)
<1>. DEFINE N == { m \in Nat : \E f : IsLevels(f, m) }
<1>1. 0 \in N
  <2>. DEFINE f == [ k \in 0..0 |-> Level0 ]
  <2>1. f = [ k \in 0..0 |-> f[k] ] /\ f[0] = Level0
    OBVIOUS
  <2>2. \A k \in 1..0 : FALSE
    OBVIOUS
  <2>. HIDE DEF f
  <2>3. IsLevels(f, 0)
    BY <2>1, <2>2 DEF IsLevels
  <2>. QED
    BY <2>3
<1>2. ASSUME NEW m \in N PROVE m + 1 \in N
  <2>1. m \in Nat /\ m + 1 \in Nat
    OBVIOUS
  <2>2. PICK f : IsLevels(f, m)
    OBVIOUS
  <2>. DEFINE new == NextLevel(f[m])
              g == [ k \in 0..m + 1 |-> IF k = m + 1 THEN new ELSE f[k] ]
  <2>. HIDE DEF new
  <2>3. g = [ k \in 0..m + 1 |-> g[k] ]
    OBVIOUS
  <2>4. g[0] = Level0
    <3>1. 0 \in 0..m + 1 /\ 0 # m + 1
      BY <2>1
    <3>. QED
      BY <2>2, <3>1 DEF IsLevels
  <2>5. ASSUME NEW k \in 1..m + 1 PROVE g[k] = NextLevel(g[k - 1])
    <3>1. k \in 0..m + 1 /\ k - 1 \in 0..m + 1 /\ k - 1 # m + 1
      BY <2>1
    <3>2. g[k - 1] = f[k - 1]
      BY <3>1
    <3>3. CASE k = m + 1
      <4>1. k - 1 = m
        BY <2>1, <3>3
      <4>2. g[k] = NextLevel(f[m])
        BY <3>1, <3>3 DEF new
      <4>. QED
        BY <3>2, <4>1, <4>2
    <3>4. CASE k # m + 1
      <4>1. k \in 1..m
        BY <2>1, <3>4
      <4>2. g[k] = f[k]
        BY <3>1, <3>4
      <4>3. f[k] = NextLevel(f[k - 1])
        BY <2>2, <4>1 DEF IsLevels
      <4>. QED
        BY <3>2, <4>2, <4>3
    <3>. QED
      BY <3>3, <3>4
  <2>. HIDE DEF g
  <2>6. IsLevels(g, m + 1)
    BY <2>3, <2>4, <2>5 DEF IsLevels
  <2>. QED
    BY <2>1, <2>6
<1>3. N = Nat
  <2>. HIDE DEF N
  <2>1. N \in SUBSET Nat
    BY DEF N
  <2>. QED
    BY <1>1, <1>2, <2>1, EveryNatural
<1>. QED
  BY <1>3

\* And any two families of levels agree where both are defined.
LEMMA LevelsAgree ==
  ASSUME NEW m \in Nat, NEW n \in Nat, NEW f, NEW g, IsLevels(f, m), IsLevels(g, n)
  PROVE  \A k \in 0..m : k \in 0..n => f[k] = g[k]
<1>. DEFINE N == { k \in Nat : k \in 0..m /\ k \in 0..n => f[k] = g[k] }
<1>1. 0 \in N
  BY DEF IsLevels
<1>2. ASSUME NEW k \in N PROVE k + 1 \in N
  <2>1. k \in Nat /\ k + 1 \in Nat
    OBVIOUS
  <2>2. ASSUME k + 1 \in 0..m, k + 1 \in 0..n PROVE f[k + 1] = g[k + 1]
    <3>1. k + 1 \in 1..m /\ k + 1 \in 1..n /\ (k + 1) - 1 = k /\ k \in 0..m /\ k \in 0..n
      BY <2>1, <2>2
    <3>2. f[k] = g[k]
      BY <3>1
    <3>3. f[k + 1] = NextLevel(f[(k + 1) - 1])
      BY <3>1 DEF IsLevels
    <3>4. g[k + 1] = NextLevel(g[(k + 1) - 1])
      BY <3>1 DEF IsLevels
    <3>. QED
      BY <3>1, <3>2, <3>3, <3>4
  <2>. QED
    BY <2>1, <2>2
<1>3. N = Nat
  <2>. HIDE DEF N
  <2>1. N \in SUBSET Nat
    BY DEF N
  <2>. QED
    BY <1>1, <1>2, <2>1, EveryNatural
<1>4. ASSUME NEW k \in 0..m, k \in 0..n PROVE f[k] = g[k]
  <2>1. k \in Nat
    OBVIOUS
  <2>2. k \in N
    <3>. HIDE DEF N
    <3>. QED
      BY <1>3, <2>1
  <2>. QED
    BY <1>4, <2>2
<1>. QED
  BY <1>4

\* The equations of EncodeTo.
LEMMA EncodeToIs ==
  /\ EncodeTo[0] = [ v \in {} |-> << >> ]
  /\ \A n \in Nat : EncodeTo[n + 1] = NextLevel(EncodeTo[n])
<1>. DEFINE Body(e, n) == IF n = 0 THEN [ v \in {} |-> << >> ]
                          ELSE [ v \in ValuesOf(DOMAIN e[n - 1]) |-> EncodeItem(v, e[n - 1]) ]
            Unfolds(e) == e = [ n \in Nat |-> Body(e, n) ]
            upTo(n) == CHOOSE f : IsLevels(f, n)
            e == [ n \in Nat |-> upTo(n)[n] ]
<1>1. \A n \in Nat : IsLevels(upTo(n), n)
  BY LevelsExist
<1>. HIDE DEF upTo
<1>2. ASSUME NEW n \in Nat PROVE e[n] = Body(e, n)
  <2>1. CASE n = 0
    BY <1>1, <2>1 DEF IsLevels, Level0
  <2>2. CASE n # 0
    <3>1. n - 1 \in Nat /\ n \in 1..n /\ n - 1 \in 0..n - 1 /\ n - 1 \in 0..n
      BY <2>2
    <3>2. upTo(n)[n] = NextLevel(upTo(n)[n - 1])
      BY <1>1, <3>1 DEF IsLevels
    <3>3. upTo(n)[n - 1] = upTo(n - 1)[n - 1]
      <4>1. IsLevels(upTo(n), n) /\ IsLevels(upTo(n - 1), n - 1)
        BY <1>1, <3>1
      <4>. QED
        BY <3>1, <4>1, LevelsAgree
    <3>4. e[n] = upTo(n)[n] /\ e[n - 1] = upTo(n - 1)[n - 1]
      BY <3>1
    <3>. HIDE DEF e
    <3>5. e[n] = NextLevel(e[n - 1])
      BY <3>2, <3>3, <3>4
    <3>. QED
      BY <2>2, <3>5 DEF NextLevel
  <2>. QED
    BY <2>1, <2>2
<1>3. Unfolds(e)
  <2>1. e = [ n \in Nat |-> e[n] ]
    OBVIOUS
  <2>. HIDE DEF e, Body
  <2>. QED
    BY <1>2, <2>1
<1>4. EncodeTo = CHOOSE x : Unfolds(x)
  BY DEF EncodeTo
<1>5. Unfolds(EncodeTo)
  <2>. HIDE DEF Unfolds, e
  <2>. QED
    BY <1>3, <1>4
<1>6. \A n \in Nat : EncodeTo[n] = Body(EncodeTo, n)
  <2>. HIDE DEF Body
  <2>. QED
    BY <1>5
<1>7. EncodeTo[0] = [ v \in {} |-> << >> ]
  BY <1>6
<1>8. ASSUME NEW n \in Nat PROVE EncodeTo[n + 1] = NextLevel(EncodeTo[n])
  <2>1. n + 1 \in Nat /\ n + 1 # 0 /\ (n + 1) - 1 = n
    OBVIOUS
  <2>. QED
    BY <1>6, <2>1 DEF NextLevel
<1>. QED
  BY <1>7, <1>8

----------------------------------------------------------------------------
(* More levels encode alike.                                               *)

\* y encodes what x does, and as x does.
Extends(x, y) == DOMAIN x \subseteq DOMAIN y /\ \A v \in DOMAIN x : y[v] = x[v]

\* More items, more values.
LEMMA ValuesGrow ==
  ASSUME NEW S, NEW T, S \subseteq T
  PROVE  ValuesOf(S) \subseteq ValuesOf(T)
<1>1. Seq(S) \subseteq Seq(T)
  OBVIOUS
<1>. QED
  BY <1>1 DEF ValuesOf

\* What an item encodes to depends on its own items only.
LEMMA EncodeItemExtends ==
  ASSUME NEW x, NEW y, Extends(x, y), NEW v \in ValuesOf(DOMAIN x)
  PROVE  EncodeItem(v, y) = EncodeItem(v, x)
<1>1. CASE v[1] \in { "array", "map" }
  <2>1. v[2] \in Seq(DOMAIN x)
    BY <1>1 DEF ValuesOf
  <2>2. \A k \in DOMAIN v[2] : y[v[2][k]] = x[v[2][k]]
    BY <2>1 DEF Extends
  <2>3. CASE v[1] = "array"
    <3>1. [ k \in DOMAIN v[2] |-> y[v[2][k]] ] = [ k \in DOMAIN v[2] |-> x[v[2][k]] ]
      BY <2>2
    <3>. QED
      BY <2>3, <3>1 DEF EncodeItem
  <2>4. CASE v[1] = "map"
    <3>. DEFINE n == Len(v[2]) \div 2
    <3>1. Len(v[2]) \in Nat
      BY <2>1
    <3>0. 2 * n <= Len(v[2]) /\ n \in Nat
      <4>1. \A m \in Nat : 2 * (m \div 2) <= m /\ m \div 2 \in Nat
        OBVIOUS
      <4>. QED
        BY <3>1, <4>1
    <3>. HIDE DEF n
    <3>2. ASSUME NEW k \in 1..n PROVE 2 * k - 1 \in DOMAIN v[2] /\ 2 * k \in DOMAIN v[2]
      <4>1. DOMAIN v[2] = 1..Len(v[2])
        BY <2>1
      <4>2. 2 * k - 1 \in 1..Len(v[2]) /\ 2 * k \in 1..Len(v[2])
        BY <3>0, <3>1
      <4>. QED
        BY <4>1, <4>2
    <3>3. [ k \in 1..n |-> << y[v[2][2 * k - 1]], y[v[2][2 * k]] >> ]
            = [ k \in 1..n |-> << x[v[2][2 * k - 1]], x[v[2][2 * k]] >> ]
      BY <2>2, <3>2
    <3>. QED
      BY <2>4, <3>3 DEF EncodeItem, n
  <2>. QED
    BY <1>1, <2>3, <2>4
<1>2. CASE v[1] \notin { "array", "map" }
  <2>1. v[1] \in { "uint", "nint", "bytes", "text", "simple" }
    BY <1>2 DEF ValuesOf
  <2>. QED
    BY <2>1 DEF EncodeItem
<1>. QED
  BY <1>1, <1>2

\* So the level above the larger one is the larger one.
LEMMA NextLevelExtends ==
  ASSUME NEW x, NEW y, Extends(x, y)
  PROVE  Extends(NextLevel(x), NextLevel(y))
<1>1. ValuesOf(DOMAIN x) \subseteq ValuesOf(DOMAIN y)
  BY ValuesGrow DEF Extends
<1>2. \A v \in ValuesOf(DOMAIN x) : EncodeItem(v, y) = EncodeItem(v, x)
  BY EncodeItemExtends
<1>. QED
  BY <1>1, <1>2 DEF Extends, NextLevel

\* A value has the same encoding at every level that is deep enough for it.
LEMMA LevelsExtend ==
  ASSUME NEW m \in Nat, NEW n \in Nat, m <= n
  PROVE  Extends(EncodeTo[m], EncodeTo[n])
<1>. DEFINE N == { k \in Nat : Extends(EncodeTo[k], EncodeTo[k + 1]) }
<1>1. 0 \in N
  BY EncodeToIs DEF Extends
<1>2. ASSUME NEW k \in N PROVE k + 1 \in N
  <2>1. k \in Nat /\ k + 1 \in Nat
    OBVIOUS
  <2>2. EncodeTo[k + 1] = NextLevel(EncodeTo[k])
        /\ EncodeTo[(k + 1) + 1] = NextLevel(EncodeTo[k + 1])
    BY <2>1, EncodeToIs
  <2>3. Extends(EncodeTo[k], EncodeTo[k + 1])
    OBVIOUS
  <2>4. Extends(NextLevel(EncodeTo[k]), NextLevel(EncodeTo[k + 1]))
    BY <2>3, NextLevelExtends
  <2>5. Extends(EncodeTo[k + 1], EncodeTo[(k + 1) + 1])
    BY <2>2, <2>4
  <2>. QED
    BY <2>1, <2>5
<1>3. N = Nat
  <2>. HIDE DEF N
  <2>1. N \in SUBSET Nat
    BY DEF N
  <2>. QED
    BY <1>1, <1>2, <2>1, EveryNatural
<1>4. \A k \in Nat : Extends(EncodeTo[k], EncodeTo[k + 1])
  BY <1>3
<1>. DEFINE M == { k \in Nat : Extends(EncodeTo[m], EncodeTo[m + k]) }
<1>5. 0 \in M
  BY DEF Extends
<1>6. ASSUME NEW k \in M PROVE k + 1 \in M
  <2>1. k \in Nat /\ m + k \in Nat /\ m + (k + 1) = (m + k) + 1
    OBVIOUS
  <2>2. Extends(EncodeTo[m + k], EncodeTo[(m + k) + 1])
    BY <1>4, <2>1
  <2>3. Extends(EncodeTo[m], EncodeTo[m + k])
    OBVIOUS
  <2>4. Extends(EncodeTo[m], EncodeTo[(m + k) + 1])
    BY <2>2, <2>3 DEF Extends
  <2>. QED
    BY <2>1, <2>4
<1>7. M = Nat
  <2>. HIDE DEF M
  <2>1. M \in SUBSET Nat
    BY DEF M
  <2>. QED
    BY <1>5, <1>6, <2>1, EveryNatural
<1>8. n - m \in M /\ m + (n - m) = n
  <2>1. n - m \in Nat /\ m + (n - m) = n
    OBVIOUS
  <2>. HIDE DEF M
  <2>. QED
    BY <1>7, <2>1
<1>. QED
  BY <1>8

\* What a value of the next level encodes to, at that level and every deeper one.
LEMMA EncodeValue ==
  ASSUME NEW n \in Nat, NEW l \in Nat, n + 1 <= l, NEW v \in ValuesOf(DOMAIN EncodeTo[n])
  PROVE  /\ v \in DOMAIN EncodeTo[n + 1]
         /\ v \in DOMAIN EncodeTo[l]
         /\ EncodeTo[n + 1][v] = EncodeItem(v, EncodeTo[n])
         /\ EncodeTo[l][v] = EncodeItem(v, EncodeTo[n])
<1>1. n + 1 \in Nat
  OBVIOUS
<1>2. Extends(EncodeTo[n + 1], EncodeTo[l])
  BY <1>1, LevelsExtend
<1>3. EncodeTo[n + 1] = NextLevel(EncodeTo[n])
  BY EncodeToIs
<1>4. v \in DOMAIN EncodeTo[n + 1] /\ EncodeTo[n + 1][v] = EncodeItem(v, EncodeTo[n])
  BY <1>3 DEF NextLevel
<1>. QED
  BY <1>2, <1>4 DEF Extends

----------------------------------------------------------------------------
(* Arguments, and the heads that the encoder gives them.                   *)

\* A byte of a byte string.
LEMMA DigitIs ==
  ASSUME NEW digits \in Seq(Byte), NEW k \in 1..Len(digits)
  PROVE  digits[k] \in 0..255
<1>1. digits[k] \in Byte
  OBVIOUS
<1>. QED
  BY <1>1 DEF Byte

\* The leading zeros are the digits before the first that is not zero.
LEMMA LeadingZerosAre ==
  ASSUME NEW digits \in Seq(Byte)
  PROVE  \E c \in 0..Len(digits) :
           /\ LeadingZeros(digits) = 1..c
           /\ Cardinality(LeadingZeros(digits)) = c
           /\ \A k \in 1..c : digits[k] = 0
           /\ c < Len(digits) => digits[c + 1] # 0
<1>. DEFINE n == Len(digits)
            M == { k \in Nat : k \in 1..n + 1 /\ (k <= n => digits[k] # 0) }
<1>1. n \in Nat /\ DOMAIN digits = 1..n
  OBVIOUS
<1>. HIDE DEF n
<1>2. n + 1 \in M /\ M \in SUBSET Nat
  <2>1. n + 1 \in Nat /\ n + 1 \in 1..n + 1 /\ ~(n + 1 <= n)
    BY <1>1
  <2>. QED
    BY <2>1
<1>3. PICK m \in M : \A k \in M : m <= k
  <2>. HIDE DEF M
  <2>. QED
    BY <1>2, LeastNatural
<1>4. m \in Nat /\ m \in 1..n + 1 /\ (m <= n => digits[m] # 0)
  OBVIOUS
<1>5. ASSUME NEW k \in Nat, k \in 1..m - 1 PROVE digits[k] = 0
  <2>1. k \in 1..n + 1 /\ k <= n /\ ~(m <= k)
    BY <1>1, <1>4, <1>5
  <2>. QED
    BY <1>3, <2>1
<1>. HIDE DEF M
<1>. DEFINE c == m - 1
<1>6. c \in 0..n /\ c \in Nat /\ c + 1 = m
  BY <1>1, <1>4
<1>. HIDE DEF c
<1>7. \A k \in 1..c : digits[k] = 0
  <2>. TAKE k \in 1..c
  <2>1. k \in Nat /\ k \in 1..m - 1
    BY <1>4, <1>6
  <2>. QED
    BY <1>5, <2>1
<1>8. c < n => digits[c + 1] # 0
  BY <1>1, <1>4, <1>6
<1>9. LeadingZeros(digits) = 1..c
  <2>1. ASSUME NEW k \in 1..n, \A j \in 1..k : digits[j] = 0 PROVE k \in 1..c
    <3>1. CASE k <= c
      BY <1>1, <1>6, <3>1
    <3>2. CASE k > c
      <4>1. c < n /\ c + 1 \in 1..k
        BY <1>1, <1>6, <3>2
      <4>. QED
        BY <1>8, <2>1, <4>1
    <3>. QED
      BY <1>1, <1>6, <3>1, <3>2
  <2>2. ASSUME NEW k \in 1..c PROVE k \in 1..n /\ \A j \in 1..k : digits[j] = 0
    <3>1. k \in 1..n
      BY <1>1, <1>6
    <3>2. ASSUME NEW j \in 1..k PROVE digits[j] = 0
      <4>1. j \in 1..c
        BY <1>6
      <4>. QED
        BY <1>7, <4>1
    <3>. QED
      BY <3>1, <3>2
  <2>3. LeadingZeros(digits) = { k \in 1..n : \A j \in 1..k : digits[j] = 0 }
    BY <1>1 DEF LeadingZeros
  <2>. QED
    BY <2>1, <2>2, <2>3
<1>10. Cardinality(1..c) = c
  BY <1>6, FS_Interval
<1>. QED
  BY <1>6, <1>7, <1>8, <1>9, <1>10 DEF n

\* Without its leading zeros an argument is the same number, and the zeros come
\* back when it is padded.
LEMMA SignificantIs ==
  ASSUME NEW digits \in Seq(Byte)
  PROVE  /\ Significant(digits) \in Seq(Byte)
         /\ Len(Significant(digits)) <= Len(digits)
         /\ Len(Significant(digits)) # 0 => Significant(digits)[1] # 0
         /\ Padded(Significant(digits), Len(digits)) = digits
         /\ Len(Significant(digits)) = Len(digits) => Significant(digits) = digits
<1>1. PICK c \in 0..Len(digits) :
           /\ Cardinality(LeadingZeros(digits)) = c
           /\ \A k \in 1..c : digits[k] = 0
           /\ c < Len(digits) => digits[c + 1] # 0
  BY LeadingZerosAre
<1>. DEFINE n == Len(digits)
            s == SubSeq(digits, c + 1, n)
<1>2. n \in Nat /\ c \in Nat /\ c <= n
  OBVIOUS
<1>3. Significant(digits) = s
  BY <1>1 DEF Significant
<1>4. s \in Seq(Byte) /\ Len(s) = n - c /\ \A k \in 1..n - c : s[k] = digits[c + k]
  BY <1>2, Slice
<1>. HIDE DEF s, n
<1>5. ASSUME Len(s) # 0 PROVE s[1] # 0
  <2>1. 1 \in 1..n - c /\ c < n
    BY <1>2, <1>4, <1>5
  <2>. QED
    BY <1>1, <1>4, <2>1 DEF n
<1>6. Padded(s, n) = digits
  <2>. DEFINE z == [ k \in 1..(n - Len(s)) |-> 0 ]
  <2>1. n - Len(s) = c
    BY <1>2, <1>4
  <2>2. z \in Seq(Byte) /\ Len(z) = c /\ \A k \in 1..c : z[k] = 0
    <3>1. z = [ k \in 1..c |-> 0 ]
      BY <2>1
    <3>2. z \in [ 1..c -> Byte ]
      BY <3>1 DEF Byte
    <3>3. \A k \in 1..c : z[k] = 0
      BY <3>1
    <3>. HIDE DEF z
    <3>. QED
      BY <1>2, <3>2, <3>3
  <2>. HIDE DEF z
  <2>3. /\ z \o s \in Seq(Byte)
        /\ Len(z \o s) = Len(z) + Len(s)
        /\ \A k \in 1..Len(z) : (z \o s)[k] = z[k]
        /\ \A k \in 1..Len(s) : (z \o s)[Len(z) + k] = s[k]
    <3>1. z \in Seq(Byte) /\ s \in Seq(Byte)
      BY <1>4, <2>2
    <3>. QED
      BY <3>1, ConcatAt
  <2>4. Len(z \o s) = n
    BY <1>2, <1>4, <2>2, <2>3
  <2>5. ASSUME NEW k \in 1..n PROVE (z \o s)[k] = digits[k]
    <3>1. CASE k <= c
      <4>1. k \in 1..c
        BY <1>2, <3>1
      <4>. QED
        BY <1>1, <2>2, <2>3, <4>1
    <3>2. CASE k > c
      <4>1. PICK j \in 1..n - c : k = c + j
        <5>1. k - c \in 1..n - c /\ k = c + (k - c)
          BY <1>2, <3>2
        <5>. QED
          BY <5>1
      <4>. QED
        BY <1>4, <2>2, <2>3, <4>1
    <3>3. k <= c \/ k > c
      BY <1>2
    <3>. QED
      BY <3>1, <3>2, <3>3
  <2>6. z \o s = digits
    <3>1. digits \in Seq(Byte) /\ Len(digits) = n
      BY DEF n
    <3>. QED
      BY <2>3, <2>4, <2>5, <3>1, SeqEqual
  <2>. QED
    BY <2>6 DEF Padded, z
<1>7. ASSUME Len(s) = n PROVE s = digits
  <2>1. c = 0
    BY <1>2, <1>4, <1>7
  <2>2. \A k \in 1..n : s[k] = digits[k]
    BY <1>2, <1>4, <2>1
  <2>3. digits \in Seq(Byte) /\ Len(digits) = n
    BY DEF n
  <2>. QED
    BY <1>4, <1>7, <2>2, <2>3, SeqEqual
<1>8. Len(s) <= n
  BY <1>2, <1>4
<1>. QED
  BY <1>3, <1>4, <1>5, <1>6, <1>7, <1>8 DEF n

\* An argument below COUNT_CAP is the one that its number has.
LEMMA DigitsOfCount ==
  ASSUME NEW digits \in Seq(Byte), Len(digits) # 0 => digits[1] # 0,
         Count(digits) < COUNT_CAP
  PROVE  LengthDigits(Count(digits)) = digits
<1>0. \A k \in 1..Len(digits) : digits[k] \in 0..255
  BY DigitIs
<1>1. CASE Len(digits) = 0
  <2>1. digits = << >> /\ Count(digits) = 0
    BY <1>1 DEF Count
  <2>. QED
    BY <2>1 DEF LengthDigits, Digit
<1>2. CASE Len(digits) = 1
  <2>1. digits = << digits[1] >> /\ Count(digits) = digits[1]
    BY <1>2 DEF Count
  <2>2. digits[1] \in 1..255
    BY <1>0, <1>2
  <2>3. \A d \in 1..255 : LengthDigits(d) = << d >>
    BY DEF LengthDigits, Digit
  <2>. QED
    BY <2>1, <2>2, <2>3
<1>3. CASE Len(digits) = 2
  <2>. DEFINE a == digits[1]
              b == digits[2]
  <2>1. digits = << a, b >> /\ Count(digits) = 256 * a + b
    BY <1>3 DEF Count
  <2>2. a \in 1..255 /\ b \in 0..255
    BY <1>0, <1>3
  <2>. HIDE DEF a, b
  <2>3. /\ ~(256 * a + b < 256)
        /\ (256 * a + b) \div 256 = a
        /\ (256 * a + b) % 256 = b
    BY <2>2
  <2>. QED
    BY <2>1, <2>3 DEF LengthDigits
<1>4. CASE Len(digits) \notin 0..2
  BY <1>4 DEF Count, COUNT_CAP
<1>. QED
  BY <1>1, <1>2, <1>3, <1>4

\* A length below COUNT_CAP is an argument of at most two digits.
LEMMA LengthDigitsType ==
  ASSUME NEW n \in Nat, n < COUNT_CAP
  PROVE  LengthDigits(n) \in Seq(Byte) /\ Len(LengthDigits(n)) <= 2
<1>0. n < 65536
  BY DEF COUNT_CAP
<1>1. CASE n = 0
  BY <1>1 DEF LengthDigits, Digit
<1>2. CASE n # 0 /\ n < 256
  <2>1. LengthDigits(n) = << n >> /\ n \in Byte
    BY <1>2 DEF LengthDigits, Digit, Byte
  <2>. QED
    BY <2>1
<1>3. CASE ~(n < 256)
  <2>1. \A k \in Nat : k < 65536 => k \div 256 \in 0..255 /\ k % 256 \in 0..255
    OBVIOUS
  <2>2. LengthDigits(n) = << n \div 256, n % 256 >>
    BY <1>3 DEF LengthDigits
  <2>. QED
    BY <1>0, <2>1, <2>2 DEF Byte
<1>. QED
  BY <1>1, <1>2, <1>3

\* Padding keeps byte strings byte strings.
LEMMA PaddedType ==
  ASSUME NEW n \in Nat, NEW digits \in Seq(Byte), Len(digits) <= n
  PROVE  Padded(digits, n) \in Seq(Byte)
<1>. DEFINE z == [ k \in 1..(n - Len(digits)) |-> 0 ]
<1>1. n - Len(digits) \in Nat /\ z \in [ 1..(n - Len(digits)) -> Byte ]
  BY DEF Byte
<1>. HIDE DEF z
<1>2. z \in Seq(Byte)
  BY <1>1
<1>3. z \o digits \in Seq(Byte)
  BY <1>2, ConcatProperties
<1>. QED
  BY <1>3 DEF Padded, z

\* The five forms of a head.
LEMMA HeadZero ==
  ASSUME NEW m \in Nat, NEW digits, Len(digits) = 0
  PROVE  EncodeHead(m, digits) = << 32 * m + 0 >> \o << >>
BY DEF EncodeHead

\* The argument in the initial byte,
LEMMA HeadSmall ==
  ASSUME NEW m, NEW digits, Len(digits) = 1, digits[1] \in 0..23
  PROVE  EncodeHead(m, digits) = << 32 * m + digits[1] >> \o << >>
BY DEF EncodeHead

\* in the byte after it,
LEMMA HeadOne ==
  ASSUME NEW m, NEW digits, Len(digits) = 1, digits[1] \in 24..255
  PROVE  EncodeHead(m, digits) = << 32 * m + 24 >> \o digits
<1>1. \A d \in 24..255 : d >= 24 /\ ~(d < 24)
  OBVIOUS
<1>2. digits[1] >= 24 /\ ~(digits[1] < 24)
  BY <1>1
<1>. QED
  BY <1>2 DEF EncodeHead

\* in two,
LEMMA HeadTwo ==
  ASSUME NEW m, NEW digits, Len(digits) = 2
  PROVE  EncodeHead(m, digits) = << 32 * m + 25 >> \o digits
BY DEF EncodeHead

\* in four,
LEMMA HeadFour ==
  ASSUME NEW m, NEW digits, Len(digits) \in 3..4
  PROVE  EncodeHead(m, digits) = << 32 * m + 26 >> \o Padded(digits, 4)
<1>1. CASE Len(digits) = 3
  BY <1>1 DEF EncodeHead
<1>2. CASE Len(digits) = 4
  BY <1>2 DEF EncodeHead
<1>3. \A l \in 3..4 : l = 3 \/ l = 4
  OBVIOUS
<1>. QED
  BY <1>1, <1>2, <1>3

\* and in eight.
LEMMA HeadEight ==
  ASSUME NEW m, NEW digits, Len(digits) \in 5..8
  PROVE  EncodeHead(m, digits) = << 32 * m + 27 >> \o Padded(digits, 8)
<1>1. CASE Len(digits) = 5
  BY <1>1 DEF EncodeHead
<1>2. CASE Len(digits) = 6
  BY <1>2 DEF EncodeHead
<1>3. CASE Len(digits) = 7
  BY <1>3 DEF EncodeHead
<1>4. CASE Len(digits) = 8
  BY <1>4 DEF EncodeHead
<1>5. \A l \in 5..8 : l = 5 \/ l = 6 \/ l = 7 \/ l = 8
  OBVIOUS
<1>. QED
  BY <1>1, <1>2, <1>3, <1>4, <1>5

\* A head is one byte and the argument in one of the five forms.
LEMMA EncodeHeadType ==
  ASSUME NEW m \in 0..7, NEW digits \in Seq(Byte), Len(digits) <= 8
  PROVE  /\ EncodeHead(m, digits) \in Seq(Byte)
         /\ EncodeHead(m, digits) # << >>
<1>1. ASSUME NEW a \in 0..27, NEW rest \in Seq(Byte)
      PROVE  << 32 * m + a >> \o rest \in Seq(Byte) /\ << 32 * m + a >> \o rest # << >>
  <2>1. << 32 * m + a >> \in Seq(Byte) /\ Len(<< 32 * m + a >>) = 1
    BY DEF Byte
  <2>2. << 32 * m + a >> \o rest \in Seq(Byte)
        /\ Len(<< 32 * m + a >> \o rest) = 1 + Len(rest)
    BY <2>1, ConcatProperties
  <2>3. Len(rest) \in Nat /\ Len(<< >>) = 0
    OBVIOUS
  <2>. QED
    BY <2>2, <2>3
<1>2. << >> \in Seq(Byte)
  BY EmptySeq
<1>3. CASE Len(digits) = 0
  <2>1. EncodeHead(m, digits) = << 32 * m + 0 >> \o << >>
    BY <1>3, HeadZero
  <2>2. 0 \in 0..27
    BY SMTT(20)
  <2>. QED
    BY <1>1, <1>2, <2>1, <2>2
<1>4. CASE Len(digits) = 1
  <2>1. digits[1] \in 0..255
    <3>1. 1 \in 1..Len(digits)
      BY <1>4
    <3>. QED
      BY <3>1, DigitIs
  <2>2. CASE digits[1] \in 0..23
    <3>1. digits[1] \in 0..27
      BY <2>2
    <3>2. EncodeHead(m, digits) = << 32 * m + digits[1] >> \o << >>
      BY <1>4, <2>2, HeadSmall
    <3>. QED
      BY <1>1, <1>2, <3>1, <3>2
  <2>3. CASE digits[1] \in 24..255
    <3>1. EncodeHead(m, digits) = << 32 * m + 24 >> \o digits
      BY <1>4, <2>3, HeadOne
    <3>. QED
      BY <1>1, <3>1
  <2>4. \A d \in 0..255 : d \in 0..23 \/ d \in 24..255
    OBVIOUS
  <2>. QED
    BY <2>1, <2>2, <2>3, <2>4
<1>5. CASE Len(digits) = 2
  <2>1. EncodeHead(m, digits) = << 32 * m + 25 >> \o digits
    BY <1>5, HeadTwo
  <2>. QED
    BY <1>1, <2>1
<1>6. CASE Len(digits) \in 3..4
  <2>1. \A l \in 3..4 : l <= 4
    OBVIOUS
  <2>2. Padded(digits, 4) \in Seq(Byte)
    BY <1>6, <2>1, PaddedType
  <2>3. EncodeHead(m, digits) = << 32 * m + 26 >> \o Padded(digits, 4)
    BY <1>6, HeadFour
  <2>. QED
    BY <1>1, <2>2, <2>3
<1>7. CASE Len(digits) \in 5..8
  <2>1. Padded(digits, 8) \in Seq(Byte)
    BY PaddedType
  <2>2. EncodeHead(m, digits) = << 32 * m + 27 >> \o Padded(digits, 8)
    BY <1>7, HeadEight
  <2>. QED
    BY <1>1, <2>1, <2>2
<1>8. Len(digits) = 0 \/ Len(digits) = 1 \/ Len(digits) = 2 \/ Len(digits) \in 3..4
        \/ Len(digits) \in 5..8
  <2>1. Len(digits) \in Nat
    BY LenProperties
  <2>2. \A l \in Nat : l <= 8 => l = 0 \/ l = 1 \/ l = 2 \/ l \in 3..4 \/ l \in 5..8
    OBVIOUS
  <2>. QED
    BY <2>1, <2>2
<1>. QED
  BY <1>3, <1>4, <1>5, <1>6, <1>7, <1>8

----------------------------------------------------------------------------
(* Types and limits.                                                       *)

\* The lists being filled are sequences, whatever their items are.
Lists == \E S : built \in Seq(Seq(S))

\* The inductive invariant behind TypeOK and WithinLimits.
Inv == TypeOK /\ Lists /\ WithinLimits

----------------------------------------------------------------------------
(* Arguments and lengths.                                                  *)

\* A byte is a number.
LEMMA ByteNat ==
  ASSUME NEW b \in Byte
  PROVE  b \in Nat
BY DEF Byte

\* A count is a natural number.
LEMMA CountNat ==
  ASSUME NEW a \in Seq(Byte)
  PROVE  Count(a) \in Nat
<1>1. CASE Len(a) = 0
  BY <1>1 DEF Count
<1>2. CASE Len(a) = 1
  <2>1. a[1] \in Byte
    BY <1>2
  <2>2. Count(a) = a[1]
    BY <1>2 DEF Count
  <2>3. a[1] \in Nat
    BY <2>1, ByteNat
  <2> QED
    BY <2>2, <2>3
<1>3. CASE Len(a) = 2
  <2>1. a[1] \in Byte /\ a[2] \in Byte
    BY <1>3
  <2>2. Count(a) = 256 * a[1] + a[2]
    BY <1>3 DEF Count
  <2>3. a[1] \in Nat /\ a[2] \in Nat
    BY <2>1, ByteNat
  <2> QED
    BY <2>2, <2>3
<1>4. CASE Len(a) \notin 0..2
  BY <1>4 DEF Count, COUNT_CAP
<1> QED
  BY <1>1, <1>2, <1>3, <1>4

\* What a head that is not refused says: its argument is a byte sequence, and it
\* lies within the input.
LEMMA HeadFacts ==
  ASSUME TypeOK, Has(1), IsHead
  PROVE  /\ headSize \in Nat \ {0}
         /\ length \in Nat
         /\ pos + headSize <= Len(data)
<1>1. data \in Seq(Byte) /\ pos \in Nat
  BY DEF TypeOK
<1>2. initial \in Byte
  BY <1>1 DEF initial, Has
<1>3. ai \in 0..27
  BY <1>2 DEF ai, Byte, IsHead
<1>4. argument \in Seq(Byte)
  <2>1. CASE ai < 24
    <3>1. Digit(ai) \in Seq(Byte)
      <4>1. CASE ai = 0
        BY <4>1 DEF Digit
      <4>2. CASE ai # 0
        <5>1. ai \in Byte
          BY <1>3 DEF Byte
        <5> QED
          BY <5>1, <4>2 DEF Digit
      <4> QED
        BY <4>1, <4>2
    <3> QED
      BY <3>1, <2>1 DEF argument
  <2>2. CASE ai >= 24
    <3>1. ArgumentSize(ai) \in 1..8
      BY <2>2, <1>3 DEF ArgumentSize
    <3>2. pos + 1 + ArgumentSize(ai) <= Len(data)
      BY <3>1, <2>2, <1>1, <1>3 DEF IsHead, headSize, Has
    <3>3. SubSeq(data, pos + 2, pos + 1 + ArgumentSize(ai)) \in Seq(Byte)
      BY <3>1, <3>2, <1>1
    <3>4. Significant(SubSeq(data, pos + 2, pos + 1 + ArgumentSize(ai))) \in Seq(Byte)
      BY <3>3, SignificantIs
    <3>5. ~(ai < 24)
      BY <2>2, <1>3
    <3> QED
      BY <3>4, <3>5 DEF argument
  <2> QED
    BY <2>1, <2>2, <1>3
<1>5. length \in Nat
  BY <1>4, CountNat DEF length
<1>6. headSize \in Nat \ {0}
  BY <1>3 DEF headSize, ArgumentSize
<1> QED
  BY <1>5, <1>6 DEF IsHead, Has

----------------------------------------------------------------------------
(* Initial states, and the two ways an action ends.                        *)

\* Before the first byte.
LEMMA InitInv == Init => Inv
<1> SUFFICES ASSUME Init PROVE Inv
  OBVIOUS
<1>1. TypeOK
  BY DecoderAssumption DEF Init, TypeOK, Codes
<1>2. built \in Seq(Seq({}))
  BY DEF Init
<1>3. WithinLimits
  <2>1. data \in Seq(Byte)
    BY DecoderAssumption DEF Init
  <2> QED
    BY <2>1, DecoderAssumption DEF Init, WithinLimits
<1> QED
  BY <1>1, <1>2, <1>3 DEF Inv, Lists

\* An exception,
LEMMA RaiseKeepsInv ==
  ASSUME Inv, NEW code \in Codes, Raise(code)
  PROVE  Inv'
BY DEF Inv, Lists, TypeOK, WithinLimits, Raise

\* and a value that is returned.
LEMMA DeliverKeepsInv ==
  ASSUME Inv, NEW v, NEW n \in Nat, n <= Len(data), Deliver(v, n)
  PROVE  Inv'
BY DEF Inv, Lists, TypeOK, WithinLimits, Deliver

----------------------------------------------------------------------------
(* Reading the head of an item and its contents.                           *)

\* An item without items is read within the input.
LEMMA ReadKeepsInv ==
  ASSUME Inv, ReadSimple \/ ReadInteger \/ ReadString
  PROVE  Inv'
<1>1. TypeOK /\ pos \in Nat /\ Len(data) \in Nat
  BY DEF Inv, TypeOK
<1>2. CASE ReadSimple
  <2>1. CASE ai = 24
    <3>1. pos + 2 \in Nat /\ pos + 2 <= Len(data)
      BY <1>1, <1>2, <2>1 DEF ReadSimple, IsSimple, Has
    <3> QED
      BY <3>1, <1>2, <2>1, DeliverKeepsInv DEF ReadSimple
  <2>2. CASE ai # 24
    <3>1. pos + 1 \in Nat /\ pos + 1 <= Len(data)
      BY <1>1, <1>2 DEF ReadSimple, Has
    <3> QED
      BY <3>1, <1>2, <2>2, DeliverKeepsInv DEF ReadSimple
  <2> QED
    BY <2>1, <2>2
<1>3. CASE ReadInteger
  <2>1. headSize \in Nat /\ pos + headSize <= Len(data)
    BY <1>1, <1>3, HeadFacts DEF ReadInteger, AtHead
  <2>2. pos + headSize \in Nat
    BY <2>1, <1>1
  <2> QED
    BY <2>1, <2>2, <1>3, DeliverKeepsInv DEF ReadInteger
<1>4. CASE ReadString
  <2>1. headSize \in Nat /\ length \in Nat
    BY <1>1, <1>4, HeadFacts DEF ReadString, AtHead
  <2>2. pos + headSize + length \in Nat /\ pos + headSize + length <= Len(data)
    BY <2>1, <1>1, <1>4 DEF ReadString, IsString, Has
  <2> QED
    BY <2>2, <1>4, DeliverKeepsInv DEF ReadString
<1> QED
  BY <1>2, <1>3, <1>4

\* The ways decode raises a CodecError.
Refusals ==
  \/ EndOfInput \/ RefuseSimple \/ RefuseHead \/ RefuseString \/ RefuseTag
  \/ RefuseDepth \/ RefuseMember \/ RefuseKey \/ RefuseTrailingBytes

\* Every refusal raises one of the three codes.
LEMMA RefusalRaises ==
  ASSUME Inv, Refusals
  PROVE  \E code \in Codes : code # "none" /\ Raise(code)
<1>2. CASE RefuseSimple
  <2>1. ai \in 0..31
    <3>1. initial \in Byte
      BY <1>2 DEF Inv, TypeOK, RefuseSimple, initial, Has
    <3>. QED
      BY <3>1 DEF ai, Byte
  <2>2. ai \in 23..31
    BY <2>1, <1>2 DEF RefuseSimple, IsSimple
  <2>3. Major7Refusal \in Codes /\ Major7Refusal # "none"
    BY <2>2 DEF Major7Refusal, Codes
  <2>. QED
    BY <2>3, <1>2 DEF RefuseSimple
<1>3. CASE RefuseHead
  <2>1. ai \in 0..31
    <3>1. initial \in Byte
      BY <1>3 DEF Inv, TypeOK, RefuseHead, initial, Has
    <3>. QED
      BY <3>1 DEF ai, Byte
  <2>2. HeadRefusal \in Codes /\ HeadRefusal # "none"
    BY <2>1 DEF HeadRefusal, Codes
  <2>. QED
    BY <2>2, <1>3 DEF RefuseHead
<1>4. CASE RefuseKey
  <2>1. KeyRefusal \in Codes
    BY DEF KeyRefusal, Codes
  <2>. QED
    BY <2>1, <1>4 DEF RefuseKey
<1>5. CASE EndOfInput \/ RefuseString \/ RefuseTrailingBytes
  BY <1>5 DEF EndOfInput, RefuseString, RefuseTrailingBytes, Codes
<1>6. CASE RefuseTag
  BY <1>6 DEF RefuseTag, Codes
<1>7. CASE RefuseDepth \/ RefuseMember
  BY <1>7 DEF RefuseDepth, RefuseMember, Codes
<1>. QED
  BY <1>2, <1>3, <1>4, <1>5, <1>6, <1>7 DEF Refusals

\* So none of them disturbs a counter.
LEMMA RefusalKeepsInv ==
  ASSUME Inv, Refusals
  PROVE  Inv'
BY RefusalRaises, RaiseKeepsInv

----------------------------------------------------------------------------
(* Containers.                                                             *)

\* What the loops over members may assume of the innermost container.
LEMMA TopFacts ==
  ASSUME Inv, stack # << >>
  PROVE  /\ Len(stack) \in Nat \ {0}
         /\ Len(built) = Len(stack)
         /\ top \in Frames
<1>1. stack \in Seq(Frames) /\ Len(built) = Len(stack)
  BY DEF Inv, TypeOK
<1>2. Len(stack) \in Nat \ {0}
  BY <1>1
<1>3. stack[Len(stack)] \in Frames
  BY <1>1, <1>2
<1> QED
  BY <1>1, <1>2, <1>3 DEF top

\* Replacing the innermost frame.
LEMMA WithTopFacts ==
  ASSUME Inv, stack # << >>, NEW frame \in Frames
  PROVE  /\ WithTop(frame) \in Seq(Frames)
         /\ Len(WithTop(frame)) = Len(stack)
         /\ WithTop(frame) # << >>
<1>1. stack \in Seq(Frames) /\ Len(stack) \in Nat \ {0}
  BY TopFacts DEF Inv, TypeOK
<1> QED
  BY <1>1 DEF WithTop

\* Adding an item to the innermost list.
LEMMA AddedFacts ==
  ASSUME Inv, stack # << >>, NEW item, built' = Added(item)
  PROVE  Lists' /\ Len(built') = Len(stack)
<1>1. PICK S : built \in Seq(Seq(S))
  BY DEF Inv, Lists
<1>2. Len(built) \in Nat \ {0} /\ Len(built) = Len(stack)
  BY TopFacts
<1> DEFINE T == S \cup {item}
<1>3. Append(built[Len(built)], item) \in Seq(T)
  <2>1. built[Len(built)] \in Seq(S)
    BY <1>1, <1>2
  <2>2. built[Len(built)] \in Seq(T)
    BY <2>1
  <2> QED
    BY <2>2
<1>4. built \in Seq(Seq(T))
  <2>1. Seq(S) \subseteq Seq(T)
    OBVIOUS
  <2> QED
    BY <1>1, <2>1
<1>5. [ built EXCEPT ![Len(built)] = Append(built[Len(built)], item) ] \in Seq(Seq(T))
  BY <1>2, <1>3, <1>4
<1>6. Len([ built EXCEPT ![Len(built)] = Append(built[Len(built)], item) ]) = Len(built)
  BY <1>2, <1>4
<1> QED
  BY <1>2, <1>5, <1>6 DEF Added, Lists

\* A container is opened within the depth,
LEMMA OpenKeepsInv ==
  ASSUME Inv, OpenContainer
  PROVE  Inv'
<1> DEFINE frame == [ kind |-> IF major = 4 THEN "array" ELSE "map", left |-> length,
                      wantsKey |-> FALSE, start |-> 0, previous |-> << >> ]
<1>1. /\ headSize \in Nat \ {0}
      /\ length \in Nat
      /\ pos + headSize <= Len(data)
  BY HeadFacts DEF OpenContainer, AtHead, Inv
<1>2. pos \in Nat /\ stack \in Seq(Frames) /\ Len(built) = Len(stack)
  BY DEF Inv, TypeOK
<1>3. frame \in Frames
  BY <1>1 DEF Frames
<1>4. /\ stack' \in Seq(Frames)
      /\ stack' # << >>
      /\ Len(stack') = Len(stack) + 1
  BY <1>2, <1>3 DEF OpenContainer
<1>5. Lists' /\ Len(built') = Len(built) + 1
  <2>1. PICK S : built \in Seq(Seq(S))
    BY DEF Inv, Lists
  <2>2. Append(built, << >>) \in Seq(Seq(S)) /\ Len(Append(built, << >>)) = Len(built) + 1
    BY <2>1
  <2> QED
    BY <2>2 DEF OpenContainer, Lists
<1>6. TypeOK'
  BY <1>1, <1>2, <1>4, <1>5 DEF TypeOK, OpenContainer, Inv
<1>7. WithinLimits'
  BY <1>1, <1>2, <1>4 DEF WithinLimits, OpenContainer, Inv
<1> QED
  BY <1>5, <1>6, <1>7 DEF Inv

\* a member counted within their number,
LEMMA CountKeepsInv ==
  ASSUME Inv, CountMember
  PROVE  Inv'
<1>1. stack # << >>
  BY DEF Inv, TypeOK, CountMember
<1> DEFINE frame == [ top EXCEPT !.left = @ - 1, !.start = pos,
                                 !.wantsKey = top.kind = "map" ]
<1>2. frame \in Frames
  <2>1. top \in Frames /\ pos \in Nat
    BY <1>1, TopFacts DEF Inv, TypeOK
  <2>2. top.left - 1 \in Nat
    BY <2>1 DEF CountMember, Frames
  <2> QED
    BY <2>1, <2>2 DEF Frames
<1>3. stack' = WithTop(frame)
  BY DEF CountMember
<1>4. stack' \in Seq(Frames) /\ Len(stack') = Len(stack) /\ stack' # << >>
  BY <1>1, <1>2, <1>3, WithTopFacts
<1>5. TypeOK'
  BY <1>4 DEF TypeOK, CountMember, Inv
<1>6. WithinLimits'
  BY <1>4 DEF WithinLimits, CountMember, Inv
<1> QED
  BY <1>5, <1>6 DEF Inv, Lists, CountMember

\* a complete container leaves the others,
LEMMA CloseKeepsInv ==
  ASSUME Inv, CloseContainer
  PROVE  Inv'
<1>1. stack # << >>
  BY DEF Inv, TypeOK, CloseContainer
<1>2. Len(stack) \in Nat \ {0} /\ stack \in Seq(Frames) /\ Len(built) = Len(stack)
  BY <1>1, TopFacts DEF Inv, TypeOK
<1>3. stack' \in Seq(Frames) /\ Len(stack') = Len(stack) - 1
  BY <1>2 DEF CloseContainer, Front
<1>4. Lists' /\ Len(built') = Len(built) - 1
  <2>1. PICK S : built \in Seq(Seq(S))
    BY DEF Inv, Lists
  <2>2. Front(built) \in Seq(Seq(S)) /\ Len(Front(built)) = Len(built) - 1
    BY <2>1, <1>2 DEF Front
  <2> QED
    BY <2>2 DEF CloseContainer, Lists
<1>5. TypeOK'
  BY <1>2, <1>3, <1>4 DEF TypeOK, CloseContainer, Inv
<1>6. WithinLimits'
  BY <1>2, <1>3, DecoderAssumption DEF WithinLimits, CloseContainer, Inv
<1> QED
  BY <1>4, <1>5, <1>6 DEF Inv

\* and an item joins the innermost list.
LEMMA TakeKeepsInv ==
  ASSUME Inv, TakeKey \/ TakeItem
  PROVE  Inv'
<1>1. stack # << >>
  BY DEF TakeKey, TakeItem, Delivering
<1>2. Lists' /\ Len(built') = Len(stack)
  BY <1>1, AddedFacts DEF TakeKey, TakeItem
<1>3. CASE TakeKey
  <2> DEFINE frame == [ top EXCEPT !.wantsKey = FALSE, !.previous = keyBytes ]
  <2>1. top \in Frames /\ data \in Seq(Byte) /\ pos \in Nat /\ pos <= Len(data)
    BY <1>1, TopFacts DEF Inv, TypeOK, WithinLimits
  <2>2. keyBytes \in Seq(Byte)
    <3>1. top.start + 1 \in Nat \ {0}
      BY <2>1 DEF Frames
    <3> QED
      BY <3>1, <2>1 DEF keyBytes
  <2>3. frame \in Frames
    BY <2>1, <2>2 DEF Frames
  <2>4. stack' = WithTop(frame)
    BY <1>3 DEF TakeKey
  <2>5. stack' \in Seq(Frames) /\ Len(stack') = Len(stack) /\ stack' # << >>
    BY <1>1, <2>3, <2>4, WithTopFacts
  <2>6. TypeOK'
    BY <1>2, <1>3, <2>5 DEF TypeOK, TakeKey, Inv
  <2>7. WithinLimits'
    BY <1>3, <2>5 DEF WithinLimits, TakeKey, Inv
  <2> QED
    BY <1>2, <2>6, <2>7 DEF Inv
<1>4. CASE TakeItem
  <2>1. TypeOK'
    BY <1>1, <1>2, <1>4 DEF TypeOK, TakeItem, Inv
  <2>2. WithinLimits'
    BY <1>4 DEF WithinLimits, TakeItem, Inv
  <2> QED
    BY <1>2, <2>1, <2>2 DEF Inv
<1> QED
  BY <1>3, <1>4

----------------------------------------------------------------------------
(* The theorems about types and limits.                                    *)

\* Types and limits hold in every state: Inv is inductive.
THEOREM DecoderInvariant == Spec => []Inv
<1>1. Init => Inv
  BY InitInv
<1>2. Inv /\ [Next]_vars => Inv'
  <2> SUFFICES ASSUME Inv, [Next]_vars PROVE Inv'
    OBVIOUS
  <2>1. CASE ReadSimple \/ ReadInteger \/ ReadString
    BY <2>1, ReadKeepsInv
  <2>2. CASE Refusals
    BY <2>2, RefusalKeepsInv
  <2>3. CASE OpenContainer
    BY <2>3, OpenKeepsInv
  <2>4. CASE CountMember
    BY <2>4, CountKeepsInv
  <2>5. CASE CloseContainer
    BY <2>5, CloseKeepsInv
  <2>6. CASE TakeKey \/ TakeItem
    BY <2>6, TakeKeepsInv
  <2>7. CASE ReturnValue
    BY <2>7 DEF ReturnValue, Inv, TypeOK, Lists, WithinLimits
  <2>8. CASE UNCHANGED vars
    BY <2>8 DEF vars, Inv, TypeOK, Lists, WithinLimits
  <2> QED
    BY <2>1, <2>2, <2>3, <2>4, <2>5, <2>6, <2>7, <2>8 DEF Next, Refusals
<1> QED
  BY <1>1, <1>2, PTL DEF Spec

\* The variables of the decoder keep their types, and each open container its
\* list of items, whatever the input.
THEOREM TypeCorrect == Spec => []TypeOK
<1>1. Inv => TypeOK
  BY DEF Inv
<1> QED
  BY <1>1, DecoderInvariant, PTL

\* decode_item never looks past the input and never exceeds the limits it was
\* given, whatever lengths and counts the input declares.
THEOREM Limits == Spec => []WithinLimits
<1>1. Inv => WithinLimits
  BY DEF Inv
<1> QED
  BY <1>1, DecoderInvariant, PTL

----------------------------------------------------------------------------
(* What is known of the bytes read so far.                                 *)

\* The values that nest at most n - 1 levels deep and whose encoding is some bytes.
Encodable(n) == { v \in DOMAIN EncodeTo[n] : Encoded(v) \in Seq(Byte) /\ Encoded(v) # << >> }

\* Members of the k-th open container whose reading has begun.
Underway(k) ==
  (IF stack[k].kind = "array" THEN Len(built[k]) ELSE Len(built[k]) \div 2)
    + (IF Reading(k) THEN 1 ELSE 0)

\* Where each container stands in its loop: the code is at an item of an array, at
\* a key, at the value under a key, or between two members; and it has counted
\* every member it has begun.
InLoop(k) ==
  /\ stack[k].wantsKey => stack[k].kind = "map" /\ Reading(k)
  /\ stack[k].kind = "map" =>
       (Len(built[k]) % 2 = 1 <=> Reading(k) /\ ~stack[k].wantsKey)
  /\ Underway(k) <= members

\* decode_item is at work, and every container in its loop.
Loops == pc # "done" => \A k \in DOMAIN stack : InLoop(k)

\* No container declares more members than the model tells apart.
Plausible == \A k \in DOMAIN stack : Announced(k) < COUNT_CAP

\* What the items of a container encode to.
EncodedItems(s) == [ j \in DOMAIN s |-> Encoded(s[j]) ]

\* What has been read of the k outermost containers.
Outer(k) == FlattenSeq([ j \in 1..k |-> Started(j) ])

\* Each key of a map comes after the one before it.
KeysIncrease(s) ==
  \A j \in DOMAIN s : j % 2 = 1 /\ j + 2 \in DOMAIN s => LexLess(Encoded(s[j]), Encoded(s[j + 2]))

\* The last key of a map, with or without its value.
LastKey(s) ==
  IF s = << >> THEN << >>
  ELSE Encoded(s[IF Len(s) % 2 = 1 THEN Len(s) ELSE Len(s) - 1])

\* The items of the k-th container can be encoded, a key starts where what was read
\* before it ends, and the key remembered is the last one taken.
Accounts(k) ==
  /\ built[k] \in Seq(Encodable((max_depth + 1) - k))
  /\ stack[k].wantsKey => stack[k].start = Len(Outer(k))
  /\ stack[k].kind = "map" => KeysIncrease(built[k]) /\ stack[k].previous = LastKey(built[k])

\* Every byte read is in the encoding of an open container or in that of the value
\* being delivered.
Account ==
  /\ \A k \in DOMAIN stack : Accounts(k)
  /\ pc = "deliver" => value \in Encodable((max_depth + 1) - Len(stack))
  /\ SubSeq(data, 1, pos)
       = Outer(Len(stack)) \o IF pc = "deliver" THEN Encoded(value) ELSE << >>

\* While decode_item is at work, if the containers are plausible; and of a value that
\* decode returns, in any case.
Accounting ==
  /\ pc # "done" /\ Plausible => Account
  /\ pc = "done" /\ verdict = "none" =>
        value \in DOMAIN EncodeTo[max_depth + 1] /\ Encoded(value) = data

----------------------------------------------------------------------------
(* What a head says.                                                       *)

\* The fields of the byte at the position.
LEMMA InitialByte ==
  ASSUME TypeOK, Has(1)
  PROVE  /\ data \in Seq(Byte) /\ pos \in Nat /\ Len(data) \in Nat /\ pos + 1 <= Len(data)
         /\ initial \in 0..255 /\ major \in 0..7 /\ ai \in 0..31
         /\ initial = (32 * major) + ai
<1>1. data \in Seq(Byte) /\ pos \in Nat
  BY DEF TypeOK
<1>2. Len(data) \in Nat /\ pos + 1 <= Len(data)
  BY <1>1 DEF Has
<1>3. initial \in 0..255
  <2>1. pos + 1 \in 1..Len(data)
    BY <1>1, <1>2
  <2>. QED
    BY <1>1, <2>1, DigitIs DEF initial
<1>4. \A b \in 0..255 : /\ b \div 32 \in 0..7 /\ b % 32 \in 0..31
                        /\ b = (32 * (b \div 32)) + (b % 32)
  OBVIOUS
<1>. QED
  BY <1>1, <1>2, <1>3, <1>4 DEF major, ai

\* A head is the encoding of its major type and its argument: no other head is let
\* through, so nothing about its form is lost.
LEMMA HeadIsEncoded ==
  ASSUME TypeOK, Has(1), IsHead
  PROVE  /\ argument \in Seq(Byte) /\ Len(argument) <= 8
         /\ Len(argument) # 0 => argument[1] # 0
         /\ headSize \in Nat \ {0} /\ pos + headSize <= Len(data)
         /\ EncodeHead(major, argument) = SubSeq(data, pos + 1, pos + headSize)
<1>1. /\ data \in Seq(Byte) /\ pos \in Nat /\ Len(data) \in Nat /\ pos + 1 <= Len(data)
      /\ initial \in 0..255 /\ major \in 0..7 /\ ai \in 0..27
      /\ initial = (32 * major) + ai
  <2>1. \A n \in 0..31 : n <= 27 => n \in 0..27
    OBVIOUS
  <2>. QED
    BY InitialByte, <2>1 DEF IsHead
<1>2. headSize \in Nat \ {0} /\ pos + headSize <= Len(data)
  BY HeadFacts
<1>. DEFINE first == << initial >>
<1>3. SubSeq(data, pos + 1, pos + 1) = first /\ first \in Seq(Byte)
  <2>1. /\ SubSeq(data, pos + 1, pos + 1) \in Seq(Byte)
        /\ Len(SubSeq(data, pos + 1, pos + 1)) = (pos + 1) - pos
        /\ \A k \in 1..(pos + 1) - pos : SubSeq(data, pos + 1, pos + 1)[k] = data[pos + k]
    <3>1. pos + 1 \in Nat /\ pos <= pos + 1
      BY <1>1
    <3>. QED
      BY <1>1, <3>1, Slice
  <2>. DEFINE u == SubSeq(data, pos + 1, pos + 1)
  <2>. HIDE DEF u
  <2>2. u \in Seq(Byte) /\ Len(u) = 1 /\ u[1] = initial
    <3>1. (pos + 1) - pos = 1
      BY <1>1
    <3>. QED
      BY <2>1, <3>1 DEF u, initial
  <2>3. u = << u[1] >>
    BY <2>2
  <2>. QED
    BY <2>2, <2>3 DEF u
<1>4. CASE ai < 24
  <2>1. headSize = 1 /\ argument = Digit(ai)
    BY <1>4 DEF headSize, argument
  <2>. SUFFICES /\ argument \in Seq(Byte) /\ Len(argument) <= 8
                /\ Len(argument) # 0 => argument[1] # 0
                /\ EncodeHead(major, argument) = first
    BY <1>2, <1>3, <2>1
  <2>2. CASE ai = 0
    <3>1. argument = << >>
      BY <2>1, <2>2 DEF Digit
    <3>5. << >> \in Seq(Byte) /\ Len(<< >>) = 0 /\ major \in Nat
      BY <1>1, EmptySeq
    <3>2. EncodeHead(major, argument) = << (32 * major) + 0 >> \o << >>
      BY <1>1, <3>1, <3>5, HeadZero
    <3>3. << (32 * major) + 0 >> = first
      BY <1>1, <2>2
    <3>4. first \o << >> = first
      BY <1>3, ConcatEmptySeq
    <3>. QED
      BY <3>1, <3>2, <3>3, <3>4, <3>5
  <2>3. CASE ai # 0
    <3>1. argument = << ai >> /\ ai \in 1..23
      BY <1>1, <1>4, <2>1, <2>3 DEF Digit
    <3>. DEFINE a == ai
    <3>. HIDE DEF a
    <3>2. argument = << a >> /\ a \in 1..23
      BY <3>1 DEF a
    <3>3. argument \in Seq(Byte) /\ Len(argument) = 1 /\ argument[1] = a
      BY <3>2 DEF Byte
    <3>4. EncodeHead(major, argument) = << (32 * major) + a >> \o << >>
      <4>1. a \in 0..23
        BY <3>2
      <4>. QED
        BY <3>3, <4>1, HeadSmall
    <3>5. << (32 * major) + a >> = first
      BY <1>1 DEF a
    <3>6. first \o << >> = first
      BY <1>3, ConcatEmptySeq
    <3>7. a # 0
      BY <3>2
    <3>. QED
      BY <3>3, <3>4, <3>5, <3>6, <3>7
  <2>. QED
    BY <2>2, <2>3
<1>5. CASE ai \in 24..27
  <2>. DEFINE size == ArgumentSize(ai)
              raw  == SubSeq(data, pos + 2, pos + 1 + size)
  <2>0. ~(ai < 24) /\ ai >= 24
    BY <1>5
  <2>1. headSize = 1 + size /\ argument = Significant(raw) /\ Shortest(ai, argument)
    BY <2>0 DEF headSize, argument, IsHead
  <2>2. /\ ai = 24 => size = 1
        /\ ai = 25 => size = 2
        /\ ai = 26 => size = 4
        /\ ai = 27 => size = 8
    BY DEF ArgumentSize
  <2>3. size \in 1..8 /\ size \in Nat
    BY <1>5, <2>2
  <2>. HIDE DEF size
  <2>4. (pos + 1) + size <= Len(data)
    BY <1>1, <1>2, <2>1, <2>3
  <2>5. raw \in Seq(Byte) /\ Len(raw) = size
    <3>. DEFINE b == (pos + 1) + size
    <3>1. /\ SubSeq(data, (pos + 1) + 1, b) \in Seq(Byte)
          /\ Len(SubSeq(data, (pos + 1) + 1, b)) = b - (pos + 1)
      <4>1. pos + 1 \in Nat /\ b \in Nat /\ pos + 1 <= b /\ b <= Len(data)
        BY <1>1, <2>3, <2>4
      <4>. HIDE DEF b
      <4>. QED
        BY <1>1, <4>1, Slice
    <3>2. (pos + 1) + 1 = pos + 2 /\ b = pos + 1 + size /\ b - (pos + 1) = size
      BY <1>1, <2>3
    <3>. QED
      BY <3>1, <3>2
  <2>6. SubSeq(data, pos + 1, pos + headSize) = first \o raw
    <3>. DEFINE b == (pos + 1) + size
    <3>1. SubSeq(data, pos + 1, pos + 1) \o SubSeq(data, (pos + 1) + 1, b)
            = SubSeq(data, pos + 1, b)
      <4>1. /\ pos \in Nat /\ pos + 1 \in Nat /\ b \in Nat /\ pos <= pos + 1
            /\ pos + 1 <= b /\ b <= Len(data)
        BY <1>1, <2>3, <2>4
      <4>. HIDE DEF b
      <4>. QED
        BY <1>1, <4>1, SlicesJoin
    <3>2. (pos + 1) + 1 = pos + 2 /\ b = pos + 1 + size /\ b = pos + headSize
      BY <1>1, <2>1, <2>3
    <3>. QED
      BY <1>3, <3>1, <3>2
  <2>. HIDE DEF raw
  <2>7. /\ argument \in Seq(Byte) /\ Len(argument) <= size
        /\ Len(argument) # 0 => argument[1] # 0
        /\ Padded(argument, size) = raw
        /\ Len(argument) = size => argument = raw
    BY <2>1, <2>5, SignificantIs
  <2>. DEFINE l == Len(argument)
  <2>8. l \in Nat /\ l <= size
    BY <2>7, LenProperties
  <2>9. l <= 8
    BY <2>3, <2>8
  <2>. HIDE DEF l
  <2>12. \A n \in Nat : (n > 2 /\ n <= 4 => n \in 3..4) /\ (n > 4 /\ n <= 8 => n \in 5..8)
    OBVIOUS
  <2>10. EncodeHead(major, argument) = << (32 * major) + ai >> \o raw
    <3>1. CASE ai = 24
      <4>1. l = 1 /\ argument[1] >= 24
        BY <2>1, <3>1 DEF Shortest, l
      <4>2. argument[1] \in 24..255
        <5>1. 1 \in 1..Len(argument)
          BY <4>1 DEF l
        <5>2. argument[1] \in 0..255
          BY <2>7, <5>1, DigitIs
        <5>3. \A d \in 0..255 : d >= 24 => d \in 24..255
          OBVIOUS
        <5>. QED
          BY <4>1, <5>2, <5>3
      <4>3. argument = raw
        BY <2>2, <2>7, <3>1, <4>1 DEF l
      <4>4. EncodeHead(major, argument) = << 32 * major + 24 >> \o argument
        BY <4>1, <4>2, HeadOne DEF l
      <4>. QED
        BY <3>1, <4>3, <4>4
    <3>2. CASE ai = 25
      <4>1. l = 2
        BY <2>1, <3>2 DEF Shortest, l
      <4>2. argument = raw
        BY <2>2, <2>7, <3>2, <4>1 DEF l
      <4>3. EncodeHead(major, argument) = << 32 * major + 25 >> \o argument
        BY <4>1, HeadTwo DEF l
      <4>. QED
        BY <3>2, <4>2, <4>3
    <3>3. CASE ai = 26
      <4>1. l > 2
        BY <2>1, <3>3 DEF Shortest, l
      <4>2. l \in 3..4
        BY <2>2, <2>8, <2>12, <3>3, <4>1
      <4>3. EncodeHead(major, argument) = << 32 * major + 26 >> \o Padded(argument, 4)
        BY <4>2, HeadFour DEF l
      <4>. QED
        BY <2>2, <2>7, <3>3, <4>3
    <3>4. CASE ai = 27
      <4>1. l > 4
        BY <2>1, <3>4 DEF Shortest, l
      <4>2. l \in 5..8
        BY <2>2, <2>8, <2>12, <3>4, <4>1
      <4>3. EncodeHead(major, argument) = << 32 * major + 27 >> \o Padded(argument, 8)
        BY <4>2, HeadEight DEF l
      <4>. QED
        BY <2>2, <2>7, <3>4, <4>3
    <3>5. \A n \in 24..27 : n = 24 \/ n = 25 \/ n = 26 \/ n = 27
      OBVIOUS
    <3>. QED
      BY <1>5, <3>1, <3>2, <3>3, <3>4, <3>5
  <2>11. << (32 * major) + ai >> = first
    BY <1>1
  <2>. QED
    BY <1>2, <2>6, <2>7, <2>9, <2>10, <2>11 DEF l
<1>6. \A n \in 0..27 : n < 24 \/ n \in 24..27
  OBVIOUS
<1>. QED
  BY <1>1, <1>4, <1>5, <1>6

\* A value of the level above that of its items is encoded by _encode_item.
LEMMA ValueIsEncodable ==
  ASSUME NEW n \in Nat, n <= max_depth, NEW v \in ValuesOf(DOMAIN EncodeTo[n]),
         EncodeItem(v, EncodeTo[n]) \in Seq(Byte), EncodeItem(v, EncodeTo[n]) # << >>
  PROVE  v \in Encodable(n + 1) /\ Encoded(v) = EncodeItem(v, EncodeTo[n])
<1>1. max_depth + 1 \in Nat /\ n + 1 <= max_depth + 1
  BY DecoderAssumption
<1>2. /\ v \in DOMAIN EncodeTo[n + 1]
      /\ EncodeTo[max_depth + 1][v] = EncodeItem(v, EncodeTo[n])
  BY <1>1, EncodeValue
<1>. QED
  BY <1>2 DEF Encodable, Encoded

\* The levels agree on what they encode: a value may be read at any of them.
LEMMA EncodableIsEncoded ==
  ASSUME NEW n \in Nat, n <= max_depth + 1, NEW v \in Encodable(n)
  PROVE  /\ v \in DOMAIN EncodeTo[n] /\ EncodeTo[n][v] = Encoded(v)
         /\ Encoded(v) \in Seq(Byte) /\ Encoded(v) # << >>
<1>1. max_depth + 1 \in Nat
  BY DecoderAssumption
<1>2. Extends(EncodeTo[n], EncodeTo[max_depth + 1])
  BY <1>1, LevelsExtend
<1>. QED
  BY <1>2 DEF Encodable, Encoded, Extends

\* A part of the input that is not empty is not the empty sequence.
LEMMA ReadBytes ==
  ASSUME NEW d \in Seq(Byte), NEW a \in Nat, NEW b \in Nat, a < b, b <= Len(d)
  PROVE  SubSeq(d, a + 1, b) \in Seq(Byte) /\ SubSeq(d, a + 1, b) # << >>
<1>1. SubSeq(d, a + 1, b) \in Seq(Byte) /\ Len(SubSeq(d, a + 1, b)) = b - a
  <2>1. a <= b
    OBVIOUS
  <2>. QED
    BY <2>1, Slice
<1>2. b - a # 0 /\ Len(<< >>) = 0
  OBVIOUS
<1>. QED
  BY <1>1, <1>2

\* What is read at the innermost container, and how deep it may nest.
LEMMA DepthLeft ==
  ASSUME Inv
  PROVE  /\ Len(stack) \in Nat /\ max_depth \in Nat /\ max_depth - Len(stack) \in Nat
         /\ max_depth - Len(stack) <= max_depth
         /\ (max_depth - Len(stack)) + 1 = (max_depth + 1) - Len(stack)
<1>1. stack \in Seq(Frames) /\ Len(stack) <= max_depth /\ max_depth \in Nat
  BY DecoderAssumption DEF Inv, TypeOK, WithinLimits
<1>2. Len(stack) \in Nat
  BY <1>1, LenProperties
<1>. QED
  BY <1>1, <1>2

\* A value without items that encodes to the bytes from the position to n.
LEMMA LeafIsRead ==
  ASSUME Inv, NEW n \in Nat, pos < n, n <= Len(data),
         NEW v \in ValuesOf(DOMAIN EncodeTo[max_depth - Len(stack)]),
         EncodeItem(v, EncodeTo[max_depth - Len(stack)]) = SubSeq(data, pos + 1, n)
  PROVE  /\ v \in Encodable((max_depth + 1) - Len(stack))
         /\ Encoded(v) = SubSeq(data, pos + 1, n)
<1>1. data \in Seq(Byte) /\ pos \in Nat
  BY DEF Inv, TypeOK
<1>2. SubSeq(data, pos + 1, n) \in Seq(Byte) /\ SubSeq(data, pos + 1, n) # << >>
  BY <1>1, ReadBytes
<1>. DEFINE m == max_depth - Len(stack)
<1>3. m \in Nat /\ m <= max_depth /\ m + 1 = (max_depth + 1) - Len(stack)
  BY DepthLeft
<1>. HIDE DEF m
<1>4. v \in Encodable(m + 1) /\ Encoded(v) = EncodeItem(v, EncodeTo[m])
  BY <1>2, <1>3, ValueIsEncodable DEF m
<1>. QED
  BY <1>3, <1>4 DEF m

\* A simple value that is read encodes to the bytes it was read from.
LEMMA SimpleIsRead ==
  ASSUME Inv, ReadSimple
  PROVE  /\ pos' \in Nat /\ pos < pos' /\ pos' <= Len(data)
         /\ value' \in Encodable((max_depth + 1) - Len(stack))
         /\ Encoded(value') = SubSeq(data, pos + 1, pos')
<1>1. /\ data \in Seq(Byte) /\ pos \in Nat /\ Len(data) \in Nat /\ pos + 1 <= Len(data)
      /\ initial \in 0..255 /\ major \in 0..7 /\ ai \in 0..31
      /\ initial = (32 * major) + ai
  BY InitialByte DEF Inv, ReadSimple
<1>2. major = 7 /\ IsSimple
  BY DEF ReadSimple
<1>3. \A w \in Byte : << "simple", w >> \in ValuesOf(DOMAIN EncodeTo[max_depth - Len(stack)])
  BY DEF ValuesOf
<1>. DEFINE e == EncodeTo[max_depth - Len(stack)]
<1>. HIDE DEF e
<1>4. CASE ai = 24
  <2>1. pos + 2 <= Len(data) /\ data[pos + 2] >= 32
    BY <1>2, <1>4 DEF IsSimple, Has
  <2>2. value' = << "simple", data[pos + 2] >> /\ pos' = pos + 2
    BY <1>4 DEF ReadSimple, Deliver
  <2>. DEFINE w == data[pos + 2]
  <2>3. w \in 0..255 /\ pos + 2 \in 1..Len(data)
    <3>1. pos + 2 \in 1..Len(data)
      BY <1>1, <2>1
    <3>. QED
      BY <1>1, <3>1, DigitIs
  <2>4. SubSeq(data, pos + 1, pos + 2) = << initial, w >>
    <3>. DEFINE u == SubSeq(data, pos + 1, pos + 2)
    <3>1. u \in Seq(Byte) /\ Len(u) = (pos + 2) - pos /\ \A k \in 1..(pos + 2) - pos : u[k] = data[pos + k]
      <4>1. pos + 2 \in Nat /\ pos <= pos + 2
        BY <1>1
      <4>. QED
        BY <1>1, <2>1, <4>1, Slice
    <3>. HIDE DEF u
    <3>2. u \in Seq(Byte) /\ Len(u) = 2 /\ u[1] = initial /\ u[2] = w
      <4>1. (pos + 2) - pos = 2
        BY <1>1
      <4>. QED
        BY <3>1, <4>1 DEF initial
    <3>3. u = << u[1], u[2] >>
      BY <3>2
    <3>. QED
      BY <3>2, <3>3 DEF u
  <2>. HIDE DEF w
  <2>5. w >= 32 /\ ~(w < 24)
    <3>1. \A b \in 0..255 : b >= 32 => ~(b < 24)
      OBVIOUS
    <3>2. w >= 32
      BY <2>1 DEF w
    <3>. QED
      BY <2>3, <3>1, <3>2
  <2>6. EncodeItem(<< "simple", w >>, e) = << 248, w >>
    BY <2>5 DEF EncodeItem
  <2>7. initial = 248
    BY <1>1, <1>2, <1>4
  <2>8. w \in Byte
    BY <2>3 DEF Byte
  <2>9. pos' \in Nat /\ pos < pos' /\ pos' <= Len(data)
    BY <1>1, <2>1, <2>2
  <2>10. EncodeItem(value', e) = SubSeq(data, pos + 1, pos')
    BY <2>2, <2>4, <2>6, <2>7 DEF w
  <2>11. value' \in ValuesOf(DOMAIN EncodeTo[max_depth - Len(stack)])
    BY <1>3, <2>2, <2>8 DEF w
  <2>. QED
    BY <2>9, <2>10, <2>11, LeafIsRead DEF e
<1>5. CASE ai # 24
  <2>1. value' = << "simple", ai >> /\ pos' = pos + 1 /\ ai <= 22
    BY <1>2, <1>5 DEF ReadSimple, Deliver, IsSimple
  <2>2. SubSeq(data, pos + 1, pos + 1) = << initial >>
    <3>. DEFINE u == SubSeq(data, pos + 1, pos + 1)
    <3>1. u \in Seq(Byte) /\ Len(u) = (pos + 1) - pos /\ \A k \in 1..(pos + 1) - pos : u[k] = data[pos + k]
      <4>1. pos + 1 \in Nat /\ pos <= pos + 1
        BY <1>1
      <4>. QED
        BY <1>1, <4>1, Slice
    <3>. HIDE DEF u
    <3>2. u \in Seq(Byte) /\ Len(u) = 1 /\ u[1] = initial
      <4>1. (pos + 1) - pos = 1
        BY <1>1
      <4>. QED
        BY <3>1, <4>1 DEF initial
    <3>3. u = << u[1] >>
      BY <3>2
    <3>. QED
      BY <3>2, <3>3 DEF u
  <2>. DEFINE w == ai
  <2>3. w \in 0..22 /\ initial = 224 + w
    BY <1>1, <1>2, <2>1
  <2>. HIDE DEF w
  <2>4. w \in Byte /\ w < 24
    BY <2>3 DEF Byte
  <2>5. EncodeItem(<< "simple", w >>, e) = << 224 + w >>
    BY <2>4 DEF EncodeItem
  <2>6. pos' \in Nat /\ pos < pos' /\ pos' <= Len(data)
    BY <1>1, <2>1
  <2>7. EncodeItem(value', e) = SubSeq(data, pos + 1, pos')
    BY <2>1, <2>2, <2>3, <2>5 DEF w
  <2>8. value' \in ValuesOf(DOMAIN EncodeTo[max_depth - Len(stack)])
    BY <1>3, <2>1, <2>4 DEF w
  <2>. QED
    BY <2>6, <2>7, <2>8, LeafIsRead DEF e
<1>. QED
  BY <1>4, <1>5

\* So does an integer.
LEMMA IntegerIsRead ==
  ASSUME Inv, ReadInteger
  PROVE  /\ pos' \in Nat /\ pos < pos' /\ pos' <= Len(data)
         /\ value' \in Encodable((max_depth + 1) - Len(stack))
         /\ Encoded(value') = SubSeq(data, pos + 1, pos')
<1>1. TypeOK /\ Has(1) /\ IsHead /\ pos \in Nat /\ (major = 0 \/ major = 1)
  BY DEF Inv, TypeOK, ReadInteger, AtHead
<1>2. /\ argument \in Seq(Byte) /\ Len(argument) <= 8
      /\ headSize \in Nat \ {0} /\ pos + headSize <= Len(data)
      /\ EncodeHead(major, argument) = SubSeq(data, pos + 1, pos + headSize)
  BY <1>1, HeadIsEncoded
<1>3. value' = << IF major = 0 THEN "uint" ELSE "nint", argument >> /\ pos' = pos + headSize
  BY DEF ReadInteger, Deliver
<1>4. pos' \in Nat /\ pos < pos' /\ pos' <= Len(data)
  BY <1>1, <1>2, <1>3
<1>. DEFINE e == EncodeTo[max_depth - Len(stack)]
<1>. HIDE DEF e
<1>5. EncodeItem(value', e) = EncodeHead(major, argument)
  <2>1. CASE major = 0
    <3>1. value' = << "uint", argument >>
      BY <1>3, <2>1
    <3>. QED
      BY <2>1, <3>1 DEF EncodeItem
  <2>2. CASE major = 1
    <3>1. value' = << "nint", argument >>
      BY <1>3, <2>2
    <3>. QED
      BY <2>2, <3>1 DEF EncodeItem
  <2>. QED
    BY <1>1, <2>1, <2>2
<1>6. value' \in ValuesOf(DOMAIN EncodeTo[max_depth - Len(stack)])
  <2>1. argument \in { digits \in Seq(Byte) : Len(digits) <= 8 }
    BY <1>2
  <2>. QED
    BY <1>3, <2>1 DEF ValuesOf
<1>7. EncodeItem(value', e) = SubSeq(data, pos + 1, pos')
  BY <1>2, <1>3, <1>5
<1>. QED
  BY <1>4, <1>6, <1>7, LeafIsRead DEF e

\* The length of a string that is read is a small number: no input is longer.
LEMMA StringIsRead ==
  ASSUME Inv, data \in Inputs, ReadString
  PROVE  /\ pos' \in Nat /\ pos < pos' /\ pos' <= Len(data)
         /\ value' \in Encodable((max_depth + 1) - Len(stack))
         /\ Encoded(value') = SubSeq(data, pos + 1, pos')
<1>1. /\ TypeOK /\ Has(1) /\ IsHead /\ pos \in Nat /\ data \in Seq(Byte)
      /\ major = 2 \/ major = 3
      /\ IsString
  BY DEF Inv, TypeOK, ReadString, AtHead
<1>2. /\ argument \in Seq(Byte)
      /\ Len(argument) # 0 => argument[1] # 0
      /\ headSize \in Nat \ {0} /\ pos + headSize <= Len(data)
      /\ EncodeHead(major, argument) = SubSeq(data, pos + 1, pos + headSize)
  BY <1>1, HeadIsEncoded
<1>3. value' = << IF major = 2 THEN "bytes" ELSE "text", string >>
      /\ pos' = pos + headSize + length
  BY DEF ReadString, Deliver
<1>4. length \in Nat /\ length = Count(argument)
  BY <1>2, CountNat DEF length
<1>5. pos + headSize + length <= Len(data) /\ Len(data) \in Nat
  BY <1>1, <1>2, <1>4 DEF IsString, Has
<1>6. pos' \in Nat /\ pos < pos' /\ pos' <= Len(data)
  BY <1>1, <1>2, <1>3, <1>4, <1>5
<1>7. length < COUNT_CAP
  <2>1. Len(data) < COUNT_CAP
    BY DecoderAssumption
  <2>. QED
    BY <1>1, <1>2, <1>4, <1>5, <2>1 DEF COUNT_CAP
<1>8. LengthDigits(length) = argument
  BY <1>2, <1>4, <1>7, DigitsOfCount
<1>. DEFINE a == pos + headSize
            e == EncodeTo[max_depth - Len(stack)]
<1>. HIDE DEF e
<1>9. a \in Nat /\ a + length \in Nat /\ a <= a + length /\ a + length <= Len(data)
      /\ a + length = pos' /\ pos <= a
  BY <1>1, <1>2, <1>3, <1>4, <1>5
<1>10. string \in Seq(Byte) /\ Len(string) = length
  <2>1. string = SubSeq(data, a + 1, a + length)
    BY DEF string
  <2>. HIDE DEF a
  <2>2. string \in Seq(Byte) /\ Len(string) = (a + length) - a
    BY <1>1, <1>9, <2>1, Slice
  <2>3. (a + length) - a = length
    BY <1>4, <1>9
  <2>. QED
    BY <2>2, <2>3
<1>11. EncodeItem(value', e) = EncodeHead(major, argument) \o string
  <2>1. CASE major = 2
    <3>1. value' = << "bytes", string >>
      BY <1>3, <2>1
    <3>. QED
      BY <1>8, <1>10, <2>1, <3>1 DEF EncodeItem
  <2>2. CASE major = 3
    <3>1. value' = << "text", string >>
      BY <1>3, <2>2
    <3>. QED
      BY <1>8, <1>10, <2>2, <3>1 DEF EncodeItem
  <2>. QED
    BY <1>1, <2>1, <2>2
<1>12. SubSeq(data, pos + 1, a) \o SubSeq(data, a + 1, a + length)
         = SubSeq(data, pos + 1, a + length)
  <2>. HIDE DEF a
  <2>. QED
    BY <1>1, <1>9, SlicesJoin
<1>13. EncodeItem(value', e) = SubSeq(data, pos + 1, pos')
  BY <1>2, <1>9, <1>11, <1>12 DEF string
<1>14. value' \in ValuesOf(DOMAIN EncodeTo[max_depth - Len(stack)])
  BY <1>3, <1>10 DEF ValuesOf
<1>. QED
  BY <1>6, <1>13, <1>14, LeafIsRead DEF e

----------------------------------------------------------------------------
(* What has been read of a container.                                      *)

\* Its head and its items, of a container of that kind that says it has n members.
StartedAs(kind, n, s) ==
  EncodeHead(IF kind = "array" THEN 4 ELSE 5, LengthDigits(n)) \o FlattenSeq(EncodedItems(s))

\* The encodings of the items so far.
LEMMA ItemsAreBytes ==
  ASSUME NEW m \in Nat, m <= max_depth + 1, NEW s \in Seq(Encodable(m))
  PROVE  /\ EncodedItems(s) \in Seq(Seq(Byte)) /\ Len(EncodedItems(s)) = Len(s)
         /\ \A k \in 1..Len(s) : EncodedItems(s)[k] = Encoded(s[k])
         /\ FlattenSeq(EncodedItems(s)) \in Seq(Byte)
<1>1. \A v \in Encodable(m) : Encoded(v) \in Seq(Byte)
  BY DEF Encodable
<1>2. DOMAIN s = 1..Len(s) /\ Len(s) \in Nat /\ \A k \in 1..Len(s) : s[k] \in Encodable(m)
  OBVIOUS
<1>3. EncodedItems(s) = [ k \in 1..Len(s) |-> Encoded(s[k]) ]
  BY <1>2 DEF EncodedItems
<1>4. EncodedItems(s) \in [ 1..Len(s) -> Seq(Byte) ]
  BY <1>1, <1>2, <1>3
<1>5. \A k \in 1..Len(s) : EncodedItems(s)[k] = Encoded(s[k])
  BY <1>3
<1>6. EncodedItems(s) \in Seq(Seq(Byte)) /\ Len(EncodedItems(s)) = Len(s)
  BY <1>2, <1>4
<1>7. FlattenSeq(EncodedItems(s)) \in Seq(Byte)
  BY <1>6, FlattenType
<1>. QED
  BY <1>5, <1>6, <1>7

\* The head of a container of fewer than COUNT_CAP members.
LEMMA ContainerHead ==
  ASSUME NEW kind, NEW n \in Nat, n < COUNT_CAP
  PROVE  /\ EncodeHead(IF kind = "array" THEN 4 ELSE 5, LengthDigits(n)) \in Seq(Byte)
         /\ EncodeHead(IF kind = "array" THEN 4 ELSE 5, LengthDigits(n)) # << >>
<1>. DEFINE m == IF kind = "array" THEN 4 ELSE 5
<1>1. m \in 0..7
  OBVIOUS
<1>2. LengthDigits(n) \in Seq(Byte) /\ Len(LengthDigits(n)) <= 2
  BY LengthDigitsType
<1>3. Len(LengthDigits(n)) <= 8
  <2>1. Len(LengthDigits(n)) \in Nat
    BY <1>2, LenProperties
  <2>. QED
    BY <1>2, <2>1
<1>. HIDE DEF m
<1>4. EncodeHead(m, LengthDigits(n)) \in Seq(Byte) /\ EncodeHead(m, LengthDigits(n)) # << >>
  BY <1>1, <1>2, <1>3, EncodeHeadType
<1>. QED
  BY <1>4 DEF m

\* What has been read of a container is a byte string that is not empty.
LEMMA StartedIsBytes ==
  ASSUME NEW kind, NEW n \in Nat, n < COUNT_CAP, NEW m \in Nat, m <= max_depth + 1,
         NEW s \in Seq(Encodable(m))
  PROVE  StartedAs(kind, n, s) \in Seq(Byte) /\ StartedAs(kind, n, s) # << >>
<1>. DEFINE h == EncodeHead(IF kind = "array" THEN 4 ELSE 5, LengthDigits(n))
            t == FlattenSeq(EncodedItems(s))
<1>1. h \in Seq(Byte) /\ h # << >>
  BY ContainerHead
<1>2. t \in Seq(Byte)
  BY ItemsAreBytes
<1>. HIDE DEF h, t
<1>3. h \o t \in Seq(Byte) /\ Len(h \o t) = Len(h) + Len(t)
  BY <1>1, <1>2, ConcatProperties
<1>4. Len(h) \in Nat /\ Len(h) # 0 /\ Len(t) \in Nat /\ Len(<< >>) = 0
  BY <1>1, <1>2
<1>5. h \o t # << >>
  BY <1>3, <1>4
<1>. QED
  BY <1>3, <1>5 DEF StartedAs, h, t

\* One item more.
LEMMA StartedAppend ==
  ASSUME NEW kind, NEW n \in Nat, n < COUNT_CAP, NEW m \in Nat, m <= max_depth + 1,
         NEW s \in Seq(Encodable(m)), NEW x \in Encodable(m)
  PROVE  /\ Append(s, x) \in Seq(Encodable(m))
         /\ StartedAs(kind, n, Append(s, x)) = StartedAs(kind, n, s) \o Encoded(x)
<1>. DEFINE h == EncodeHead(IF kind = "array" THEN 4 ELSE 5, LengthDigits(n))
            f == EncodedItems(s)
            g == EncodedItems(Append(s, x))
            l == Len(s)
<1>1. h \in Seq(Byte)
  BY ContainerHead
<1>2. Encoded(x) \in Seq(Byte)
  BY DEF Encodable
<1>3. /\ f \in Seq(Seq(Byte)) /\ Len(f) = l /\ \A k \in 1..l : f[k] = Encoded(s[k])
      /\ FlattenSeq(f) \in Seq(Byte)
  BY ItemsAreBytes
<1>4. /\ Append(s, x) \in Seq(Encodable(m)) /\ Len(Append(s, x)) = l + 1
      /\ Append(s, x)[l + 1] = x /\ \A k \in 1..l : Append(s, x)[k] = s[k]
  BY AppendProperties
<1>5. l \in Nat
  OBVIOUS
<1>6. /\ g \in Seq(Seq(Byte)) /\ Len(g) = l + 1
      /\ \A k \in 1..l + 1 : g[k] = Encoded(Append(s, x)[k])
  BY <1>4, ItemsAreBytes
<1>. HIDE DEF f, g, h, l
<1>7. g = Append(f, Encoded(x))
  <2>1. /\ Append(f, Encoded(x)) \in Seq(Seq(Byte)) /\ Len(Append(f, Encoded(x))) = l + 1
        /\ Append(f, Encoded(x))[l + 1] = Encoded(x)
        /\ \A k \in 1..l : Append(f, Encoded(x))[k] = f[k]
    BY <1>2, <1>3, <1>5, AppendIs
  <2>2. ASSUME NEW k \in 1..l + 1 PROVE g[k] = Append(f, Encoded(x))[k]
    <3>1. CASE k = l + 1
      BY <1>4, <1>6, <2>1, <3>1
    <3>2. CASE k # l + 1
      <4>1. k \in 1..l
        BY <1>5, <3>2
      <4>. QED
        BY <1>3, <1>4, <1>6, <2>1, <4>1
    <3>. QED
      BY <3>1, <3>2
  <2>. QED
    BY <1>6, <2>1, <2>2, SeqEqual
<1>8. FlattenSeq(g) = FlattenSeq(f) \o Encoded(x)
  BY <1>2, <1>3, <1>7, FlattenAppend
<1>9. h \o (FlattenSeq(f) \o Encoded(x)) = (h \o FlattenSeq(f)) \o Encoded(x)
  <2>. DEFINE t == FlattenSeq(f)
              u == Encoded(x)
  <2>1. t \in Seq(Byte) /\ u \in Seq(Byte)
    BY <1>2, <1>3
  <2>. HIDE DEF t, u
  <2>2. (h \o t) \o u = h \o (t \o u)
    BY <1>1, <2>1, ConcatAssociative
  <2>. QED
    BY <2>2 DEF t, u
<1>. QED
  BY <1>4, <1>8, <1>9 DEF StartedAs, f, g, h

\* The sequences that the first n values of p make, and with one more.
LEMMA PartsJoin ==
  ASSUME NEW S, NEW n \in Nat, NEW p, \A k \in 1..n : p[k] \in Seq(S)
  PROVE  /\ \A k \in 0..n : /\ [ j \in 1..k |-> p[j] ] \in Seq(Seq(S))
                            /\ Len([ j \in 1..k |-> p[j] ]) = k
                            /\ FlattenSeq([ j \in 1..k |-> p[j] ]) \in Seq(S)
         /\ \A k \in 1..n : FlattenSeq([ j \in 1..k |-> p[j] ])
                              = FlattenSeq([ j \in 1..k - 1 |-> p[j] ]) \o p[k]
<1>. DEFINE upto(k) == [ j \in 1..k |-> p[j] ]
<1>1. ASSUME NEW k \in 0..n
      PROVE  /\ upto(k) \in Seq(Seq(S)) /\ Len(upto(k)) = k
             /\ \A j \in 1..k : upto(k)[j] = p[j]
  <2>1. k \in Nat /\ \A j \in 1..k : j \in 1..n
    OBVIOUS
  <2>2. upto(k) \in [ 1..k -> Seq(S) ]
    BY <2>1
  <2>3. \A j \in 1..k : upto(k)[j] = p[j]
    OBVIOUS
  <2>. HIDE DEF upto
  <2>. QED
    BY <2>1, <2>2, <2>3
<1>. HIDE DEF upto
<1>2. ASSUME NEW k \in 0..n PROVE FlattenSeq(upto(k)) \in Seq(S)
  BY <1>1, FlattenType
<1>3. ASSUME NEW k \in 1..n PROVE FlattenSeq(upto(k)) = FlattenSeq(upto(k - 1)) \o p[k]
  <2>1. k - 1 \in 0..n /\ k \in 0..n /\ k - 1 \in Nat /\ (k - 1) + 1 = k
    OBVIOUS
  <2>. DEFINE u == upto(k - 1)
              v == upto(k)
  <2>2. /\ u \in Seq(Seq(S)) /\ Len(u) = k - 1 /\ \A j \in 1..k - 1 : u[j] = p[j]
    BY <1>1, <2>1
  <2>3. /\ v \in Seq(Seq(S)) /\ Len(v) = k /\ \A j \in 1..k : v[j] = p[j]
    BY <1>1, <2>1
  <2>4. p[k] \in Seq(S)
    OBVIOUS
  <2>. HIDE DEF u, v
  <2>5. /\ Append(u, p[k]) \in Seq(Seq(S)) /\ Len(Append(u, p[k])) = (k - 1) + 1
        /\ Append(u, p[k])[(k - 1) + 1] = p[k]
        /\ \A j \in 1..k - 1 : Append(u, p[k])[j] = u[j]
    BY <2>1, <2>2, <2>4, AppendIs
  <2>6. ASSUME NEW j \in 1..k PROVE v[j] = Append(u, p[k])[j]
    <3>1. CASE j = k
      BY <2>1, <2>3, <2>5, <3>1
    <3>2. CASE j # k
      <4>1. j \in 1..k - 1
        BY <2>1, <3>2
      <4>. QED
        BY <2>2, <2>3, <2>5, <4>1
    <3>. QED
      BY <3>1, <3>2
  <2>7. v = Append(u, p[k])
    BY <2>1, <2>3, <2>5, <2>6, SeqEqual
  <2>8. FlattenSeq(Append(u, p[k])) = FlattenSeq(u) \o p[k]
    BY <2>2, <2>4, FlattenAppend
  <2>. QED
    BY <2>7, <2>8 DEF u, v
<1>. QED
  BY <1>1, <1>2, <1>3 DEF upto

----------------------------------------------------------------------------
(* The loops.                                                              *)

\* The counters of an open container.
LEMMA ContainerFacts ==
  ASSUME Inv, NEW k \in 1..Len(stack)
  PROVE  /\ Len(stack) \in Nat /\ DOMAIN stack = 1..Len(stack)
         /\ stack[k] \in Frames /\ Len(built[k]) \in Nat
         /\ Announced(k) \in Nat /\ Underway(k) \in Nat
         /\ Announced(k) = stack[k].left + Underway(k)
<1>1. stack \in Seq(Frames) /\ Len(built) = Len(stack)
  BY DEF Inv, TypeOK
<1>2. Len(stack) \in Nat /\ DOMAIN stack = 1..Len(stack) /\ stack[k] \in Frames
  BY <1>1
<1>3. PICK S : built \in Seq(Seq(S))
  BY DEF Inv, Lists
<1>4. built[k] \in Seq(S)
  BY <1>1, <1>3
<1>5. Len(built[k]) \in Nat
  BY <1>4, LenProperties
<1>. DEFINE n == IF stack[k].kind = "array" THEN Len(built[k]) ELSE Len(built[k]) \div 2
            r == IF Reading(k) THEN 1 ELSE 0
<1>6. n \in Nat /\ r \in Nat
  <2>1. \A l \in Nat : l \div 2 \in Nat
    OBVIOUS
  <2>. QED
    BY <1>5, <2>1
<1>7. stack[k].left \in Nat
  BY <1>2 DEF Frames
<1>8. Underway(k) = n + r /\ Announced(k) = stack[k].left + n + r
  BY DEF Underway, Announced
<1>. HIDE DEF n, r
<1>9. n + r \in Nat /\ stack[k].left + n + r \in Nat
      /\ stack[k].left + n + r = stack[k].left + (n + r)
  BY <1>6, <1>7
<1>. QED
  BY <1>2, <1>5, <1>8, <1>9

\* What each action does to the containers.  Those around the innermost one are
\* as they were, and each is waiting for an item.
LEMMA OpenFacts ==
  ASSUME Inv, OpenContainer
  PROVE  /\ Len(stack') = Len(stack) + 1
         /\ \A k \in 1..Len(stack) : /\ stack'[k] = stack[k] /\ built'[k] = built[k]
                                     /\ Reading(k) /\ Reading(k)'
         /\ stack'[Len(stack) + 1].kind = IF major = 4 THEN "array" ELSE "map"
         /\ stack'[Len(stack) + 1].left = length
         /\ stack'[Len(stack) + 1].wantsKey = FALSE
         /\ stack'[Len(stack) + 1].previous = << >>
         /\ built'[Len(stack) + 1] = << >>
         /\ \A k \in 1..Len(stack) + 1 : Reading(k)' <=> k # Len(stack) + 1
<1>. DEFINE frame == [ kind |-> IF major = 4 THEN "array" ELSE "map", left |-> length,
                       wantsKey |-> FALSE, start |-> 0, previous |-> << >> ]
            L == Len(stack)
<1>1. stack \in Seq(Frames) /\ Len(built) = L
  BY DEF Inv, TypeOK
<1>2. PICK S : built \in Seq(Seq(S))
  BY DEF Inv, Lists
<1>3. stack' = Append(stack, frame) /\ built' = Append(built, << >>)
  BY DEF OpenContainer
<1>4. pc = "item" /\ pc' = "member"
  BY DEF OpenContainer, AtHead
<1>5. L \in Nat
  BY <1>1, LenProperties
<1>6. Len(stack') = L + 1 /\ stack'[L + 1] = frame /\ \A k \in 1..L : stack'[k] = stack[k]
  BY <1>1, <1>3, <1>5
<1>7. built'[L + 1] = << >> /\ \A k \in 1..L : built'[k] = built[k]
  BY <1>1, <1>2, <1>3, <1>5
<1>8. \A k \in 1..L : Reading(k) /\ Reading(k)'
  <2>. TAKE k \in 1..L
  <2>1. k < L + 1
    BY <1>5
  <2>. HIDE DEF L
  <2>. QED
    BY <1>4, <1>6, <2>1 DEF Reading
<1>9. \A k \in 1..L + 1 : Reading(k)' <=> k # L + 1
  <2>. TAKE k \in 1..L + 1
  <2>1. k < L + 1 <=> k # L + 1
    BY <1>5
  <2>. HIDE DEF L
  <2>. QED
    BY <1>4, <1>6, <2>1 DEF Reading
<1>. QED
  BY <1>6, <1>7, <1>8, <1>9

\* The frame of the innermost container is replaced, the others stay.
LEMMA WithTopAt ==
  ASSUME Inv, stack # << >>, NEW frame, stack' = WithTop(frame)
  PROVE  /\ Len(stack) \in Nat \ {0} /\ Len(stack') = Len(stack)
         /\ stack'[Len(stack)] = frame
         /\ \A k \in 1..Len(stack) : k # Len(stack) => stack'[k] = stack[k]
<1>1. stack \in Seq(Frames) /\ Len(stack) \in Nat \ {0}
  BY TopFacts DEF Inv, TypeOK
<1>. QED
  BY <1>1 DEF WithTop

\* The innermost list has one item more, the others stay.
LEMMA AddedAt ==
  ASSUME Inv, stack # << >>, NEW item, built' = Added(item)
  PROVE  /\ built'[Len(stack)] = Append(built[Len(stack)], item)
         /\ \A k \in 1..Len(stack) : k # Len(stack) => built'[k] = built[k]
<1>1. PICK S : built \in Seq(Seq(S))
  BY DEF Inv, Lists
<1>2. Len(built) \in Nat \ {0} /\ Len(built) = Len(stack)
  BY TopFacts
<1>. QED
  BY <1>1, <1>2 DEF Added

\* Which containers wait for an item.
LEMMA ReadingIs ==
  ASSUME Inv, NEW k \in 1..Len(stack)
  PROVE  Reading(k) <=> (k # Len(stack) \/ pc # "member")
<1>1. Len(stack) \in Nat
  BY DepthLeft
<1>2. k < Len(stack) <=> k # Len(stack)
  BY <1>1
<1>. QED
  BY <1>2 DEF Reading

\* A member is counted: the innermost container now waits for an item.
LEMMA CountFacts ==
  ASSUME Inv, Inv', CountMember
  PROVE  /\ Len(stack) \in Nat \ {0} /\ Len(stack') = Len(stack)
         /\ built' = built
         /\ \A k \in 1..Len(stack) : k # Len(stack) => stack'[k] = stack[k]
         /\ \A k \in 1..Len(stack) : Reading(k)' /\ (Reading(k) <=> k # Len(stack))
         /\ stack'[Len(stack)].kind = stack[Len(stack)].kind
         /\ stack'[Len(stack)].left = stack[Len(stack)].left - 1
         /\ (stack'[Len(stack)].wantsKey <=> stack[Len(stack)].kind = "map")
         /\ stack'[Len(stack)].start = pos
         /\ stack'[Len(stack)].previous = stack[Len(stack)].previous
         /\ stack[Len(stack)].left \in Nat \ {0}
<1>1. stack # << >> /\ pc = "member" /\ pc' = "item" /\ built' = built
  BY DEF Inv, TypeOK, CountMember
<1>. DEFINE frame == [ top EXCEPT !.left = @ - 1, !.start = pos,
                                  !.wantsKey = top.kind = "map" ]
<1>2. top \in Frames /\ Len(stack) \in Nat \ {0} /\ top = stack[Len(stack)]
  BY <1>1, TopFacts DEF top
<1>3. stack' = WithTop(frame)
  BY DEF CountMember
<1>4. /\ Len(stack') = Len(stack)
      /\ stack'[Len(stack)] = frame
      /\ \A k \in 1..Len(stack) : k # Len(stack) => stack'[k] = stack[k]
  <2>. HIDE DEF frame
  <2>. QED
    BY <1>1, <1>3, WithTopAt
<1>5. /\ frame.kind = top.kind /\ frame.left = top.left - 1
      /\ (frame.wantsKey <=> top.kind = "map") /\ frame.start = pos
      /\ frame.previous = top.previous
  BY <1>2 DEF Frames
<1>6. top.left \in Nat \ {0}
  BY <1>2 DEF Frames, CountMember
<1>7. \A k \in 1..Len(stack) : Reading(k)' /\ (Reading(k) <=> k # Len(stack))
  <2>. TAKE k \in 1..Len(stack)
  <2>1. Reading(k) <=> k # Len(stack)
    BY <1>1, ReadingIs
  <2>2. Reading(k)'
    BY <1>1 DEF Reading
  <2>. QED
    BY <2>1, <2>2
<1>. HIDE DEF frame
<1>. QED
  BY <1>1, <1>2, <1>4, <1>5, <1>6, <1>7

\* The innermost container is complete, and those around it wait for it.
LEMMA CloseFacts ==
  ASSUME Inv, CloseContainer
  PROVE  /\ Len(stack) \in Nat \ {0} /\ Len(stack') = Len(stack) - 1
         /\ \A k \in 1..Len(stack) - 1 : /\ stack'[k] = stack[k] /\ built'[k] = built[k]
                                         /\ Reading(k) /\ Reading(k)'
         /\ ~Reading(Len(stack))
         /\ stack[Len(stack)].left = 0
<1>1. stack # << >> /\ pc = "member" /\ pc' = "deliver"
  BY DEF Inv, TypeOK, CloseContainer
<1>2. Len(stack) \in Nat \ {0} /\ stack \in Seq(Frames) /\ Len(built) = Len(stack)
  BY <1>1, TopFacts DEF Inv, TypeOK
<1>3. PICK S : built \in Seq(Seq(S))
  BY DEF Inv, Lists
<1>4. Len(stack') = Len(stack) - 1 /\ \A k \in 1..Len(stack) - 1 : stack'[k] = stack[k]
  BY <1>2 DEF CloseContainer, Front
<1>5. \A k \in 1..Len(stack) - 1 : built'[k] = built[k]
  BY <1>2, <1>3 DEF CloseContainer, Front
<1>6. \A k \in 1..Len(stack) - 1 : Reading(k) /\ Reading(k)'
  BY <1>1, <1>2 DEF Reading
<1>7. ~Reading(Len(stack))
  BY <1>1, <1>2 DEF Reading
<1>8. stack[Len(stack)].left = 0
  BY DEF CloseContainer, top
<1>. QED
  BY <1>2, <1>4, <1>5, <1>6, <1>7, <1>8

\* An item joins the innermost list.
LEMMA TakeFacts ==
  ASSUME Inv, TakeKey \/ TakeItem
  PROVE  /\ Len(stack) \in Nat \ {0} /\ Len(stack') = Len(stack)
         /\ \A k \in 1..Len(stack) : k # Len(stack) =>
              stack'[k] = stack[k] /\ built'[k] = built[k]
         /\ built'[Len(stack)] = Append(built[Len(stack)], value)
         /\ \A k \in 1..Len(stack) : Reading(k)
         /\ \A k \in 1..Len(stack) : Reading(k)' <=> (k # Len(stack) \/ TakeKey)
         /\ stack'[Len(stack)].kind = stack[Len(stack)].kind
         /\ stack'[Len(stack)].left = stack[Len(stack)].left
         /\ stack'[Len(stack)].wantsKey = FALSE
         /\ (stack[Len(stack)].wantsKey <=> TakeKey)
         /\ stack'[Len(stack)].previous =
              IF TakeKey THEN SubSeq(data, stack[Len(stack)].start + 1, pos)
              ELSE stack[Len(stack)].previous
<1>1. stack # << >> /\ pc = "deliver" /\ built' = Added(value)
  BY DEF TakeKey, TakeItem, Delivering
<1>2. top \in Frames /\ Len(stack) \in Nat \ {0} /\ top = stack[Len(stack)]
  BY <1>1, TopFacts DEF top
<1>3. /\ built'[Len(stack)] = Append(built[Len(stack)], value)
      /\ \A k \in 1..Len(stack) : k # Len(stack) => built'[k] = built[k]
  BY <1>1, AddedAt
<1>4. \A k \in 1..Len(stack) : Reading(k)
  BY <1>1 DEF Reading
<1>5. CASE TakeKey
  <2>. DEFINE frame == [ top EXCEPT !.wantsKey = FALSE, !.previous = keyBytes ]
  <2>1. stack' = WithTop(frame) /\ pc' = "item" /\ top.wantsKey = TRUE
    BY <1>5 DEF TakeKey, Delivering
  <2>2. /\ frame.kind = top.kind /\ frame.left = top.left /\ frame.wantsKey = FALSE
        /\ frame.previous = keyBytes
    BY <1>2 DEF Frames
  <2>. HIDE DEF frame
  <2>3. /\ Len(stack') = Len(stack) /\ stack'[Len(stack)] = frame
        /\ \A k \in 1..Len(stack) : k # Len(stack) => stack'[k] = stack[k]
    BY <1>1, <2>1, WithTopAt
  <2>4. \A k \in 1..Len(stack) : Reading(k)'
    BY <2>1 DEF Reading
  <2>5. keyBytes = SubSeq(data, stack[Len(stack)].start + 1, pos)
    BY DEF keyBytes, top
  <2>6. top.wantsKey <=> TakeKey
    BY <1>5, <2>1
  <2>. QED
    BY <1>2, <1>3, <1>4, <1>5, <2>2, <2>3, <2>4, <2>5, <2>6
<1>6. CASE TakeItem
  <2>1. stack' = stack /\ pc' = "member" /\ top.wantsKey = FALSE
    BY <1>6 DEF TakeItem, Delivering
  <2>2. ~TakeKey
    BY <1>6 DEF TakeItem, TakeKey, Delivering
  <2>3. \A k \in 1..Len(stack) : Reading(k)' <=> k # Len(stack)
    <3>. TAKE k \in 1..Len(stack)
    <3>1. k < Len(stack) <=> k # Len(stack)
      BY <1>2
    <3>. QED
      BY <2>1, <3>1 DEF Reading
  <2>. QED
    BY <1>2, <1>3, <1>4, <2>1, <2>2, <2>3
<1>. QED
  BY <1>5, <1>6

\* A container that a step leaves alone.
LEMMA SameContainer ==
  ASSUME NEW k, stack'[k] = stack[k], built'[k] = built[k], Reading(k)' <=> Reading(k)
  PROVE  /\ Announced(k)' = Announced(k) /\ Underway(k)' = Underway(k)
         /\ Started(k)' = Started(k)
<1>1. Announced(k)' = Announced(k)
  BY DEF Announced
<1>2. Underway(k)' = Underway(k)
  BY DEF Underway
<1>3. Started(k)' = Started(k)
  BY <1>1 DEF Started
<1>. QED
  BY <1>1, <1>2, <1>3

\* A container that a step leaves alone stays where it is in its loop.
LEMMA SameLoop ==
  ASSUME Inv, Inv', NEW k \in 1..Len(stack), k \in 1..Len(stack'),
         stack'[k] = stack[k], built'[k] = built[k],
         Reading(k)' <=> Reading(k), InLoop(k), members' >= members
  PROVE  InLoop(k)'
<1>1. Underway(k)' = Underway(k)
  BY SameContainer
<1>2. Underway(k) \in Nat /\ Underway(k) <= members
  BY ContainerFacts DEF InLoop
<1>3. members \in Nat /\ members' \in Nat
  BY DEF Inv, TypeOK
<1>4. Underway(k)' <= members'
  BY <1>1, <1>2, <1>3
<1>5. /\ stack[k].wantsKey => stack[k].kind = "map" /\ Reading(k)
      /\ stack[k].kind = "map" => (Len(built[k]) % 2 = 1 <=> Reading(k) /\ ~stack[k].wantsKey)
  BY DEF InLoop
<1>6. /\ stack'[k].wantsKey => stack'[k].kind = "map" /\ Reading(k)'
      /\ stack'[k].kind = "map" =>
           (Len(built'[k]) % 2 = 1 <=> Reading(k)' /\ ~stack'[k].wantsKey)
  BY <1>5
<1>. QED
  BY <1>4, <1>6 DEF InLoop

\* A new container has begun no member.
LEMMA OpenKeepsLoops ==
  ASSUME Inv, Inv', Loops, OpenContainer
  PROVE  Loops'
<1>. DEFINE L == Len(stack)
<1>1. L \in Nat /\ pc # "done" /\ members' = members /\ members \in Nat
  BY DepthLeft DEF OpenContainer, AtHead, Inv, TypeOK
<1>2. DOMAIN stack' = 1..L + 1 /\ DOMAIN stack = 1..L /\ Len(stack') = L + 1
  <2>1. DOMAIN stack = 1..L /\ DOMAIN stack' = 1..Len(stack')
    BY DEF Inv, TypeOK
  <2>2. Len(stack') = L + 1
    BY OpenFacts
  <2>. QED
    BY <2>1, <2>2
<1>3. ASSUME NEW k \in 1..L PROVE InLoop(k)'
  <2>1. InLoop(k)
    BY <1>1, <1>2 DEF Loops
  <2>2. k \in 1..Len(stack')
    BY <1>1, <1>2
  <2>3. stack'[k] = stack[k] /\ built'[k] = built[k] /\ (Reading(k)' <=> Reading(k))
    BY OpenFacts
  <2>4. members' >= members
    BY <1>1
  <2>. QED
    BY <2>1, <2>2, <2>3, <2>4, SameLoop
<1>4. ASSUME NEW k, k = L + 1 PROVE InLoop(k)'
  <2>0. k \in 1..Len(stack) + 1
    BY <1>1, <1>4
  <2>1. /\ stack'[k].wantsKey = FALSE /\ built'[k] = << >> /\ ~Reading(k)'
    BY <1>4, <2>0, OpenFacts
  <2>2. Len(<< >>) = 0 /\ ~(Len(<< >>) % 2 = 1) /\ Len(<< >>) \div 2 = 0
    OBVIOUS
  <2>3. Underway(k)' = 0
    BY <2>1, <2>2 DEF Underway
  <2>4. 0 <= members'
    BY <1>1
  <2>5. /\ ~stack'[k].wantsKey /\ ~(Len(built'[k]) % 2 = 1)
    BY <2>1, <2>2
  <2>. QED
    BY <2>1, <2>3, <2>4, <2>5 DEF InLoop
<1>5. \A k \in 1..L + 1 : k \in 1..L \/ k = L + 1
  BY <1>1
<1>. QED
  BY <1>2, <1>3, <1>4, <1>5 DEF Loops

\* A member is counted when it is begun, and only moves from those to come to those
\* underway.
LEMMA CountKeepsLoops ==
  ASSUME Inv, Inv', Loops, CountMember
  PROVE  /\ Loops'
         /\ \A k \in 1..Len(stack) : Announced(k)' = Announced(k)
<1>. DEFINE L == Len(stack)
<1>1. pc # "done" /\ members' = members + 1 /\ members \in Nat
  BY DEF CountMember, Inv, TypeOK
<1>2. L \in Nat \ {0} /\ Len(stack') = L /\ DOMAIN stack' = 1..L /\ DOMAIN stack = 1..L
      /\ L \in 1..L
  BY CountFacts DEF Inv, TypeOK
<1>3. ASSUME NEW k \in 1..L, k # L PROVE InLoop(k)' /\ Announced(k)' = Announced(k)
  <2>1. InLoop(k)
    BY <1>1, <1>2 DEF Loops
  <2>2. k \in 1..Len(stack')
    BY <1>2
  <2>3. stack'[k] = stack[k] /\ built'[k] = built[k] /\ (Reading(k)' <=> Reading(k))
    BY <1>3, CountFacts
  <2>4. members' >= members
    BY <1>1
  <2>. QED
    BY <2>1, <2>2, <2>3, <2>4, SameLoop, SameContainer
<1>4. ASSUME NEW k, k = L PROVE InLoop(k)' /\ Announced(k)' = Announced(k)
  <2>0. k \in 1..Len(stack)
    BY <1>2, <1>4
  <2>1. /\ stack'[k].kind = stack[k].kind /\ stack'[k].left = stack[k].left - 1
        /\ (stack'[k].wantsKey <=> stack[k].kind = "map")
        /\ built'[k] = built[k] /\ Reading(k)' /\ ~Reading(k)
        /\ stack[k].left \in Nat \ {0}
    BY <1>4, <2>0, CountFacts
  <2>2. InLoop(k)
    BY <1>1, <1>2, <2>0 DEF Loops
  <2>. DEFINE n == IF stack[k].kind = "array" THEN Len(built[k]) ELSE Len(built[k]) \div 2
              left == stack[k].left
  <2>3. Underway(k) = n + 0 /\ Underway(k)' = n + 1
    BY <2>1 DEF Underway
  <2>4. Announced(k) = left + n + 0 /\ Announced(k)' = (left - 1) + n + 1
    BY <2>1 DEF Announced
  <2>5. n \in Nat
    <3>1. Len(built[k]) \in Nat
      BY <2>0, ContainerFacts
    <3>2. \A l \in Nat : l \div 2 \in Nat
      OBVIOUS
    <3>. QED
      BY <3>1, <3>2
  <2>6. left \in Nat \ {0}
    BY <2>1
  <2>. HIDE DEF n, left
  <2>7. Announced(k)' = Announced(k)
    BY <2>4, <2>5, <2>6
  <2>8. Underway(k)' <= members'
    <3>1. Underway(k) <= members
      BY <2>2 DEF InLoop
    <3>. QED
      BY <1>1, <2>3, <2>5, <3>1
  <2>9. stack[k].kind = "map" => ~(Len(built[k]) % 2 = 1)
    BY <2>1, <2>2 DEF InLoop
  <2>10. /\ stack'[k].wantsKey => stack'[k].kind = "map" /\ Reading(k)'
         /\ stack'[k].kind = "map" =>
              (Len(built'[k]) % 2 = 1 <=> Reading(k)' /\ ~stack'[k].wantsKey)
    BY <2>1, <2>9
  <2>. QED
    BY <2>7, <2>8, <2>10 DEF InLoop
<1>. QED
  BY <1>2, <1>3, <1>4 DEF Loops

\* The container around one that is complete is as it was.
LEMMA CloseKeepsLoops ==
  ASSUME Inv, Inv', Loops, CloseContainer
  PROVE  Loops'
<1>. DEFINE L == Len(stack)
<1>1. pc # "done" /\ members' = members /\ members \in Nat
  BY DEF CloseContainer, Inv, TypeOK
<1>2. L \in Nat \ {0} /\ Len(stack') = L - 1 /\ DOMAIN stack' = 1..L - 1 /\ DOMAIN stack = 1..L
  BY CloseFacts DEF Inv, TypeOK
<1>3. ASSUME NEW k \in 1..L - 1 PROVE InLoop(k)'
  <2>0. k \in 1..L
    BY <1>2
  <2>1. InLoop(k)
    BY <1>1, <1>2, <2>0 DEF Loops
  <2>2. k \in 1..Len(stack')
    BY <1>2
  <2>3. stack'[k] = stack[k] /\ built'[k] = built[k] /\ (Reading(k)' <=> Reading(k))
    BY CloseFacts
  <2>4. members' >= members
    BY <1>1
  <2>. QED
    BY <2>0, <2>1, <2>2, <2>3, <2>4, SameLoop
<1>. QED
  BY <1>2, <1>3 DEF Loops

\* An item that is taken was underway: no member is begun or lost.
LEMMA TakeKeepsLoops ==
  ASSUME Inv, Inv', Loops, TakeKey \/ TakeItem
  PROVE  /\ Loops'
         /\ \A k \in 1..Len(stack) : Announced(k)' = Announced(k)
<1>. DEFINE L == Len(stack)
<1>1. pc # "done" /\ members' = members /\ members \in Nat
  BY DEF TakeKey, TakeItem, Delivering, Inv, TypeOK
<1>2. L \in Nat \ {0} /\ Len(stack') = L /\ DOMAIN stack' = 1..L /\ DOMAIN stack = 1..L
      /\ L \in 1..L
  <2>1. DOMAIN stack = 1..L /\ DOMAIN stack' = 1..Len(stack')
    BY DEF Inv, TypeOK
  <2>2. L \in Nat \ {0} /\ Len(stack') = L
    BY TakeFacts
  <2>. QED
    BY <2>1, <2>2
<1>3. ASSUME NEW k \in 1..L, k # L PROVE InLoop(k)' /\ Announced(k)' = Announced(k)
  <2>1. InLoop(k)
    BY <1>1, <1>2 DEF Loops
  <2>2. k \in 1..Len(stack')
    BY <1>2
  <2>3. stack'[k] = stack[k] /\ built'[k] = built[k] /\ (Reading(k)' <=> Reading(k))
    BY <1>3, TakeFacts
  <2>4. members' >= members
    BY <1>1
  <2>. QED
    BY <2>1, <2>2, <2>3, <2>4, SameLoop, SameContainer
<1>4. ASSUME NEW k, k = L PROVE InLoop(k)' /\ Announced(k)' = Announced(k)
  <2>0. k \in 1..Len(stack) /\ k \in 1..Len(stack')
    BY <1>2, <1>4
  <2>1. /\ stack'[k].kind = stack[k].kind /\ stack'[k].left = stack[k].left
        /\ stack'[k].wantsKey = FALSE /\ (stack[k].wantsKey <=> TakeKey)
        /\ built'[k] = Append(built[k], value)
        /\ Reading(k) /\ (Reading(k)' <=> TakeKey)
    BY <1>4, <2>0, TakeFacts
  <2>2. InLoop(k) /\ stack[k] \in Frames
    BY <1>1, <1>2, <2>0, ContainerFacts DEF Loops
  <2>. DEFINE l == Len(built[k])
              r == IF TakeKey THEN 1 ELSE 0
              kind == stack[k].kind
              left == stack[k].left
  <2>3. l \in Nat /\ Len(built'[k]) = l + 1
    <3>1. PICK S : built \in Seq(Seq(S))
      BY DEF Inv, Lists
    <3>2. built[k] \in Seq(S)
      BY <2>0, <3>1 DEF Inv, TypeOK
    <3>. DEFINE b == built[k]
    <3>. HIDE DEF b
    <3>3. b \in Seq(S)
      BY <3>2 DEF b
    <3>4. Len(b) \in Nat /\ Len(Append(b, value)) = Len(b) + 1
      BY <3>3
    <3>. QED
      BY <2>1, <3>4 DEF b
  <2>4. kind \in { "array", "map" } /\ left \in Nat
    BY <2>2 DEF Frames
  <2>5. /\ TakeKey => kind = "map"
        /\ kind = "map" => (l % 2 = 1 <=> ~TakeKey)
    BY <2>1, <2>2 DEF InLoop
  <2>6. /\ Underway(k) = (IF kind = "array" THEN l ELSE l \div 2) + 1
        /\ Underway(k)' = (IF kind = "array" THEN l + 1 ELSE (l + 1) \div 2) + r
    BY <2>1, <2>3 DEF Underway
  <2>7. /\ Announced(k) = left + (IF kind = "array" THEN l ELSE l \div 2) + 1
        /\ Announced(k)' = left + (IF kind = "array" THEN l + 1 ELSE (l + 1) \div 2) + r
    BY <2>1, <2>3 DEF Announced
  <2>8. Len(built'[k]) % 2 = 1 <=> (l + 1) % 2 = 1
    BY <2>3
  <2>. HIDE DEF l, r, kind, left
  <2>9. /\ Underway(k)' = Underway(k) /\ Announced(k)' = Announced(k)
        /\ kind = "map" => ((l + 1) % 2 = 1 <=> TakeKey)
    <3>1. CASE kind = "array"
      <4>1. r = 0
        BY <2>5, <3>1 DEF r
      <4>2. kind # "map"
        BY <3>1
      <4>. QED
        BY <2>3, <2>4, <2>6, <2>7, <3>1, <4>1, <4>2
    <3>2. CASE kind = "map"
      <4>1. CASE TakeKey
        <5>1. r = 1 /\ l % 2 # 1
          BY <2>5, <3>2, <4>1 DEF r
        <5>2. (l + 1) \div 2 = l \div 2 /\ (l + 1) % 2 = 1
          BY <2>3, <5>1
        <5>. QED
          BY <2>6, <2>7, <3>2, <4>1, <5>1, <5>2
      <4>2. CASE ~TakeKey
        <5>1. r = 0 /\ l % 2 = 1
          BY <2>5, <3>2, <4>2 DEF r
        <5>2. (l + 1) \div 2 = (l \div 2) + 1 /\ (l + 1) % 2 = 0 /\ l \div 2 \in Nat
          BY <2>3, <5>1
        <5>3. Underway(k)' = Underway(k)
          BY <2>6, <3>2, <5>1, <5>2
        <5>4. Announced(k)' = Announced(k)
          BY <2>4, <2>7, <3>2, <5>1, <5>2
        <5>. QED
          BY <3>2, <4>2, <5>2, <5>3, <5>4
      <4>. QED
        BY <4>1, <4>2
    <3>. QED
      BY <2>4, <3>1, <3>2
  <2>10. Underway(k)' <= members'
    BY <1>1, <2>2, <2>9 DEF InLoop
  <2>11. /\ stack'[k].wantsKey => stack'[k].kind = "map" /\ Reading(k)'
         /\ stack'[k].kind = "map" =>
              (Len(built'[k]) % 2 = 1 <=> Reading(k)' /\ ~stack'[k].wantsKey)
    BY <2>1, <2>8, <2>9 DEF kind
  <2>. QED
    BY <2>9, <2>10, <2>11 DEF InLoop
<1>. QED
  BY <1>2, <1>3, <1>4 DEF Loops

\* Byte strings may be compared as sequences of numbers.
LEMMA BytesAreNat ==
  ASSUME NEW s \in Seq(Byte)
  PROVE  s \in Seq(Nat)
<1>1. Len(s) \in Nat /\ s = [ k \in 1..Len(s) |-> s[k] ]
  OBVIOUS
<1>2. \A k \in 1..Len(s) : s[k] \in 0..255
  BY DigitIs
<1>. DEFINE n == Len(s)
            f == [ k \in 1..n |-> s[k] ]
<1>3. f \in [ 1..n -> Nat ]
  <2>1. \A k \in 1..n : s[k] \in Nat
    <3>1. \A d \in 0..255 : d \in Nat
      OBVIOUS
    <3>. QED
      BY <1>2, <3>1
  <2>. HIDE DEF n
  <2>. QED
    BY <2>1
<1>4. n \in Nat
  BY <1>1
<1>. HIDE DEF n, f
<1>5. f \in Seq(Nat)
  BY <1>3, <1>4
<1>. QED
  BY <1>1, <1>5 DEF f, n

----------------------------------------------------------------------------
(* A container that is complete.                                           *)

\* Entries whose keys increase stay as they are when sorted.
LEMMA SortedPairs ==
  ASSUME NEW n \in Nat, NEW key \in [ 1..n -> Seq(Nat) ], NEW under,
         \A k \in 1..n : k + 1 \in 1..n => LexLess(key[k], key[k + 1])
  PROVE  SortedEntries([ k \in 1..n |-> << key[k], under[k] >> ])
           = [ k \in 1..n |-> << key[k], under[k] >> ]
<1>. DEFINE entries == [ k \in 1..n |-> << key[k], under[k] >> ]
<1>1. entries = [ k \in 1..n |-> entries[k] ] /\ \A k \in 1..n : entries[k][1] = key[k]
  OBVIOUS
<1>. HIDE DEF entries
<1>2. SortedEntries(entries) = entries
  <2>1. entries = [ k \in 1..n |-> entries[k] ]
    BY <1>1
  <2>2. \A k \in 1..n : entries[k][1] = key[k]
    BY <1>1
  <2>. QED
    BY <2>1, <2>2, SortedAlready, ZenonT(60)
<1>. QED
  BY <1>2 DEF entries

\* Keys that increase are in the order the encoder sorts them into.
LEMMA MapEncodes ==
  ASSUME NEW m \in Nat, m <= max_depth + 1, NEW s \in Seq(Encodable(m)),
         NEW n \in Nat, Len(s) = 2 * n, KeysIncrease(s)
  PROVE  LET entries == [ k \in 1..n |-> << Encoded(s[2 * k - 1]), Encoded(s[2 * k]) >> ]
         IN  /\ SortedEntries(entries) = entries
             /\ FlattenSeq([ k \in 1..n |-> entries[k][1] \o entries[k][2] ])
                  = FlattenSeq(EncodedItems(s))
<1>. DEFINE key == [ k \in 1..n |-> Encoded(s[2 * k - 1]) ]
            under == [ k \in 1..n |-> Encoded(s[2 * k]) ]
            entries == [ k \in 1..n |-> << Encoded(s[2 * k - 1]), Encoded(s[2 * k]) >> ]
<1>1. ASSUME NEW k \in 1..n PROVE 2 * k - 1 \in 1..Len(s) /\ 2 * k \in 1..Len(s)
  OBVIOUS
<1>2. \A k \in 1..Len(s) : s[k] \in Encodable(m)
  OBVIOUS
<1>3. key \in [ 1..n -> Seq(Nat) ]
  <2>1. ASSUME NEW k \in 1..n PROVE Encoded(s[2 * k - 1]) \in Seq(Nat)
    <3>1. s[2 * k - 1] \in Encodable(m)
      BY <1>1, <1>2
    <3>2. Encoded(s[2 * k - 1]) \in Seq(Byte)
      BY <3>1 DEF Encodable
    <3>. QED
      BY <3>2, BytesAreNat
  <2>. QED
    BY <2>1
<1>4. ASSUME NEW k \in 1..n, k + 1 \in 1..n PROVE LexLess(key[k], key[k + 1])
  <2>. DEFINE j == 2 * k - 1
  <2>1. j \in 1..Len(s) /\ j + 2 \in 1..Len(s) /\ j % 2 = 1 /\ 2 * (k + 1) - 1 = j + 2
    <3>1. \A i \in Nat : i >= 1 => (2 * i - 1) % 2 = 1
      OBVIOUS
    <3>. QED
      BY <1>4, <3>1
  <2>2. DOMAIN s = 1..Len(s)
    OBVIOUS
  <2>3. key[k] = Encoded(s[j]) /\ key[k + 1] = Encoded(s[j + 2])
    BY <1>4, <2>1
  <2>. HIDE DEF j, key
  <2>4. LexLess(Encoded(s[j]), Encoded(s[j + 2]))
    BY <2>1, <2>2 DEF KeysIncrease
  <2>. QED
    BY <2>3, <2>4
<1>5. entries = [ k \in 1..n |-> << key[k], under[k] >> ]
  OBVIOUS
<1>6. \A k \in 1..n : /\ entries[k][1] = Encoded(s[2 * k - 1])
                      /\ entries[k][2] = Encoded(s[2 * k])
  OBVIOUS
<1>7. SortedEntries(entries) = entries
  <2>1. \A k \in 1..n : k + 1 \in 1..n => LexLess(key[k], key[k + 1])
    BY <1>4
  <2>. HIDE DEF key, under, entries
  <2>2. SortedEntries([ k \in 1..n |-> << key[k], under[k] >> ])
          = [ k \in 1..n |-> << key[k], under[k] >> ]
    BY <1>3, <2>1, SortedPairs
  <2>. QED
    BY <1>5, <2>2
<1>. HIDE DEF entries
<1>. DEFINE e == EncodedItems(s)
<1>8. /\ e \in Seq(Seq(Byte)) /\ Len(e) = 2 * n
      /\ \A k \in 1..Len(s) : e[k] = Encoded(s[k])
  BY ItemsAreBytes
<1>. HIDE DEF e
<1>9. [ k \in 1..n |-> entries[k][1] \o entries[k][2] ]
        = [ k \in 1..n |-> e[2 * k - 1] \o e[2 * k] ]
  <2>1. \A k \in 1..n : entries[k][1] = e[2 * k - 1] /\ entries[k][2] = e[2 * k]
    BY <1>1, <1>6, <1>8
  <2>. QED
    BY <2>1
<1>10. FlattenSeq([ k \in 1..n |-> e[2 * k - 1] \o e[2 * k] ]) = FlattenSeq(e)
  BY <1>8, FlattenPairs
<1>. QED
  BY <1>7, <1>9, <1>10 DEF e, entries

\* What has been read of a complete container is its encoding.
LEMMA ContainerEncodes ==
  ASSUME NEW kind \in { "array", "map" }, NEW m \in Nat, m <= max_depth,
         NEW s \in Seq(Encodable(m)),
         kind = "map" => Len(s) % 2 # 1 /\ KeysIncrease(s)
  PROVE  /\ << kind, s >> \in ValuesOf(DOMAIN EncodeTo[m])
         /\ EncodeItem(<< kind, s >>, EncodeTo[m])
              = StartedAs(kind, IF kind = "array" THEN Len(s) ELSE Len(s) \div 2, s)
<1>0. m <= max_depth + 1 /\ max_depth \in Nat
  BY DecoderAssumption
<1>. DEFINE e == EncodeTo[m]
<1>1. DOMAIN s = 1..Len(s) /\ Len(s) \in Nat
  OBVIOUS
<1>2. ASSUME NEW k \in 1..Len(s) PROVE s[k] \in DOMAIN e /\ e[s[k]] = Encoded(s[k])
  <2>1. s[k] \in Encodable(m)
    OBVIOUS
  <2>. QED
    BY <1>0, <2>1, EncodableIsEncoded
<1>3. s \in Seq(DOMAIN e)
  <2>. HIDE DEF e
  <2>1. \A k \in 1..Len(s) : s[k] \in DOMAIN e
    BY <1>2
  <2>. QED
    BY <2>1
<1>. HIDE DEF e
<1>4. << kind, s >> \in ValuesOf(DOMAIN e)
  BY <1>3 DEF ValuesOf
<1>5. CASE kind = "array"
  <2>1. [ k \in DOMAIN s |-> e[s[k]] ] = EncodedItems(s)
    BY <1>1, <1>2 DEF EncodedItems
  <2>2. EncodeItem(<< kind, s >>, e)
          = EncodeHead(4, LengthDigits(Len(s))) \o FlattenSeq([ k \in DOMAIN s |-> e[s[k]] ])
    BY <1>5 DEF EncodeItem
  <2>. QED
    BY <1>4, <1>5, <2>1, <2>2 DEF StartedAs, e
<1>6. CASE kind = "map"
  <2>. DEFINE n == Len(s) \div 2
              entries == [ k \in 1..n |-> << e[s[2 * k - 1]], e[s[2 * k]] >> ]
  <2>1. n \in Nat /\ Len(s) = 2 * n
    <3>1. \A l \in Nat : l % 2 # 1 => l \div 2 \in Nat /\ l = 2 * (l \div 2)
      OBVIOUS
    <3>. QED
      BY <1>1, <1>6, <3>1
  <2>2. EncodeItem(<< kind, s >>, e)
          = EncodeHead(5, LengthDigits(Len(entries)))
              \o FlattenSeq([ k \in DOMAIN SortedEntries(entries) |->
                                SortedEntries(entries)[k][1] \o SortedEntries(entries)[k][2] ])
    BY <1>6 DEF EncodeItem
  <2>. HIDE DEF n
  <2>3. ASSUME NEW k \in 1..n PROVE 2 * k - 1 \in 1..Len(s) /\ 2 * k \in 1..Len(s)
    BY <2>1
  <2>4. entries = [ k \in 1..n |-> << Encoded(s[2 * k - 1]), Encoded(s[2 * k]) >> ]
    BY <1>2, <2>3
  <2>5. Len(entries) = n /\ DOMAIN entries = 1..n
    BY <2>1
  <2>6. /\ SortedEntries(entries) = entries
        /\ FlattenSeq([ k \in 1..n |-> entries[k][1] \o entries[k][2] ])
             = FlattenSeq(EncodedItems(s))
    <3>. DEFINE pairs == [ k \in 1..n |-> << Encoded(s[2 * k - 1]), Encoded(s[2 * k]) >> ]
    <3>1. KeysIncrease(s) /\ m \in Nat /\ m <= max_depth + 1 /\ s \in Seq(Encodable(m))
      BY <1>0, <1>6
    <3>2. /\ SortedEntries(pairs) = pairs
          /\ FlattenSeq([ k \in 1..n |-> pairs[k][1] \o pairs[k][2] ])
               = FlattenSeq(EncodedItems(s))
      BY <2>1, <3>1, MapEncodes
    <3>3. entries = pairs
      BY <2>4
    <3>. HIDE DEF entries, pairs
    <3>. QED
      BY <3>2, <3>3
  <2>. HIDE DEF entries
  <2>7. EncodeItem(<< kind, s >>, e)
          = EncodeHead(5, LengthDigits(n)) \o FlattenSeq(EncodedItems(s))
    BY <2>2, <2>5, <2>6
  <2>8. kind # "array"
    BY <1>6
  <2>. QED
    BY <1>4, <2>7, <2>8 DEF StartedAs, e, n
<1>. QED
  BY <1>5, <1>6

\* One item more: a key that comes after the last one, or the value under it.
LEMMA KeysAppend ==
  ASSUME NEW S, NEW s \in Seq(S), NEW x \in S, KeysIncrease(s)
  PROVE  /\ Len(s) % 2 = 1 => KeysIncrease(Append(s, x)) /\ LastKey(Append(s, x)) = LastKey(s)
         /\ Len(s) % 2 # 1 /\ (s # << >> => LexLess(LastKey(s), Encoded(x))) =>
              KeysIncrease(Append(s, x)) /\ LastKey(Append(s, x)) = Encoded(x)
<1>. DEFINE t == Append(s, x)
            l == Len(s)
<1>1. /\ t \in Seq(S) /\ Len(t) = l + 1 /\ t[l + 1] = x /\ \A k \in 1..l : t[k] = s[k]
  BY AppendProperties
<1>2. l \in Nat /\ DOMAIN s = 1..l
  OBVIOUS
<1>3. DOMAIN t = 1..l + 1 /\ t # << >>
  BY <1>1, <1>2
<1>4. (l = 0 <=> s = << >>)
  OBVIOUS
<1>. HIDE DEF t, l
<1>5. ASSUME NEW j \in 1..l + 1, j % 2 = 1, j + 2 \in 1..l + 1, j + 2 # l + 1
      PROVE  LexLess(Encoded(t[j]), Encoded(t[j + 2]))
  <2>1. j \in 1..l /\ j + 2 \in 1..l
    BY <1>2, <1>5
  <2>2. LexLess(Encoded(s[j]), Encoded(s[j + 2]))
    BY <1>2, <1>5, <2>1 DEF KeysIncrease
  <2>. QED
    BY <1>1, <2>1, <2>2
<1>6. CASE l % 2 = 1
  <2>1. l >= 1 /\ (l + 1) % 2 # 1 /\ l \in 1..l /\ (l + 1) - 1 = l
    BY <1>2, <1>6
  <2>2. KeysIncrease(t)
    <3>1. ASSUME NEW j \in 1..l + 1, j % 2 = 1, j + 2 \in 1..l + 1 PROVE j + 2 # l + 1
      BY <1>2, <1>6, <3>1
    <3>. QED
      BY <1>3, <1>5, <3>1 DEF KeysIncrease
  <2>3. LastKey(t) = Encoded(t[l])
    BY <1>1, <1>3, <2>1 DEF LastKey
  <2>4. LastKey(s) = Encoded(s[l])
    BY <1>4, <1>6, <2>1 DEF LastKey, l
  <2>. QED
    BY <1>1, <1>6, <2>1, <2>2, <2>3, <2>4 DEF t, l
<1>7. CASE l % 2 # 1
  <2>. SUFFICES ASSUME s # << >> => LexLess(LastKey(s), Encoded(x))
                PROVE  KeysIncrease(t) /\ LastKey(t) = Encoded(x)
    BY <1>7 DEF t, l
  <2>1. (l + 1) % 2 = 1
    BY <1>2, <1>7
  <2>2. LastKey(t) = Encoded(x)
    BY <1>1, <1>3, <2>1 DEF LastKey
  <2>3. ASSUME NEW j \in 1..l + 1, j % 2 = 1, j + 2 \in 1..l + 1, j + 2 = l + 1
        PROVE  LexLess(Encoded(t[j]), Encoded(t[j + 2]))
    <3>1. j = l - 1 /\ j \in 1..l /\ s # << >>
      BY <1>2, <1>4, <2>3
    <3>2. LastKey(s) = Encoded(s[j])
      BY <1>7, <3>1 DEF LastKey, l
    <3>3. t[j] = s[j] /\ t[j + 2] = x
      BY <1>1, <2>3, <3>1
    <3>. QED
      BY <3>1, <3>2, <3>3
  <2>4. KeysIncrease(t)
    BY <1>3, <1>5, <2>3 DEF KeysIncrease
  <2>. QED
    BY <2>2, <2>4
<1>. QED
  BY <1>6, <1>7 DEF t, l

\* The containers read so far, the outermost first: each one's part follows the
\* parts of those around it.
LEMMA OuterFacts ==
  ASSUME NEW n \in Nat, \A k \in 1..n : Started(k) \in Seq(Byte)
  PROVE  /\ Outer(0) = << >>
         /\ \A k \in 0..n : Outer(k) \in Seq(Byte)
         /\ \A k \in 1..n : Outer(k) = Outer(k - 1) \o Started(k)
<1>. DEFINE p == [ j \in 1..n |-> Started(j) ]
<1>1. \A k \in 1..n : p[k] \in Seq(Byte)
  OBVIOUS
<1>2. ASSUME NEW k \in 0..n PROVE Outer(k) = FlattenSeq([ j \in 1..k |-> p[j] ])
  <2>1. \A j \in 1..k : p[j] = Started(j)
    OBVIOUS
  <2>. HIDE DEF p
  <2>2. [ j \in 1..k |-> p[j] ] = [ j \in 1..k |-> Started(j) ]
    BY <2>1
  <2>. QED
    BY <2>2 DEF Outer
<1>3. /\ \A k \in 0..n : FlattenSeq([ j \in 1..k |-> p[j] ]) \in Seq(Byte)
      /\ \A k \in 1..n : FlattenSeq([ j \in 1..k |-> p[j] ])
                           = FlattenSeq([ j \in 1..k - 1 |-> p[j] ]) \o p[k]
  <2>. HIDE DEF p
  <2>. QED
    BY <1>1, PartsJoin, ZenonT(30)
<1>4. Outer(0) = << >>
  <2>1. [ j \in 1..0 |-> Started(j) ] = << >>
    OBVIOUS
  <2>. QED
    BY <2>1, FlattenEmpty DEF Outer
<1>5. ASSUME NEW k \in 1..n PROVE Outer(k) = Outer(k - 1) \o Started(k)
  <2>1. k \in 0..n /\ k - 1 \in 0..n
    OBVIOUS
  <2>2. p[k] = Started(k)
    OBVIOUS
  <2>. HIDE DEF p
  <2>. QED
    BY <1>2, <1>3, <2>1, <2>2
<1>. QED
  BY <1>2, <1>3, <1>4, <1>5

\* The same of the containers after a step.
LEMMA OuterFactsNext ==
  ASSUME NEW n \in Nat, \A k \in 1..n : Started(k)' \in Seq(Byte)
  PROVE  \A k \in 1..n : Outer(k)' = Outer(k - 1)' \o Started(k)'
<1>. DEFINE p == [ j \in 1..n |-> Started(j)' ]
<1>1. \A k \in 1..n : p[k] \in Seq(Byte)
  OBVIOUS
<1>2. ASSUME NEW k \in 0..n PROVE Outer(k)' = FlattenSeq([ j \in 1..k |-> p[j] ])
  <2>1. \A j \in 1..k : p[j] = Started(j)'
    OBVIOUS
  <2>. HIDE DEF p
  <2>2. [ j \in 1..k |-> p[j] ] = [ j \in 1..k |-> Started(j)' ]
    BY <2>1
  <2>. QED
    BY <2>2 DEF Outer
<1>3. \A k \in 1..n : FlattenSeq([ j \in 1..k |-> p[j] ])
                        = FlattenSeq([ j \in 1..k - 1 |-> p[j] ]) \o p[k]
  <2>. HIDE DEF p
  <2>. QED
    BY <1>1, PartsJoin, ZenonT(30)
<1>5. ASSUME NEW k \in 1..n PROVE Outer(k)' = Outer(k - 1)' \o Started(k)'
  <2>1. k \in 0..n /\ k - 1 \in 0..n
    OBVIOUS
  <2>2. p[k] = Started(k)'
    OBVIOUS
  <2>. HIDE DEF p
  <2>3. Outer(k)' = FlattenSeq([ j \in 1..k |-> p[j] ])
    BY <1>2, <2>1
  <2>. DEFINE i == k - 1
  <2>4. i \in 0..n
    BY <2>1
  <2>. HIDE DEF i
  <2>5. Outer(i)' = FlattenSeq([ j \in 1..i |-> p[j] ])
    BY <1>2, <2>4
  <2>. QED
    BY <1>3, <2>2, <2>3, <2>5 DEF i
<1>. QED
  BY <1>5

\* What has been read of a container, from its kind, its members and its items.
LEMMA StartedIs ==
  ASSUME NEW k
  PROVE  /\ Started(k) = StartedAs(stack[k].kind, Announced(k), built[k])
         /\ Started(k)' = StartedAs(stack'[k].kind, Announced(k)', built'[k])
BY DEF Started, StartedAs, EncodedItems

\* How deep the items of the k-th container may nest.
LEMMA LevelOf ==
  ASSUME Inv, NEW k \in 1..Len(stack)
  PROVE  /\ (max_depth + 1) - k \in Nat /\ (max_depth + 1) - k <= max_depth
         /\ (max_depth + 1) - k <= max_depth + 1
         /\ ((max_depth + 1) - k) + 1 = (max_depth + 1) - (k - 1)
<1>1. Len(stack) \in Nat /\ Len(stack) <= max_depth /\ max_depth \in Nat
  BY DepthLeft DEF Inv, WithinLimits
<1>. QED
  BY <1>1

\* The bytes of every open container, in a state whose containers are accounted for.
LEMMA AccountFacts ==
  ASSUME Inv, Plausible, \A k \in DOMAIN stack : Accounts(k)
  PROVE  /\ Len(stack) \in Nat /\ DOMAIN stack = 1..Len(stack)
         /\ \A k \in 1..Len(stack) : Announced(k) \in Nat /\ Announced(k) < COUNT_CAP
         /\ \A k \in 1..Len(stack) : Started(k) \in Seq(Byte)
         /\ Outer(0) = << >>
         /\ \A k \in 0..Len(stack) : Outer(k) \in Seq(Byte)
         /\ \A k \in 1..Len(stack) : Outer(k) = Outer(k - 1) \o Started(k)
<1>1. Len(stack) \in Nat /\ DOMAIN stack = 1..Len(stack)
  BY DEF Inv, TypeOK
<1>2. ASSUME NEW k \in 1..Len(stack)
      PROVE  Announced(k) \in Nat /\ Announced(k) < COUNT_CAP /\ Started(k) \in Seq(Byte)
  <2>1. Announced(k) \in Nat /\ Announced(k) < COUNT_CAP
    BY <1>1, ContainerFacts DEF Plausible
  <2>. DEFINE m == (max_depth + 1) - k
              n == Announced(k)
              s == built[k]
  <2>2. m \in Nat /\ m <= max_depth + 1
    BY LevelOf
  <2>3. s \in Seq(Encodable(m))
    <3>1. Accounts(k)
      BY <1>1
    <3>. QED
      BY <3>1 DEF Accounts
  <2>4. n \in Nat /\ n < COUNT_CAP
    BY <2>1
  <2>. HIDE DEF m, n, s
  <2>5. StartedAs(stack[k].kind, n, s) \in Seq(Byte)
    BY <2>2, <2>3, <2>4, StartedIsBytes
  <2>6. Started(k) = StartedAs(stack[k].kind, n, s)
    BY StartedIs DEF n, s
  <2>. QED
    BY <2>1, <2>5, <2>6
<1>3. /\ Outer(0) = << >>
      /\ \A k \in 0..Len(stack) : Outer(k) \in Seq(Byte)
      /\ \A k \in 1..Len(stack) : Outer(k) = Outer(k - 1) \o Started(k)
  BY <1>1, <1>2, OuterFacts
<1>. QED
  BY <1>1, <1>2, <1>3

\* What a step leaves alone.
LEMMA SameOuter ==
  ASSUME NEW k, \A j \in 1..k : Started(j)' = Started(j)
  PROVE  Outer(k)' = Outer(k)
BY DEF Outer

\* And the account of it.
LEMMA KeepsAccounts ==
  ASSUME NEW k, stack'[k] = stack[k], built'[k] = built[k],
         \A j \in 1..k : Started(j)' = Started(j), Accounts(k)
  PROVE  Accounts(k)'
<1>1. Outer(k)' = Outer(k)
  BY SameOuter
<1>. QED
  BY <1>1 DEF Accounts

\* A part of the input from its beginning, with what follows it.
LEMMA ReadOn ==
  ASSUME NEW d \in Seq(Byte), NEW a \in Nat, NEW b \in Nat, a <= b, b <= Len(d)
  PROVE  SubSeq(d, 1, a) \o SubSeq(d, a + 1, b) = SubSeq(d, 1, b)
<1>1. SubSeq(d, 0 + 1, a) \o SubSeq(d, a + 1, b) = SubSeq(d, 0 + 1, b)
  <2>1. 0 \in Nat /\ 0 <= a
    OBVIOUS
  <2>. QED
    BY <2>1, SlicesJoin
<1>2. 0 + 1 = 1
  OBVIOUS
<1>. QED
  BY <1>1, <1>2

----------------------------------------------------------------------------
(* Reading an item.                                                        *)

\* An item that is read makes the position and the value agree again.
LEMMA ReadKeepsAccount ==
  ASSUME Inv, Inv', data \in Inputs, Loops, Accounting,
         ReadSimple \/ ReadInteger \/ ReadString
  PROVE  Loops' /\ Accounting'
<1>. DEFINE L == Len(stack)
<1>1. /\ pos' \in Nat /\ pos < pos' /\ pos' <= Len(data)
      /\ value' \in Encodable((max_depth + 1) - L)
      /\ Encoded(value') = SubSeq(data, pos + 1, pos')
  BY SimpleIsRead, IntegerIsRead, StringIsRead
<1>2. /\ pc = "item" /\ pc' = "deliver" /\ stack' = stack /\ built' = built
      /\ members' = members /\ data' = data
  BY DEF ReadSimple, ReadInteger, ReadString, AtHead, Deliver
<1>3. data \in Seq(Byte) /\ pos \in Nat /\ L \in Nat /\ DOMAIN stack = 1..L /\ members \in Nat
  BY DEF Inv, TypeOK
<1>4. \A k \in 1..L : Reading(k)' <=> Reading(k)
  BY <1>2 DEF Reading
<1>5. \A k \in 1..L : Announced(k)' = Announced(k) /\ Started(k)' = Started(k)
  BY <1>2, <1>4, SameContainer
<1>6. Loops'
  <2>1. ASSUME NEW k \in 1..L PROVE InLoop(k)'
    <3>1. InLoop(k)
      BY <1>2, <1>3 DEF Loops
    <3>2. members' >= members /\ k \in 1..Len(stack')
      BY <1>2, <1>3
    <3>. QED
      BY <1>2, <1>4, <3>1, <3>2, SameLoop
  <2>. QED
    BY <1>2, <1>3, <2>1 DEF Loops
<1>7. ASSUME Plausible' PROVE Account'
  <2>1. Plausible
    BY <1>2, <1>3, <1>5, <1>7 DEF Plausible
  <2>2. Account
    BY <1>2, <2>1 DEF Accounting
  <2>3. /\ \A k \in 1..L : Accounts(k)
        /\ SubSeq(data, 1, pos) = Outer(L) \o << >>
    BY <1>2, <1>3, <2>2 DEF Account
  <2>4. Outer(L) \in Seq(Byte)
    BY <1>3, <2>1, <2>3, AccountFacts
  <2>5. SubSeq(data, 1, pos) = Outer(L)
    BY <2>3, <2>4, ConcatEmptySeq
  <2>6. SubSeq(data, 1, pos') = Outer(L) \o Encoded(value')
    <3>1. pos <= pos'
      BY <1>1, <1>3
    <3>. DEFINE b == pos'
    <3>2. b \in Nat /\ pos <= b /\ b <= Len(data)
      BY <1>1, <3>1
    <3>. HIDE DEF b
    <3>3. SubSeq(data, 1, pos) \o SubSeq(data, pos + 1, b) = SubSeq(data, 1, b)
      BY <1>3, <3>2, ReadOn
    <3>. QED
      BY <1>1, <2>5, <3>3 DEF b
  <2>7. \A k \in 1..L : Accounts(k)' /\ Outer(k)' = Outer(k)
    <3>. TAKE k \in 1..L
    <3>1. \A j \in 1..k : Started(j)' = Started(j)
      <4>1. \A j \in 1..k : j \in 1..L
        BY <1>3
      <4>. QED
        BY <1>5, <4>1
    <3>. QED
      BY <1>2, <2>3, <3>1, KeepsAccounts, SameOuter
  <2>8. \A k : k = L => Outer(k)' = Outer(k)
    BY <1>5, SameOuter
  <2>9. \A k : k = Len(stack)' => Outer(k)' = Outer(L)
    BY <1>2, <2>8
  <2>10. Outer(Len(stack))' = Outer(L)
    BY <2>9
  <2>11. \A k \in DOMAIN stack' : Accounts(k)'
    BY <1>2, <1>3, <2>7
  <2>12. value' \in Encodable((max_depth + 1) - Len(stack'))
    BY <1>1, <1>2
  <2>13. SubSeq(data', 1, pos') = Outer(Len(stack))' \o Encoded(value')
    BY <1>2, <2>6, <2>10
  <2>. QED
    BY <1>2, <2>11, <2>12, <2>13 DEF Account
<1>. QED
  BY <1>2, <1>6, <1>7 DEF Accounting

\* What the position says while decode_item is at work, in a state that is
\* accounted for.
LEMMA Position ==
  ASSUME Inv, Accounting, pc # "done", Plausible
  PROVE  /\ \A k \in 1..Len(stack) : Accounts(k)
         /\ Outer(Len(stack)) \in Seq(Byte)
         /\ pc = "deliver" =>
              /\ value \in Encodable((max_depth + 1) - Len(stack))
              /\ SubSeq(data, 1, pos) = Outer(Len(stack)) \o Encoded(value)
         /\ pc # "deliver" => SubSeq(data, 1, pos) = Outer(Len(stack))
<1>1. Account
  BY DEF Accounting
<1>2. Len(stack) \in Nat /\ DOMAIN stack = 1..Len(stack)
  BY DEF Inv, TypeOK
<1>3. \A k \in DOMAIN stack : Accounts(k)
  BY <1>1 DEF Account
<1>4. Outer(Len(stack)) \in Seq(Byte)
  BY <1>2, <1>3, AccountFacts
<1>5. SubSeq(data, 1, pos)
        = Outer(Len(stack)) \o IF pc = "deliver" THEN Encoded(value) ELSE << >>
  BY <1>1 DEF Account
<1>6. pc = "deliver" => value \in Encodable((max_depth + 1) - Len(stack))
  BY <1>1 DEF Account
<1>7. Outer(Len(stack)) \o << >> = Outer(Len(stack))
  BY <1>4, ConcatEmptySeq
<1>. QED
  BY <1>2, <1>3, <1>4, <1>5, <1>6, <1>7

\* A new container: its head is its encoding, if the number of members it declares
\* is one that the model tells from larger ones.
LEMMA OpenKeepsAccount ==
  ASSUME Inv, Inv', Loops, Accounting, OpenContainer
  PROVE  Accounting'
<1>. DEFINE L == Len(stack)
            e == max_depth
<1>1. /\ pc = "item" /\ pc' = "member" /\ data' = data /\ pos' = pos + headSize
      /\ TypeOK /\ Has(1) /\ IsHead /\ (major = 4 \/ major = 5)
  BY DEF OpenContainer, AtHead, Inv
<1>2. L \in Nat /\ DOMAIN stack = 1..L /\ DOMAIN stack' = 1..L + 1 /\ Len(stack') = L + 1
      /\ data \in Seq(Byte) /\ pos \in Nat
  <2>1. DOMAIN stack = 1..L /\ DOMAIN stack' = 1..Len(stack') /\ L \in Nat
    BY DEF Inv, TypeOK
  <2>2. Len(stack') = L + 1
    BY OpenFacts
  <2>. QED
    BY <1>1, <2>1, <2>2 DEF TypeOK
<1>3. /\ argument \in Seq(Byte)
      /\ Len(argument) # 0 => argument[1] # 0
      /\ headSize \in Nat \ {0} /\ pos + headSize <= Len(data)
      /\ EncodeHead(major, argument) = SubSeq(data, pos + 1, pos + headSize)
  BY <1>1, HeadIsEncoded
<1>4. \A k \in 1..L : /\ stack'[k] = stack[k] /\ built'[k] = built[k]
                      /\ Announced(k)' = Announced(k) /\ Started(k)' = Started(k)
  <2>1. \A k \in 1..L : /\ stack'[k] = stack[k] /\ built'[k] = built[k]
                        /\ (Reading(k)' <=> Reading(k))
    BY OpenFacts
  <2>. QED
    BY <2>1, SameContainer
<1>. SUFFICES ASSUME Plausible' PROVE Account'
  BY <1>1 DEF Accounting
<1>5. Plausible
  <2>1. \A k \in 1..L + 1 : Announced(k)' < COUNT_CAP
    BY <1>2 DEF Plausible
  <2>2. \A k \in 1..L : k \in 1..L + 1
    BY <1>2
  <2>. QED
    BY <1>2, <1>4, <2>1, <2>2 DEF Plausible
<1>6. /\ \A k \in 1..L : Accounts(k)
      /\ Outer(L) \in Seq(Byte)
      /\ SubSeq(data, 1, pos) = Outer(L)
  BY <1>1, <1>5, Position
<1>7. \A k \in 1..L : Started(k) \in Seq(Byte)
  BY <1>2, <1>5, <1>6, AccountFacts
<1>8. ASSUME NEW k, k = L + 1
      PROVE  /\ Started(k)' = SubSeq(data, pos + 1, pos + headSize)
             /\ Accounts(k)'
  <2>1. /\ stack'[k].kind = (IF major = 4 THEN "array" ELSE "map")
        /\ stack'[k].left = length /\ stack'[k].wantsKey = FALSE
        /\ stack'[k].previous = << >> /\ built'[k] = << >>
        /\ ~Reading(k)'
    <3>1. k \in 1..L + 1
      BY <1>2, <1>8
    <3>. QED
      BY <1>8, <3>1, OpenFacts
  <2>2. length \in Nat /\ length = Count(argument)
    BY <1>3, CountNat DEF length
  <2>3. Announced(k)' = length
    <3>1. Len(<< >>) = 0 /\ Len(<< >>) \div 2 = 0
      OBVIOUS
    <3>2. Announced(k)' = length + 0 + 0
      BY <2>1, <3>1 DEF Announced
    <3>. QED
      BY <2>2, <3>2
  <2>4. length < COUNT_CAP
    <3>1. k \in DOMAIN stack'
      BY <1>2, <1>8
    <3>. QED
      BY <2>3, <3>1 DEF Plausible
  <2>5. LengthDigits(length) = argument
    BY <1>3, <2>2, <2>4, DigitsOfCount
  <2>6. EncodedItems(<< >>) = << >>
    BY DEF EncodedItems
  <2>7. EncodeHead(IF stack'[k].kind = "array" THEN 4 ELSE 5, argument)
          = SubSeq(data, pos + 1, pos + headSize)
    <3>1. (IF stack'[k].kind = "array" THEN 4 ELSE 5) = major
      BY <1>1, <2>1
    <3>. QED
      BY <1>3, <3>1
  <2>8. SubSeq(data, pos + 1, pos + headSize) \in Seq(Byte)
    <3>. DEFINE b == pos + headSize
    <3>1. b \in Nat /\ pos < b /\ b <= Len(data)
      BY <1>2, <1>3
    <3>. HIDE DEF b
    <3>2. SubSeq(data, pos + 1, b) \in Seq(Byte)
      BY <1>2, <3>1, ReadBytes
    <3>. QED
      BY <3>2 DEF b
  <2>9. Started(k)' = SubSeq(data, pos + 1, pos + headSize)
    <3>1. Started(k)' = StartedAs(stack'[k].kind, length, << >>)
      BY <2>1, <2>3, StartedIs
    <3>2. StartedAs(stack'[k].kind, length, << >>)
            = SubSeq(data, pos + 1, pos + headSize) \o << >>
      BY <2>5, <2>6, <2>7, FlattenEmpty DEF StartedAs
    <3>3. SubSeq(data, pos + 1, pos + headSize) \o << >>
            = SubSeq(data, pos + 1, pos + headSize)
      BY <2>8, ConcatEmptySeq
    <3>. QED
      BY <3>1, <3>2, <3>3
  <2>10. Accounts(k)'
    <3>1. << >> \in Seq(Encodable((max_depth + 1) - k))
      OBVIOUS
    <3>2. KeysIncrease(<< >>) /\ LastKey(<< >>) = << >>
      BY DEF KeysIncrease, LastKey
    <3>. QED
      BY <2>1, <3>1, <3>2 DEF Accounts
  <2>. QED
    BY <2>9, <2>10
<1>9. \A k \in 1..L : Accounts(k)' /\ Outer(k)' = Outer(k)
  <2>. TAKE k \in 1..L
  <2>1. \A j \in 1..k : j \in 1..L
    BY <1>2
  <2>2. \A j \in 1..k : Started(j)' = Started(j)
    BY <1>4, <2>1
  <2>. QED
    BY <1>4, <1>6, <2>2, KeepsAccounts, SameOuter
<1>10. \A k \in 1..L + 1 : k \in 1..L \/ k = L + 1
  BY <1>2
<1>11. \A k \in DOMAIN stack' : Accounts(k)'
  BY <1>2, <1>8, <1>9, <1>10
<1>12. ASSUME NEW k, k = L + 1
       PROVE  Outer(k)' = Outer(L) \o SubSeq(data, pos + 1, pos + headSize)
  <2>1. \A j \in 1..L + 1 : Started(j)' \in Seq(Byte)
    <3>. TAKE j \in 1..L + 1
    <3>. DEFINE b == pos + headSize
    <3>1. b \in Nat /\ pos < b /\ b <= Len(data)
      BY <1>2, <1>3
    <3>. HIDE DEF b
    <3>2. SubSeq(data, pos + 1, b) \in Seq(Byte)
      BY <1>2, <3>1, ReadBytes
    <3>. QED
      BY <1>4, <1>7, <1>8, <1>10, <3>2 DEF b
  <2>2. L + 1 \in Nat /\ k \in 1..L + 1
    BY <1>2, <1>12
  <2>3. Outer(k)' = Outer(k - 1)' \o Started(k)'
    <3>. DEFINE n == L + 1
    <3>1. n \in Nat /\ k \in 1..n /\ \A j \in 1..n : Started(j)' \in Seq(Byte)
      BY <2>1, <2>2
    <3>. HIDE DEF n
    <3>. QED
      BY <3>1, OuterFactsNext
  <2>4. \A i : i = L => Outer(i)' = Outer(i)
    BY <1>4, SameOuter
  <2>5. k - 1 = L
    BY <1>2, <1>12
  <2>. DEFINE i == k - 1
  <2>6. i = L /\ Outer(k)' = Outer(i)' \o Started(k)'
    BY <2>3, <2>5
  <2>. HIDE DEF i
  <2>7. Outer(i)' = Outer(L)
    BY <2>4, <2>6
  <2>. QED
    BY <1>8, <1>12, <2>6, <2>7
<1>13. Outer(Len(stack))' = Outer(L) \o SubSeq(data, pos + 1, pos + headSize)
  BY <1>2, <1>12
<1>14. SubSeq(data, 1, pos) \o SubSeq(data, pos + 1, pos + headSize)
         = SubSeq(data, 1, pos + headSize)
  <2>. DEFINE b == pos + headSize
  <2>1. b \in Nat /\ pos <= b /\ b <= Len(data)
    BY <1>2, <1>3
  <2>. HIDE DEF b
  <2>2. SubSeq(data, 1, pos) \o SubSeq(data, pos + 1, b) = SubSeq(data, 1, b)
    BY <1>2, <2>1, ReadOn
  <2>. QED
    BY <2>2 DEF b
<1>15. SubSeq(data', 1, pos') = Outer(Len(stack))'
  BY <1>1, <1>6, <1>13, <1>14
<1>16. Outer(Len(stack))' \in Seq(Byte)
  <2>. DEFINE b == pos + headSize
  <2>1. b \in Nat /\ 0 < b /\ b <= Len(data)
    BY <1>2, <1>3
  <2>. HIDE DEF b
  <2>2. SubSeq(data, 0 + 1, b) \in Seq(Byte)
    <3>1. 0 \in Nat
      OBVIOUS
    <3>. QED
      BY <1>2, <2>1, <3>1, ReadBytes
  <2>3. 0 + 1 = 1
    OBVIOUS
  <2>. QED
    BY <1>1, <1>15, <2>2, <2>3 DEF b
<1>17. Outer(Len(stack))' \o << >> = Outer(Len(stack))'
  BY <1>16, ConcatEmptySeq
<1>. QED
  BY <1>1, <1>11, <1>15, <1>17 DEF Account

\* A member is counted before it is read: nothing is read or built.
LEMMA CountKeepsAccount ==
  ASSUME Inv, Inv', Loops, Accounting, CountMember
  PROVE  Accounting'
<1>. DEFINE L == Len(stack)
<1>1. pc = "member" /\ pc' = "item" /\ data' = data /\ pos' = pos
  BY DEF CountMember
<1>2. /\ L \in Nat \ {0} /\ Len(stack') = L /\ built' = built
      /\ \A k \in 1..L : k # L => stack'[k] = stack[k]
      /\ stack'[L].kind = stack[L].kind
      /\ stack'[L].start = pos /\ stack'[L].previous = stack[L].previous
  BY CountFacts
<1>3. DOMAIN stack = 1..L /\ DOMAIN stack' = 1..L /\ data \in Seq(Byte) /\ pos \in Nat
      /\ pos <= Len(data)
  <2>1. DOMAIN stack = 1..L /\ DOMAIN stack' = 1..Len(stack')
    BY DEF Inv, TypeOK
  <2>. QED
    BY <1>2, <2>1 DEF Inv, TypeOK, WithinLimits
<1>4. \A k \in 1..L : Announced(k)' = Announced(k) /\ stack'[k].kind = stack[k].kind
  BY <1>2, CountKeepsLoops
<1>5. \A k \in 1..L : Started(k)' = Started(k)
  BY <1>2, <1>4 DEF Started
<1>. SUFFICES ASSUME Plausible' PROVE Account'
  BY <1>1 DEF Accounting
<1>6. Plausible
  BY <1>3, <1>4 DEF Plausible
<1>7. /\ \A k \in 1..L : Accounts(k)
      /\ Outer(L) \in Seq(Byte)
      /\ SubSeq(data, 1, pos) = Outer(L)
  BY <1>1, <1>6, Position
<1>8. \A k \in 1..L : Outer(k)' = Outer(k)
  <2>. TAKE k \in 1..L
  <2>1. \A j \in 1..k : j \in 1..L
    BY <1>2
  <2>2. \A j \in 1..k : Started(j)' = Started(j)
    BY <1>5, <2>1
  <2>. QED
    BY <2>2, SameOuter
<1>9. pos = Len(Outer(L))
  <2>1. SubSeq(data, 0 + 1, pos) \in Seq(Byte) /\ Len(SubSeq(data, 0 + 1, pos)) = pos - 0
    <3>1. 0 \in Nat /\ 0 <= pos
      BY <1>3
    <3>. QED
      BY <1>3, <3>1, Slice
  <2>2. 0 + 1 = 1 /\ pos - 0 = pos
    BY <1>3
  <2>. QED
    BY <1>7, <2>1, <2>2
<1>10. ASSUME NEW k \in 1..L PROVE Accounts(k)'
  <2>1. Accounts(k)
    BY <1>7
  <2>2. CASE k # L
    <3>1. stack'[k] = stack[k] /\ built'[k] = built[k]
      BY <1>2, <2>2
    <3>2. \A j \in 1..k : Started(j)' = Started(j)
      <4>1. \A j \in 1..k : j \in 1..L
        BY <1>2
      <4>. QED
        BY <1>5, <4>1
    <3>. QED
      BY <2>1, <3>1, <3>2, KeepsAccounts
  <2>3. CASE k = L
    <3>1. /\ stack'[k].kind = stack[k].kind /\ stack'[k].start = pos
          /\ stack'[k].previous = stack[k].previous /\ built'[k] = built[k]
      BY <1>2, <2>3
    <3>2. Outer(k)' = Outer(k) /\ pos = Len(Outer(k))
      BY <1>8, <1>9, <2>3
    <3>. QED
      BY <2>1, <3>1, <3>2 DEF Accounts
  <2>. QED
    BY <2>2, <2>3
<1>11. \A k \in DOMAIN stack' : Accounts(k)'
  BY <1>3, <1>10
<1>12. \A k : k = L => Outer(k)' = Outer(k)
  BY <1>5, SameOuter
<1>13. Outer(Len(stack))' = Outer(L)
  BY <1>2, <1>12
<1>14. SubSeq(data', 1, pos') = Outer(Len(stack))' \o << >>
  <2>1. Outer(L) \o << >> = Outer(L)
    BY <1>7, ConcatEmptySeq
  <2>. QED
    BY <1>1, <1>7, <1>13, <2>1
<1>. QED
  BY <1>1, <1>11, <1>14 DEF Account

\* A container is complete: it has been counted, so it has no more members than the
\* caller allows, and what has been read of it is the encoding of the value.
LEMMA CloseKeepsAccount ==
  ASSUME Inv, Inv', Loops, Accounting, CloseContainer
  PROVE  Accounting'
<1>. DEFINE L == Len(stack)
<1>1. /\ pc = "member" /\ pc' = "deliver" /\ data' = data /\ pos' = pos
      /\ value' = << top.kind, items >> /\ stack # << >>
  BY DEF CloseContainer, Inv, TypeOK
<1>2. /\ L \in Nat \ {0} /\ Len(stack') = L - 1 /\ L \in 1..L
      /\ \A k \in 1..L - 1 : /\ stack'[k] = stack[k] /\ built'[k] = built[k]
                             /\ (Reading(k)' <=> Reading(k))
      /\ ~Reading(L) /\ stack[L].left = 0
  BY CloseFacts
<1>3. DOMAIN stack = 1..L /\ DOMAIN stack' = 1..L - 1 /\ data \in Seq(Byte)
      /\ Len(built) = L
  <2>1. DOMAIN stack = 1..L /\ DOMAIN stack' = 1..Len(stack')
    BY DEF Inv, TypeOK
  <2>. QED
    BY <1>2, <2>1 DEF Inv, TypeOK
<1>4. \A k \in 1..L - 1 : Announced(k)' = Announced(k) /\ Started(k)' = Started(k)
  BY <1>2, SameContainer
<1>. SUFFICES ASSUME Plausible' PROVE Account'
  BY <1>1 DEF Accounting
<1>5. Announced(L) = Underway(L) /\ Announced(L) \in Nat /\ Announced(L) < COUNT_CAP
  <2>1. Announced(L) = stack[L].left + Underway(L) /\ Underway(L) \in Nat
    BY <1>2, ContainerFacts
  <2>2. Underway(L) <= members
    BY <1>1, <1>2, <1>3 DEF Loops, InLoop
  <2>3. members \in Nat /\ members <= max_members
    BY DEF Inv, TypeOK, WithinLimits
  <2>. DEFINE u == Underway(L)
              a == Announced(L)
  <2>4. u \in Nat /\ u <= members /\ a = 0 + u
    BY <1>2, <2>1, <2>2
  <2>. HIDE DEF u, a
  <2>5. a = u /\ a \in Nat /\ a < COUNT_CAP
    BY <2>3, <2>4, DecoderAssumption DEF COUNT_CAP
  <2>. QED
    BY <2>5 DEF u, a
<1>6. Plausible
  <2>1. ASSUME NEW k \in 1..L PROVE Announced(k) < COUNT_CAP
    <3>1. CASE k = L
      BY <1>5, <3>1
    <3>2. CASE k # L
      <4>1. k \in 1..L - 1
        BY <1>2, <3>2
      <4>2. Announced(k)' < COUNT_CAP
        BY <1>3, <4>1 DEF Plausible
      <4>. QED
        BY <1>4, <4>1, <4>2
    <3>. QED
      BY <3>1, <3>2
  <2>. QED
    BY <1>3, <2>1 DEF Plausible
<1>7. /\ \A k \in 1..L : Accounts(k)
      /\ SubSeq(data, 1, pos) = Outer(L)
  BY <1>1, <1>6, Position
<1>8. Outer(L) = Outer(L - 1) \o Started(L) /\ Started(L) \in Seq(Byte)
  BY <1>2, <1>3, <1>6, <1>7, AccountFacts
<1>. DEFINE m == (max_depth + 1) - L
            s == built[L]
            kind == stack[L].kind
<1>9. m \in Nat /\ m <= max_depth /\ m + 1 = (max_depth + 1) - (L - 1)
  BY <1>2, LevelOf
<1>10. /\ s \in Seq(Encodable(m)) /\ kind \in { "array", "map" }
       /\ kind = "map" => Len(s) % 2 # 1 /\ KeysIncrease(s)
  <2>1. Accounts(L)
    BY <1>2, <1>7
  <2>2. InLoop(L)
    BY <1>1, <1>2, <1>3 DEF Loops
  <2>3. stack[L] \in Frames
    BY <1>2, ContainerFacts
  <2>4. s \in Seq(Encodable(m))
    BY <2>1 DEF Accounts
  <2>5. kind \in { "array", "map" }
    BY <2>3 DEF Frames
  <2>6. kind = "map" => KeysIncrease(s)
    BY <2>1 DEF Accounts
  <2>7. kind = "map" => Len(s) % 2 # 1
    BY <1>2, <2>2 DEF InLoop
  <2>. QED
    BY <2>4, <2>5, <2>6, <2>7
<1>11. value' = << kind, s >>
  BY <1>1, <1>3 DEF top, items
<1>12. Started(L) = StartedAs(kind, IF kind = "array" THEN Len(s) ELSE Len(s) \div 2, s)
  <2>1. Started(L) = StartedAs(kind, Announced(L), s)
    BY StartedIs
  <2>2. Len(s) \in Nat
    BY <1>2, ContainerFacts
  <2>. DEFINE n == IF kind = "array" THEN Len(s) ELSE Len(s) \div 2
  <2>3. Underway(L) = n + 0
    BY <1>2 DEF Underway
  <2>4. n \in Nat
    <3>1. \A l \in Nat : l \div 2 \in Nat
      OBVIOUS
    <3>. QED
      BY <2>2, <3>1
  <2>. HIDE DEF n
  <2>5. Underway(L) = n
    BY <2>3, <2>4
  <2>. QED
    BY <1>5, <2>1, <2>5 DEF n
<1>. HIDE DEF m, s, kind
<1>13. /\ << kind, s >> \in ValuesOf(DOMAIN EncodeTo[m])
       /\ EncodeItem(<< kind, s >>, EncodeTo[m]) = Started(L)
  BY <1>9, <1>10, <1>12, ContainerEncodes
<1>14. Started(L) # << >>
  <2>1. Announced(L) \in Nat /\ Announced(L) < COUNT_CAP /\ m <= max_depth + 1
    BY <1>5, <1>9, DecoderAssumption
  <2>. DEFINE n == Announced(L)
  <2>2. Started(L) = StartedAs(kind, n, s)
    BY StartedIs DEF kind, s
  <2>3. n \in Nat /\ n < COUNT_CAP
    BY <2>1
  <2>. HIDE DEF n
  <2>4. StartedAs(kind, n, s) # << >>
    BY <1>9, <1>10, <2>1, <2>3, StartedIsBytes
  <2>. QED
    BY <2>2, <2>4
<1>15. value' \in Encodable(m + 1) /\ Encoded(value') = Started(L)
  <2>. DEFINE v == << kind, s >>
              b == Started(L)
  <2>1. /\ v \in ValuesOf(DOMAIN EncodeTo[m]) /\ EncodeItem(v, EncodeTo[m]) = b
        /\ b \in Seq(Byte) /\ b # << >>
    BY <1>8, <1>13, <1>14
  <2>. HIDE DEF v, b
  <2>2. v \in Encodable(m + 1) /\ Encoded(v) = b
    BY <1>9, <2>1, ValueIsEncodable
  <2>. QED
    BY <1>11, <2>2 DEF v, b
<1>16. \A k \in 1..L - 1 : Accounts(k)'
  <2>. TAKE k \in 1..L - 1
  <2>1. k \in 1..L /\ \A j \in 1..k : j \in 1..L - 1
    BY <1>2
  <2>2. \A j \in 1..k : Started(j)' = Started(j)
    BY <1>4, <2>1
  <2>. QED
    BY <1>2, <1>7, <2>1, <2>2, KeepsAccounts
<1>17. \A k : k = L - 1 => Outer(k)' = Outer(k)
  <2>. TAKE k
  <2>. HAVE k = L - 1
  <2>1. \A j \in 1..k : Started(j)' = Started(j)
    BY <1>4
  <2>. QED
    BY <2>1, SameOuter
<1>18. Outer(Len(stack))' = Outer(L - 1)
  BY <1>2, <1>17
<1>19. SubSeq(data', 1, pos') = Outer(Len(stack))' \o Encoded(value')
  BY <1>1, <1>7, <1>8, <1>15, <1>18
<1>20. value' \in Encodable((max_depth + 1) - Len(stack'))
  BY <1>2, <1>9, <1>15
<1>21. \A k \in DOMAIN stack' : Accounts(k)'
  BY <1>3, <1>16
<1>. QED
  BY <1>1, <1>19, <1>20, <1>21 DEF Account

----------------------------------------------------------------------------
(* Delivering an item.                                                     *)

\* What is delivered is what has been read after the open containers.
LEMMA DeliveredBytes ==
  ASSUME Inv, Accounting, Plausible, pc = "deliver"
  PROVE  SubSeq(data, Len(Outer(Len(stack))) + 1, pos) = Encoded(value)
<1>. DEFINE f == Outer(Len(stack))
            g == Encoded(value)
            a == Len(f)
            s == SubSeq(data, a + 1, pos)
            t == SubSeq(data, 1, pos)
<1>1. f \in Seq(Byte) /\ value \in Encodable((max_depth + 1) - Len(stack)) /\ t = f \o g
  BY Position
<1>2. g \in Seq(Byte)
  BY <1>1 DEF Encodable
<1>3. data \in Seq(Byte) /\ pos \in Nat /\ pos <= Len(data)
  BY DEF Inv, TypeOK, WithinLimits
<1>4. t \in Seq(Byte) /\ Len(t) = pos /\ \A k \in 1..pos : t[k] = data[k]
  BY <1>3
<1>. HIDE DEF f, g, s, t
<1>5. f \in Seq(Byte) /\ g \in Seq(Byte)
  BY <1>1, <1>2
<1>6. /\ a \in Nat /\ Len(g) \in Nat /\ Len(f \o g) = a + Len(g)
      /\ \A k \in 1..Len(g) : (f \o g)[a + k] = g[k]
  BY <1>5, ConcatAt
<1>7. a <= pos /\ pos = a + Len(g)
  BY <1>1, <1>3, <1>4, <1>6
<1>8. s \in Seq(Byte) /\ Len(s) = pos - a /\ \A k \in 1..pos - a : s[k] = data[a + k]
  <2>. HIDE DEF a
  <2>. QED
    BY <1>3, <1>6, <1>7, Slice DEF s
<1>9. ASSUME NEW k \in 1..Len(g) PROVE s[k] = g[k]
  <2>1. k \in 1..pos - a /\ a + k \in 1..pos
    BY <1>3, <1>6, <1>7
  <2>2. s[k] = data[a + k] /\ t[a + k] = data[a + k]
    BY <1>4, <1>8, <2>1
  <2>3. t[a + k] = g[k]
    BY <1>1, <1>6
  <2>. QED
    BY <2>2, <2>3
<1>10. Len(s) = Len(g)
  BY <1>3, <1>6, <1>7, <1>8
<1>11. s = g
  BY <1>5, <1>8, <1>9, <1>10, SeqEqual
<1>. QED
  BY <1>11 DEF s, f, g

\* A key that is delivered is the bytes read since the member was counted; the key
\* before it is remembered.
LEMMA KeyRead ==
  ASSUME Inv, Loops, Accounting, Plausible, Delivering(TRUE)
  PROVE  LET L == Len(stack) IN
         /\ L \in 1..Len(stack) /\ stack[L].kind = "map" /\ stack[L].wantsKey
         /\ top = stack[L] /\ Len(built[L]) % 2 # 1
         /\ built[L] \in Seq(Encodable((max_depth + 1) - L))
         /\ stack[L].previous = LastKey(built[L])
         /\ SubSeq(data, stack[L].start + 1, pos) = Encoded(value)
         /\ keyBytes = Encoded(value) /\ Encoded(value) \in Seq(Byte)
<1>. DEFINE L == Len(stack)
            x == Encoded(value)
<1>1. pc = "deliver" /\ stack # << >> /\ top.wantsKey = TRUE /\ top = stack[L]
  BY DEF Delivering, top
<1>2. L \in 1..Len(stack) /\ DOMAIN stack = 1..Len(stack)
      /\ data \in Seq(Byte) /\ pos \in Nat /\ pos <= Len(data)
  <2>1. L \in Nat \ {0}
    BY <1>1, TopFacts
  <2>. QED
    BY <2>1 DEF Inv, TypeOK, WithinLimits
<1>3. /\ Accounts(L) /\ Outer(L) \in Seq(Byte)
      /\ value \in Encodable((max_depth + 1) - L)
      /\ SubSeq(data, 1, pos) = Outer(L) \o x
  BY <1>1, <1>2, Position
<1>4. x \in Seq(Byte)
  BY <1>3 DEF Encodable
<1>5. SubSeq(data, Len(Outer(L)) + 1, pos) = x
  BY <1>1, DeliveredBytes
<1>6. InLoop(L)
  BY <1>1, <1>2 DEF Loops
<1>7. stack[L].wantsKey /\ stack[L].kind = "map"
  BY <1>1, <1>6 DEF InLoop
<1>8. /\ stack[L].start = Len(Outer(L)) /\ stack[L].previous = LastKey(built[L])
      /\ Len(built[L]) % 2 # 1 /\ built[L] \in Seq(Encodable((max_depth + 1) - L))
  BY <1>3, <1>6, <1>7 DEF Accounts, InLoop
<1>9. keyBytes = x
  BY <1>1, <1>5, <1>8 DEF keyBytes
<1>. QED
  BY <1>1, <1>2, <1>4, <1>5, <1>7, <1>8, <1>9

\* A key that is taken comes after the key before it.
LEMMA KeyTaken ==
  ASSUME Inv, Loops, Accounting, Plausible, TakeKey
  PROVE  LET s == built[Len(stack)] IN
         /\ SubSeq(data, stack[Len(stack)].start + 1, pos) = Encoded(value)
         /\ s # << >> => LexLess(LastKey(s), Encoded(value))
<1>. DEFINE L == Len(stack)
            s == built[L]
            x == Encoded(value)
            f == stack[L].previous
<1>1. Delivering(TRUE) /\ KeyRefusal = "none"
  BY DEF TakeKey
<1>2. /\ top = stack[L] /\ Len(s) % 2 # 1 /\ f = LastKey(s)
      /\ s \in Seq(Encodable((max_depth + 1) - L))
      /\ SubSeq(data, stack[L].start + 1, pos) = x /\ keyBytes = x /\ x \in Seq(Byte)
  BY <1>1, KeyRead
<1>3. f # << >> => x # f /\ ~LexLess(x, f)
  BY <1>1, <1>2 DEF KeyRefusal
<1>4. ASSUME s # << >> PROVE LexLess(LastKey(s), x)
  <2>1. Len(s) \in Nat \ {0} /\ Len(s) - 1 \in 1..Len(s)
    <3>1. Len(s) \in Nat /\ Len(s) # 0
      BY <1>2, <1>4
    <3>2. \A l \in Nat : l # 0 /\ l % 2 # 1 => l - 1 \in 1..l
      OBVIOUS
    <3>. QED
      BY <1>2, <3>1, <3>2
  <2>. DEFINE v == s[Len(s) - 1]
  <2>2. v \in Encodable((max_depth + 1) - L)
    BY <1>2, <2>1
  <2>3. LastKey(s) = Encoded(v)
    BY <1>2, <1>4 DEF LastKey
  <2>4. Encoded(v) \in Seq(Byte) /\ Encoded(v) # << >>
    BY <2>2 DEF Encodable
  <2>5. f \in Seq(Byte) /\ f # << >>
    BY <1>2, <2>3, <2>4
  <2>. HIDE DEF f, x
  <2>6. f \in Seq(Nat) /\ x \in Seq(Nat)
    BY <1>2, <2>5, BytesAreNat
  <2>7. LexLess(f, x) \/ LexLess(x, f)
    BY <1>3, <2>5, <2>6, LexTotal
  <2>. QED
    BY <1>2, <1>3, <2>5, <2>7
<1>. QED
  BY <1>2, <1>4

\* An item goes to the container that asked for it: its bytes follow those of the
\* container, which now include them.
LEMMA TakeKeepsAccount ==
  ASSUME Inv, Inv', Loops, Accounting, TakeKey \/ TakeItem
  PROVE  Accounting'
<1>. DEFINE L == Len(stack)
            m == (max_depth + 1) - L
            s == built[L]
            t == Append(s, value)
<1>1. /\ pc = "deliver" /\ pc' # "deliver" /\ pc' # "done" /\ data' = data /\ pos' = pos
      /\ stack # << >>
  BY DEF TakeKey, TakeItem, Delivering
<1>2. /\ L \in Nat \ {0} /\ Len(stack') = L /\ L \in 1..L
      /\ \A k \in 1..L : k # L => stack'[k] = stack[k] /\ built'[k] = built[k]
      /\ built'[L] = t
      /\ stack'[L].kind = stack[L].kind /\ stack'[L].wantsKey = FALSE
      /\ (stack[L].wantsKey <=> TakeKey)
      /\ Reading(L)
      /\ stack'[L].previous = IF TakeKey THEN SubSeq(data, stack[L].start + 1, pos)
                              ELSE stack[L].previous
  <2>1. L \in Nat \ {0} /\ \A k \in 1..L : Reading(k)
    BY TakeFacts
  <2>2. L \in 1..L
    BY <2>1
  <2>3. Reading(L)
    BY <2>1, <2>2
  <2>. QED
    BY <2>1, <2>2, <2>3, TakeFacts
<1>3. DOMAIN stack = 1..L /\ DOMAIN stack' = 1..L
  <2>1. DOMAIN stack = 1..L /\ DOMAIN stack' = 1..Len(stack')
    BY DEF Inv, TypeOK
  <2>. QED
    BY <1>2, <2>1
<1>4. \A k \in 1..L : Announced(k)' = Announced(k)
  BY TakeKeepsLoops
<1>5. \A k \in 1..L : k # L => Started(k)' = Started(k)
  BY <1>2, <1>4 DEF Started
<1>. SUFFICES ASSUME Plausible' PROVE Account'
  BY <1>1 DEF Accounting
<1>6. Plausible
  BY <1>3, <1>4 DEF Plausible
<1>7. /\ \A k \in 1..L : Accounts(k)
      /\ value \in Encodable(m)
      /\ SubSeq(data, 1, pos) = Outer(L) \o Encoded(value)
  BY <1>1, <1>6, Position
<1>8. Outer(L) = Outer(L - 1) \o Started(L) /\ Started(L) \in Seq(Byte)
      /\ Outer(L - 1) \in Seq(Byte) /\ Announced(L) \in Nat /\ Announced(L) < COUNT_CAP
      /\ \A k \in 1..L : Started(k) \in Seq(Byte)
  <2>1. L - 1 \in 0..L
    BY <1>2
  <2>. QED
    BY <1>2, <1>3, <1>6, <1>7, <2>1, AccountFacts
<1>9. m \in Nat /\ m <= max_depth + 1
  BY <1>2, LevelOf
<1>10. s \in Seq(Encodable(m)) /\ Encoded(value) \in Seq(Byte)
  <2>1. Accounts(L)
    BY <1>2, <1>7
  <2>2. s \in Seq(Encodable(m))
    BY <2>1 DEF Accounts
  <2>3. Encoded(value) \in Seq(Byte)
    BY <1>7 DEF Encodable
  <2>. QED
    BY <2>2, <2>3
<1>11. t \in Seq(Encodable(m)) /\ \A k : k = L => Started(k)' = Started(k) \o Encoded(value)
  <2>. DEFINE n == Announced(L)
              kind == stack[L].kind
  <2>1. n \in Nat /\ n < COUNT_CAP
    BY <1>8
  <2>. HIDE DEF m, n, kind
  <2>2. /\ t \in Seq(Encodable(m))
        /\ StartedAs(kind, n, t) = StartedAs(kind, n, s) \o Encoded(value)
    <3>. DEFINE u == s
    <3>1. u \in Seq(Encodable(m))
      BY <1>10
    <3>. HIDE DEF u
    <3>2. /\ Append(u, value) \in Seq(Encodable(m))
          /\ StartedAs(kind, n, Append(u, value)) = StartedAs(kind, n, u) \o Encoded(value)
      BY <1>7, <1>9, <2>1, <3>1, StartedAppend
    <3>. QED
      BY <3>2 DEF u
  <2>3. Started(L) = StartedAs(kind, n, s)
    BY StartedIs DEF kind, n
  <2>4. \A k : k = L => Started(k)' = StartedAs(kind, n, t)
    <3>. TAKE k
    <3>. HAVE k = L
    <3>1. Started(k)' = StartedAs(stack'[k].kind, Announced(k)', built'[k])
      BY StartedIs
    <3>. QED
      BY <1>2, <1>4, <3>1 DEF kind, n
  <2>. QED
    BY <2>2, <2>3, <2>4
<1>12. \A k : k = L => Outer(k)' = Outer(k) \o Encoded(value)
  <2>. TAKE k
  <2>. HAVE k = L
  <2>. DEFINE i == L - 1
              o == Outer(i)
              x == Encoded(value)
  <2>1. \A j \in 1..L : Started(j)' \in Seq(Byte)
    <3>. TAKE j \in 1..L
    <3>1. CASE j = L
      <4>. DEFINE y == Started(L)
      <4>1. y \in Seq(Byte) /\ x \in Seq(Byte)
        BY <1>8, <1>10
      <4>. HIDE DEF y, x
      <4>2. y \o x \in Seq(Byte)
        BY <4>1, ConcatProperties
      <4>. QED
        BY <1>11, <3>1, <4>2 DEF y, x
    <3>2. CASE j # L
      BY <1>5, <1>8, <3>2
    <3>. QED
      BY <3>1, <3>2
  <2>2. Outer(k)' = Outer(k - 1)' \o Started(k)'
    <3>1. L \in Nat /\ k \in 1..L
      BY <1>2
    <3>. QED
      BY <2>1, <3>1, OuterFactsNext
  <2>3. \A l : l = i => Outer(l)' = Outer(l)
    <3>. TAKE l
    <3>. HAVE l = i
    <3>1. \A j \in 1..l : j \in 1..L /\ j # L
      BY <1>2
    <3>2. \A j \in 1..l : Started(j)' = Started(j)
      BY <1>5, <3>1
    <3>. QED
      BY <3>2, SameOuter
  <2>4. Outer(k)' = o \o (Started(L) \o x)
    <3>. DEFINE l == k - 1
    <3>1. l = i /\ Outer(k)' = Outer(l)' \o Started(k)'
      BY <2>2
    <3>. HIDE DEF l, i
    <3>2. Outer(l)' = Outer(l)
      BY <2>3, <3>1
    <3>. QED
      BY <1>11, <3>1, <3>2
  <2>. DEFINE y == Started(L)
  <2>5. o \in Seq(Byte) /\ y \in Seq(Byte) /\ x \in Seq(Byte) /\ Outer(L) = o \o y
    BY <1>8, <1>10
  <2>. HIDE DEF o, x, y
  <2>6. (o \o y) \o x = o \o (y \o x)
    BY <2>5, ConcatAssociative
  <2>. QED
    BY <2>4, <2>5, <2>6 DEF o, x, y
<1>13. ASSUME NEW k, k = L PROVE Accounts(k)'
  <2>1. Accounts(L) /\ InLoop(L)
    BY <1>1, <1>2, <1>3, <1>7 DEF Loops
  <2>2. ASSUME stack[L].kind = "map"
        PROVE  KeysIncrease(t) /\ stack'[L].previous = LastKey(t)
    <3>1. KeysIncrease(s) /\ stack[L].previous = LastKey(s)
      BY <2>1, <2>2 DEF Accounts
    <3>. DEFINE u == s
                S == Encodable(m)
    <3>2. u \in Seq(S) /\ value \in S /\ KeysIncrease(u)
      BY <1>7, <1>10, <3>1
    <3>. HIDE DEF u, S
    <3>3. /\ Len(u) % 2 = 1 =>
               KeysIncrease(Append(u, value)) /\ LastKey(Append(u, value)) = LastKey(u)
          /\ Len(u) % 2 # 1 /\ (u # << >> => LexLess(LastKey(u), Encoded(value))) =>
               KeysIncrease(Append(u, value)) /\ LastKey(Append(u, value)) = Encoded(value)
      BY <3>2, KeysAppend
    <3>4. CASE TakeKey
      <4>1. /\ SubSeq(data, stack[L].start + 1, pos) = Encoded(value)
            /\ s # << >> => LexLess(LastKey(s), Encoded(value))
        BY <1>6, <3>4, KeyTaken
      <4>2. Len(s) % 2 # 1
        BY <1>2, <2>1, <2>2, <3>4 DEF InLoop
      <4>. QED
        BY <1>2, <3>3, <3>4, <4>1, <4>2 DEF u
    <3>5. CASE ~TakeKey
      <4>1. Len(s) % 2 = 1
        BY <1>2, <2>1, <2>2, <3>5 DEF InLoop
      <4>. QED
        BY <1>2, <3>1, <3>3, <3>5, <4>1 DEF u
    <3>. QED
      BY <3>4, <3>5
  <2>. QED
    BY <1>2, <1>11, <1>13, <2>2 DEF Accounts
<1>14. ASSUME NEW k \in 1..L, k # L PROVE Accounts(k)'
  <2>1. \A j \in 1..k : j \in 1..L /\ j # L
    BY <1>2, <1>14
  <2>2. \A j \in 1..k : Started(j)' = Started(j)
    BY <1>5, <2>1
  <2>. QED
    BY <1>2, <1>7, <1>14, <2>2, KeepsAccounts
<1>15. \A k \in DOMAIN stack' : Accounts(k)'
  BY <1>3, <1>13, <1>14
<1>16. Outer(Len(stack))' = Outer(L) \o Encoded(value)
  BY <1>2, <1>12
<1>17. Outer(Len(stack))' \o << >> = Outer(Len(stack))'
  <2>. DEFINE y == Outer(L)
              x == Encoded(value)
  <2>1. y \in Seq(Byte) /\ x \in Seq(Byte)
    BY <1>1, <1>6, <1>10, Position
  <2>. HIDE DEF y, x
  <2>2. y \o x \in Seq(Byte)
    BY <2>1, ConcatProperties
  <2>3. (y \o x) \o << >> = y \o x
    BY <2>2, ConcatEmptySeq
  <2>. QED
    BY <1>16, <2>3 DEF x, y
<1>18. SubSeq(data', 1, pos') = Outer(Len(stack))' \o << >>
  BY <1>1, <1>7, <1>16, <1>17
<1>. QED
  BY <1>1, <1>15, <1>18 DEF Account

\* The inductive invariant behind BytesAccountedFor.
AccountInv == Inv /\ data \in Inputs /\ Loops /\ Accounting

\* What decode returns nests no deeper than the caller allows, and the encoder
\* makes the input of it.
ReturnsReencode ==
  pc = "done" /\ verdict = "none" =>
    value \in DOMAIN EncodeTo[max_depth + 1] /\ Encoded(value) = data

\* What CoseEnvelope assumes of the decoder it calls with this depth.
EnvelopeContract ==
  pc = "done" /\ verdict = "none" /\ max_depth = 3 =>
    value \in ValuesOf(ValuesOf(ValuesOf(ValuesOf({})))) /\ EncodeTo[4][value] = data

\* Before the first byte there is nothing to account for.
LEMMA InitAccounting == Init => Loops /\ Accounting
<1>. SUFFICES ASSUME Init PROVE Loops /\ Accounting
  OBVIOUS
<1>1. pc = "item" /\ stack = << >> /\ pos = 0 /\ data \in Seq(Byte)
  BY DecoderAssumption DEF Init
<1>2. Loops
  BY <1>1 DEF Loops
<1>3. SubSeq(data, 1, 0) = << >>
  BY <1>1
<1>4. Outer(Len(stack)) = << >>
  <2>1. [ j \in 1..0 |-> Started(j) ] = << >>
    OBVIOUS
  <2>2. Len(stack) = 0
    BY <1>1
  <2>. QED
    BY <2>1, <2>2, FlattenEmpty DEF Outer
<1>5. << >> \o << >> = << >>
  OBVIOUS
<1>6. Account
  <2>1. \A k \in DOMAIN stack : Accounts(k)
    BY <1>1
  <2>. DEFINE o == Outer(Len(stack))
  <2>2. o = << >>
    BY <1>4
  <2>. HIDE DEF o
  <2>3. SubSeq(data, 1, pos) = o \o << >>
    BY <1>1, <1>3, <1>5, <2>2
  <2>. QED
    BY <1>1, <2>1, <2>3 DEF Account, o
<1>. QED
  BY <1>1, <1>2, <1>6 DEF Accounting

\* decode returns when every byte has been read: what it returns encodes to all of them.
LEMMA ReturnKeepsAccount ==
  ASSUME Inv, Loops, Accounting, ReturnValue
  PROVE  Loops' /\ Accounting'
<1>1. /\ pc = "deliver" /\ pc' = "done" /\ stack = << >> /\ pos = Len(data)
      /\ data' = data /\ value' = value
  BY DEF ReturnValue
<1>2. Plausible
  BY <1>1 DEF Plausible
<1>3. value \in Encodable((max_depth + 1) - Len(stack))
      /\ SubSeq(data, 1, pos) = Outer(Len(stack)) \o Encoded(value)
  BY <1>1, <1>2, Position
<1>4. Len(stack) = 0 /\ (max_depth + 1) - 0 = max_depth + 1
  BY <1>1, DecoderAssumption
<1>5. value \in DOMAIN EncodeTo[max_depth + 1] /\ Encoded(value) \in Seq(Byte)
  BY <1>3, <1>4 DEF Encodable
<1>6. Outer(Len(stack)) = << >>
  <2>1. [ j \in 1..0 |-> Started(j) ] = << >>
    OBVIOUS
  <2>. QED
    BY <1>4, <2>1, FlattenEmpty DEF Outer
<1>7. SubSeq(data, 1, Len(data)) = data
  <2>1. data \in Seq(Byte)
    BY DEF Inv, TypeOK
  <2>. QED
    BY <2>1
<1>8. << >> \o Encoded(value) = Encoded(value)
  BY <1>5, ConcatEmptySeq
<1>9. Encoded(value) = data
  BY <1>1, <1>3, <1>6, <1>7, <1>8
<1>. QED
  BY <1>1, <1>5, <1>9 DEF Loops, Accounting

\* Every action keeps the account.
LEMMA NextAccounting ==
  ASSUME Inv, Inv', data \in Inputs, Loops, Accounting, [Next]_vars
  PROVE  data' \in Inputs /\ Loops' /\ Accounting'
<1>0. CASE ReadSimple \/ ReadInteger \/ ReadString
  <2>1. data' = data
    BY <1>0 DEF ReadSimple, ReadInteger, ReadString, Deliver
  <2>. QED
    BY <1>0, <2>1, ReadKeepsAccount
<1>1. CASE Refusals
  <2>1. PICK code \in Codes : code # "none" /\ Raise(code)
    BY <1>1, RefusalRaises
  <2>2. pc' = "done" /\ verdict' # "none" /\ data' = data
    BY <2>1 DEF Raise
  <2>. QED
    BY <2>2 DEF Loops, Accounting
<1>2. CASE OpenContainer
  <2>1. data' = data
    BY <1>2 DEF OpenContainer
  <2>. QED
    BY <1>2, <2>1, OpenKeepsLoops, OpenKeepsAccount
<1>3. CASE CountMember
  <2>1. data' = data
    BY <1>3 DEF CountMember
  <2>. QED
    BY <1>3, <2>1, CountKeepsLoops, CountKeepsAccount
<1>4. CASE CloseContainer
  <2>1. data' = data
    BY <1>4 DEF CloseContainer
  <2>. QED
    BY <1>4, <2>1, CloseKeepsLoops, CloseKeepsAccount
<1>5. CASE TakeKey \/ TakeItem
  <2>1. data' = data
    BY <1>5 DEF TakeKey, TakeItem
  <2>. QED
    BY <1>5, <2>1, TakeKeepsLoops, TakeKeepsAccount
<1>6. CASE ReturnValue
  <2>1. data' = data
    BY <1>6 DEF ReturnValue
  <2>. QED
    BY <1>6, <2>1, ReturnKeepsAccount
<1>7. CASE UNCHANGED vars
  <2>1. /\ data' = data /\ pos' = pos /\ members' = members /\ stack' = stack
        /\ built' = built /\ pc' = pc /\ value' = value /\ verdict' = verdict
    BY <1>7 DEF vars
  <2>2. \A k : /\ Reading(k)' <=> Reading(k)
               /\ Announced(k)' = Announced(k)
               /\ Underway(k)' = Underway(k)
               /\ Started(k)' = Started(k)
    <3>1. \A k : Reading(k)' <=> Reading(k)
      BY <2>1 DEF Reading
    <3>. QED
      BY <2>1, <3>1, SameContainer
  <2>3. Loops'
    BY <2>1, <2>2 DEF Loops, InLoop
  <2>4. \A k : Outer(k)' = Outer(k)
    BY <2>2, SameOuter
  <2>5. \A k : Accounts(k)' <=> Accounts(k)
    BY <2>1, <2>4 DEF Accounts
  <2>6. \A k : k = Len(stack)' => Outer(k)' = Outer(Len(stack))
    BY <2>1, <2>4
  <2>7. Outer(Len(stack))' = Outer(Len(stack))
    BY <2>6
  <2>8. Account' <=> Account
    BY <2>1, <2>5, <2>7 DEF Account
  <2>9. Plausible' <=> Plausible
    BY <2>1, <2>2 DEF Plausible
  <2>. QED
    BY <2>1, <2>3, <2>8, <2>9 DEF Accounting
<1>. QED
  BY <1>0, <1>1, <1>2, <1>3, <1>4, <1>5, <1>6, <1>7 DEF Next, Refusals

----------------------------------------------------------------------------
(* The theorems about bytes.                                               *)

\* At every moment each open container has its place in its loop and the bytes
\* read are those of what has been built, with its keys in order.
THEOREM AccountInvariant == Spec => []AccountInv
<1>1. Init => AccountInv
  BY InitInv, InitAccounting DEF Init, AccountInv
<1>2. AccountInv /\ Inv' /\ [Next]_vars => AccountInv'
  BY NextAccounting DEF AccountInv
<1>. QED
  BY <1>1, <1>2, DecoderInvariant, PTL DEF Spec

\* No input is read in two ways and none is read but the one the encoder makes:
\* BytesAccountedFor, for every set of inputs and every limits.
THEOREM EveryByteAccountedFor == Spec => []BytesAccountedFor
<1>1. AccountInv => BytesAccountedFor
  <2>. SUFFICES ASSUME AccountInv PROVE BytesAccountedFor
    OBVIOUS
  <2>1. Inv /\ Accounting
    BY DEF AccountInv
  <2>2. Outer(Len(stack)) = FlattenSeq([ k \in DOMAIN stack |-> Started(k) ])
    <3>1. DOMAIN stack = 1..Len(stack)
      BY <2>1 DEF Inv, TypeOK
    <3>. QED
      BY <3>1 DEF Outer
  <2>. QED
    BY <2>1, <2>2 DEF Accounting, Account, Plausible, BytesAccountedFor
<1>. QED
  BY <1>1, AccountInvariant, PTL

\* decode has one input for each value: two inputs for which it returns the same
\* value are the same bytes.
THEOREM ReturnedValueIsEncoded == Spec => []ReturnsReencode
<1>1. AccountInv => ReturnsReencode
  BY DEF AccountInv, Accounting, ReturnsReencode
<1>. QED
  BY <1>1, AccountInvariant, PTL

\* So decode is a decoder as parse_envelope needs it: what CoseEnvelope assumes of
\* Decodings holds of it, for every input.
THEOREM EnvelopeContractHolds == Spec => []EnvelopeContract
<1>1. ReturnsReencode => EnvelopeContract
  <2>1. \A n \in Nat : DOMAIN EncodeTo[n + 1] = ValuesOf(DOMAIN EncodeTo[n])
    BY EncodeToIs DEF NextLevel
  <2>2. DOMAIN EncodeTo[0] = {}
    BY EncodeToIs
  <2>3. /\ DOMAIN EncodeTo[1] = ValuesOf(DOMAIN EncodeTo[0])
        /\ DOMAIN EncodeTo[2] = ValuesOf(DOMAIN EncodeTo[1])
        /\ DOMAIN EncodeTo[3] = ValuesOf(DOMAIN EncodeTo[2])
        /\ DOMAIN EncodeTo[4] = ValuesOf(DOMAIN EncodeTo[3])
    <3>1. 0 + 1 = 1 /\ 1 + 1 = 2 /\ 2 + 1 = 3 /\ 3 + 1 = 4
      OBVIOUS
    <3>. QED
      BY <2>1, <3>1
  <2>4. max_depth = 3 => max_depth + 1 = 4
    OBVIOUS
  <2>. QED
    BY <2>2, <2>3, <2>4 DEF ReturnsReencode, EnvelopeContract, Encoded
<1>. QED
  BY <1>1, ReturnedValueIsEncoded, PTL

----------------------------------------------------------------------------
(* Valid values.                                                           *)

\* The members of an array or a map, the bytes of a string.
Size(v) == IF v[1] = "map" THEN Len(v[2]) \div 2 ELSE Len(v[2])

\* What can be the keys of a dict: no container is, and no two of them are one to
\* Python.
DictKeys(s) ==
  \A k \in DOMAIN s : k % 2 = 1 =>
    /\ ~IsContainer(s[k])
    /\ \A j \in DOMAIN s : j % 2 = 1 /\ j < k => DictKey(s[j]) # DictKey(s[k])

\* What the profile asks of a value, whatever its items: arguments without leading
\* zeros, sizes the model tells apart, text that is UTF-8, simple values that are
\* assigned a meaning or could be, and maps with their keys in order.
Sound(v) ==
  /\ v[1] \in { "uint", "nint" } => (v[2] # << >> => v[2][1] # 0)
  /\ v[1] \in { "bytes", "text", "array", "map" } => Size(v) < COUNT_CAP
  /\ v[1] = "text"   => IsUtf8(v[2])
  /\ v[1] = "simple" => v[2] \in 0..22 \cup 32..255
  /\ v[1] = "map"    => Len(v[2]) % 2 # 1 /\ KeysIncrease(v[2]) /\ DictKeys(v[2])

\* Families of sets of values such that those in V[d] are sound and have their items
\* in V[d - 1].
Nested(V) ==
  \A d \in 0..max_depth : \A v \in V[d] :
    Sound(v) /\ (IsContainer(v) => d # 0 /\ v[2] \in Seq(V[d - 1]))

\* There are several.
Families == { V \in [ 0..max_depth -> SUBSET DOMAIN EncodeTo[max_depth + 1] ] : Nested(V) }

\* The values that are sound, with everything in them, and have at most d containers
\* on the way into them: the union of all such families.
Valid(d) == UNION { V[d] : V \in Families }

\* What a valid value is made of.
LEMMA ValidIs ==
  ASSUME NEW d \in 0..max_depth, NEW v \in Valid(d)
  PROVE  /\ v \in DOMAIN EncodeTo[max_depth + 1] /\ Sound(v)
         /\ IsContainer(v) => d # 0 /\ d - 1 \in 0..max_depth /\ v[2] \in Seq(Valid(d - 1))
<1>1. PICK V \in Families : v \in V[d]
  BY DEF Valid
<1>2. V \in [ 0..max_depth -> SUBSET DOMAIN EncodeTo[max_depth + 1] ] /\ Nested(V)
  BY DEF Families
<1>3. Sound(v) /\ (IsContainer(v) => d # 0 /\ v[2] \in Seq(V[d - 1]))
  BY <1>1, <1>2 DEF Nested
<1>4. V[d - 1] \subseteq Valid(d - 1)
  BY DEF Valid
<1>5. Seq(V[d - 1]) \subseteq Seq(Valid(d - 1))
  BY <1>4
<1>6. d # 0 => d - 1 \in 0..max_depth
  BY DecoderAssumption
<1>. QED
  BY <1>1, <1>2, <1>3, <1>5, <1>6

\* And what makes one.
LEMMA ValidHas ==
  ASSUME NEW d \in 0..max_depth, NEW v \in DOMAIN EncodeTo[max_depth + 1], Sound(v),
         IsContainer(v) => d # 0 /\ v[2] \in Seq(Valid(d - 1))
  PROVE  v \in Valid(d)
<1>. DEFINE V == [ e \in 0..max_depth |-> Valid(e) \cup (IF e = d THEN { v } ELSE {}) ]
<1>1. \A e \in 0..max_depth : V[e] = Valid(e) \cup (IF e = d THEN { v } ELSE {})
  OBVIOUS
<1>2. \A e \in 0..max_depth :
        Valid(e) \subseteq V[e] /\ \A u \in V[e] : u \in Valid(e) \/ (e = d /\ u = v)
  <2>. HIDE DEF V
  <2>. QED
    BY <1>1
<1>3. V \in [ 0..max_depth -> SUBSET DOMAIN EncodeTo[max_depth + 1] ]
  <2>1. \A e \in 0..max_depth : Valid(e) \subseteq DOMAIN EncodeTo[max_depth + 1]
    BY ValidIs
  <2>. QED
    BY <2>1
<1>4. v \in V[d]
  BY <1>1
<1>5. ASSUME NEW e \in 0..max_depth, NEW u \in V[e]
      PROVE  Sound(u) /\ (IsContainer(u) => e # 0 /\ u[2] \in Seq(V[e - 1]))
  <2>1. Sound(u) /\ (IsContainer(u) => e # 0 /\ u[2] \in Seq(Valid(e - 1)))
    <3>1. CASE u \in Valid(e)
      BY <3>1, ValidIs
    <3>2. CASE e = d /\ u = v
      BY <3>2
    <3>. QED
      BY <1>2, <3>1, <3>2
  <2>2. e # 0 => e - 1 \in 0..max_depth
    BY DecoderAssumption
  <2>3. e # 0 => Seq(Valid(e - 1)) \subseteq Seq(V[e - 1])
    BY <1>2, <2>2
  <2>. QED
    BY <2>1, <2>3
<1>. HIDE DEF V
<1>6. Nested(V)
  BY <1>5 DEF Nested
<1>. QED
  BY <1>3, <1>4, <1>6 DEF Families, Valid

\* The encoding of a valid value without items is a byte string.
LEMMA LeafIsBytes ==
  ASSUME NEW S, NEW v \in ValuesOf(S), ~IsContainer(v), Sound(v), NEW e
  PROVE  EncodeItem(v, e) \in Seq(Byte) /\ EncodeItem(v, e) # << >>
<1>1. v = << v[1], v[2] >>
  BY DEF ValuesOf
<1>2. CASE v[1] \in { "uint", "nint" }
  <2>1. v[2] \in Seq(Byte) /\ Len(v[2]) <= 8
    BY <1>2 DEF ValuesOf
  <2>2. EncodeItem(v, e) = EncodeHead(IF v[1] = "uint" THEN 0 ELSE 1, v[2])
    BY <1>2 DEF EncodeItem
  <2>3. (IF v[1] = "uint" THEN 0 ELSE 1) \in 0..7
    OBVIOUS
  <2>. QED
    BY <2>1, <2>2, <2>3, EncodeHeadType
<1>3. CASE v[1] \in { "bytes", "text" }
  <2>. DEFINE m == IF v[1] = "bytes" THEN 2 ELSE 3
              n == Len(v[2])
  <2>1. v[2] \in Seq(Byte)
    BY <1>3 DEF ValuesOf
  <2>2. n \in Nat /\ n < COUNT_CAP
    <3>1. n \in Nat
      BY <2>1, LenProperties
    <3>2. Size(v) = n /\ Size(v) < COUNT_CAP
      <4>1. v[1] \in { "bytes", "text", "array", "map" } /\ v[1] # "map"
        BY <1>3
      <4>2. Size(v) = n
        BY <4>1 DEF Size
      <4>. QED
        BY <4>1, <4>2 DEF Sound
    <3>. QED
      BY <3>1, <3>2
  <2>3. EncodeItem(v, e) = EncodeHead(m, LengthDigits(n)) \o v[2]
    BY <1>3 DEF EncodeItem
  <2>4. m \in 0..7
    OBVIOUS
  <2>. HIDE DEF m, n
  <2>5. LengthDigits(n) \in Seq(Byte) /\ Len(LengthDigits(n)) <= 8
    <3>1. LengthDigits(n) \in Seq(Byte) /\ Len(LengthDigits(n)) <= 2
      BY <2>2, LengthDigitsType
    <3>2. Len(LengthDigits(n)) \in Nat
      BY <3>1, LenProperties
    <3>. QED
      BY <3>1, <3>2
  <2>6. EncodeHead(m, LengthDigits(n)) \in Seq(Byte) /\ EncodeHead(m, LengthDigits(n)) # << >>
    BY <2>4, <2>5, EncodeHeadType
  <2>. DEFINE h == EncodeHead(m, LengthDigits(n))
  <2>. HIDE DEF h
  <2>7. h \o v[2] \in Seq(Byte) /\ h \o v[2] # << >>
    <3>1. h \in Seq(Byte) /\ h # << >>
      BY <2>6 DEF h
    <3>2. h \o v[2] \in Seq(Byte) /\ Len(h \o v[2]) = Len(h) + Len(v[2])
      BY <2>1, <3>1, ConcatProperties
    <3>3. Len(h) \in Nat /\ Len(h) # 0 /\ Len(v[2]) \in Nat /\ Len(<< >>) = 0
      BY <2>1, <3>1
    <3>. QED
      BY <3>2, <3>3
  <2>. QED
    BY <2>3, <2>7 DEF h
<1>4. CASE v[1] = "simple"
  <2>1. v[2] \in 0..22 \cup 32..255
    BY <1>4 DEF Sound
  <2>2. EncodeItem(v, e) = IF v[2] < 24 THEN << 224 + v[2] >> ELSE << 248, v[2] >>
    BY <1>4 DEF EncodeItem
  <2>3. CASE v[2] \in 0..22
    <3>1. 224 + v[2] \in Byte /\ v[2] < 24
      BY <2>3 DEF Byte
    <3>2. << 224 + v[2] >> \in Seq(Byte) /\ << 224 + v[2] >> # << >>
      BY <3>1
    <3>. QED
      BY <2>2, <3>1, <3>2
  <2>4. CASE v[2] \in 32..255
    <3>1. 248 \in Byte /\ v[2] \in Byte /\ ~(v[2] < 24)
      BY <2>4 DEF Byte
    <3>2. << 248, v[2] >> \in Seq(Byte) /\ << 248, v[2] >> # << >>
      BY <3>1
    <3>. QED
      BY <2>2, <3>1, <3>2
  <2>. QED
    BY <2>1, <2>3, <2>4
<1>. QED
  BY <1>2, <1>3, <1>4 DEF ValuesOf, IsContainer

\* What a valid value without items encodes to,
LEMMA ValidLeaf ==
  ASSUME NEW e \in 0..max_depth, NEW v \in Valid(e), ~IsContainer(v)
  PROVE  /\ v \in Encodable(e + 1)
         /\ v \in ValuesOf({}) /\ Encoded(v) = EncodeItem(v, EncodeTo[e])
<1>0. max_depth \in Nat
  BY DecoderAssumption
<1>1. v \in DOMAIN EncodeTo[max_depth + 1] /\ Sound(v)
  BY ValidIs
<1>2. v \in ValuesOf(DOMAIN EncodeTo[max_depth])
  BY <1>0, <1>1, EncodeToIs DEF NextLevel
<1>3. v \in ValuesOf(DOMAIN EncodeTo[e]) /\ v \in ValuesOf({})
  BY <1>2 DEF ValuesOf, IsContainer
<1>4. EncodeItem(v, EncodeTo[e]) \in Seq(Byte) /\ EncodeItem(v, EncodeTo[e]) # << >>
  BY <1>1, <1>3, LeafIsBytes
<1>5. e \in Nat /\ e <= max_depth
  BY <1>0
<1>. QED
  BY <1>3, <1>4, <1>5, ValueIsEncodable

\* and one with items.
LEMMA ValidContainer ==
  ASSUME NEW e \in 0..max_depth, NEW v \in Valid(e), IsContainer(v),
         Valid(e - 1) \subseteq Encodable((e - 1) + 1)
  PROVE  /\ v \in Encodable(e + 1) /\ v[2] \in Seq(Encodable(e))
         /\ v = << v[1], v[2] >> /\ Size(v) \in Nat /\ Size(v) < COUNT_CAP
         /\ Encoded(v) = StartedAs(v[1], Size(v), v[2])
<1>1. v \in DOMAIN EncodeTo[max_depth + 1] /\ Sound(v) /\ e # 0
      /\ e - 1 \in 0..max_depth /\ v[2] \in Seq(Valid(e - 1))
  BY ValidIs
<1>2. e \in Nat /\ e <= max_depth /\ (e - 1) + 1 = e /\ e <= max_depth + 1
  BY DecoderAssumption
<1>3. v[2] \in Seq(Encodable(e))
  BY <1>1, <1>2
<1>4. v = << v[1], v[2] >> /\ v[1] \in { "array", "map" }
  <2>1. v \in ValuesOf(DOMAIN EncodeTo[max_depth])
    BY <1>1, DecoderAssumption, EncodeToIs DEF NextLevel
  <2>. QED
    BY <2>1 DEF ValuesOf, IsContainer
<1>5. v[1] = "map" => Len(v[2]) % 2 # 1 /\ KeysIncrease(v[2])
  BY <1>1 DEF Sound
<1>6. v \in ValuesOf(DOMAIN EncodeTo[e])
      /\ EncodeItem(v, EncodeTo[e]) = StartedAs(v[1], Size(v), v[2])
  <2>. DEFINE kind == v[1]
              s == v[2]
  <2>1. kind \in { "array", "map" } /\ s \in Seq(Encodable(e)) /\ v = << kind, s >>
        /\ (kind = "map" => Len(s) % 2 # 1 /\ KeysIncrease(s))
    BY <1>3, <1>4, <1>5
  <2>2. Size(v) = IF kind = "array" THEN Len(s) ELSE Len(s) \div 2
    BY <2>1 DEF Size
  <2>. HIDE DEF kind, s
  <2>3. /\ << kind, s >> \in ValuesOf(DOMAIN EncodeTo[e])
        /\ EncodeItem(<< kind, s >>, EncodeTo[e])
             = StartedAs(kind, IF kind = "array" THEN Len(s) ELSE Len(s) \div 2, s)
    BY <1>2, <2>1, ContainerEncodes
  <2>4. v \in ValuesOf(DOMAIN EncodeTo[e]) /\ EncodeItem(v, EncodeTo[e]) = StartedAs(kind, Size(v), s)
    BY <2>1, <2>2, <2>3
  <2>. QED
    BY <2>4 DEF kind, s
<1>7. Size(v) \in Nat /\ Size(v) < COUNT_CAP
  <2>1. Len(v[2]) \in Nat
    BY <1>3
  <2>2. \A l \in Nat : l \div 2 \in Nat
    OBVIOUS
  <2>. QED
    BY <1>1, <1>4, <2>1, <2>2 DEF Sound, Size
<1>8. EncodeItem(v, EncodeTo[e]) \in Seq(Byte) /\ EncodeItem(v, EncodeTo[e]) # << >>
  BY <1>2, <1>3, <1>6, <1>7, StartedIsBytes
<1>. QED
  BY <1>2, <1>3, <1>4, <1>6, <1>7, <1>8, ValueIsEncodable

\* A valid value is encodable one level above its depth.
LEMMA ValidIsEncodable ==
  ASSUME NEW d \in 0..max_depth
  PROVE  Valid(d) \subseteq Encodable(d + 1)
<1>. DEFINE D == { e \in Nat : e \in 0..max_depth => Valid(e) \subseteq Encodable(e + 1) }
<1>0. max_depth \in Nat
  BY DecoderAssumption
<1>1. ASSUME NEW e \in 0..max_depth, NEW v \in Valid(e), ~IsContainer(v)
      PROVE  v \in Encodable(e + 1)
  BY <1>1, ValidLeaf
<1>2. ASSUME NEW e \in 0..max_depth, NEW v \in Valid(e), IsContainer(v),
             e # 0 => Valid(e - 1) \subseteq Encodable((e - 1) + 1)
      PROVE  v \in Encodable(e + 1)
  <2>1. e # 0
    BY <1>2, ValidIs
  <2>. QED
    BY <1>2, <2>1, ValidContainer
<1>3. 0 \in D
  BY <1>1, <1>2
<1>4. ASSUME NEW e \in D PROVE e + 1 \in D
  <2>1. e \in Nat /\ e + 1 \in Nat /\ (e + 1) - 1 = e
    OBVIOUS
  <2>2. ASSUME e + 1 \in 0..max_depth PROVE Valid(e + 1) \subseteq Encodable((e + 1) + 1)
    <3>1. e \in 0..max_depth
      BY <1>0, <2>1, <2>2
    <3>2. Valid(e) \subseteq Encodable(e + 1)
      BY <3>1
    <3>. DEFINE f == e + 1
    <3>3. f \in 0..max_depth /\ f - 1 = e
      BY <2>1, <2>2
    <3>. HIDE DEF f
    <3>4. f # 0 => Valid(f - 1) \subseteq Encodable((f - 1) + 1)
      BY <3>2, <3>3
    <3>5. \A v \in Valid(f) : v \in Encodable(f + 1)
      BY <1>1, <1>2, <3>3, <3>4
    <3>. QED
      BY <3>5 DEF f
  <2>. QED
    BY <2>1, <2>2
<1>5. D = Nat
  <2>. HIDE DEF D
  <2>1. D \in SUBSET Nat
    BY DEF D
  <2>. QED
    BY <1>3, <1>4, <2>1, EveryNatural
<1>. QED
  BY <1>0, <1>5

\* What a valid value encodes to.
LEMMA ValidEncodes ==
  ASSUME NEW d \in 0..max_depth, NEW v \in Valid(d)
  PROVE  /\ Encoded(v) \in Seq(Byte)
         /\ ~IsContainer(v) => v \in ValuesOf({}) /\ Encoded(v) = EncodeItem(v, EncodeTo[d])
         /\ IsContainer(v) =>
              /\ v[2] \in Seq(Encodable(d)) /\ v = << v[1], v[2] >>
              /\ Size(v) \in Nat /\ Size(v) < COUNT_CAP
              /\ Encoded(v) = StartedAs(v[1], Size(v), v[2])
<1>1. v \in Encodable(d + 1)
  BY ValidIsEncodable
<1>2. Encoded(v) \in Seq(Byte)
  BY <1>1 DEF Encodable
<1>3. CASE IsContainer(v)
  <2>1. d - 1 \in 0..max_depth
    BY <1>3, ValidIs
  <2>2. Valid(d - 1) \subseteq Encodable((d - 1) + 1)
    <3>. DEFINE e == d - 1
    <3>1. e \in 0..max_depth
      BY <2>1
    <3>. HIDE DEF e
    <3>2. Valid(e) \subseteq Encodable(e + 1)
      BY <3>1, ValidIsEncodable
    <3>. QED
      BY <3>2 DEF e
  <2>. QED
    BY <1>2, <1>3, <2>2, ValidContainer
<1>. QED
  BY <1>2, <1>3, ValidLeaf

----------------------------------------------------------------------------
(* What decode builds is valid.                                            *)

\* The items of the k-th container are valid, the keys of a map are those of a dict.
ItemsAreValid(k) ==
  /\ built[k] \in Seq(Valid(max_depth - k))
  /\ stack[k].kind = "map" => DictKeys(built[k])

\* Of every open container, and of the value that is delivered.
ValidSoFar ==
  /\ \A k \in DOMAIN stack : ItemsAreValid(k)
  /\ pc = "deliver" => value \in Valid(max_depth - Len(stack))

\* So is everything, while decode_item is at work, if the containers are plausible;
\* and a value that decode returns, in any case.
Validity ==
  /\ pc # "done" /\ Plausible => ValidSoFar
  /\ pc = "done" /\ verdict = "none" => value \in Valid(max_depth)

\* A value without items that is read and is sound.
LEMMA LeafIsValid ==
  ASSUME Inv, NEW v \in Encodable((max_depth + 1) - Len(stack)), Sound(v), ~IsContainer(v)
  PROVE  v \in Valid(max_depth - Len(stack))
<1>. DEFINE d == max_depth - Len(stack)
<1>1. /\ d \in Nat /\ d <= max_depth /\ d + 1 = (max_depth + 1) - Len(stack)
      /\ max_depth \in Nat
  BY DepthLeft
<1>. HIDE DEF d
<1>2. v \in Encodable(d + 1) /\ d + 1 \in Nat /\ d + 1 <= max_depth + 1 /\ max_depth + 1 \in Nat
  BY <1>1
<1>3. v \in DOMAIN EncodeTo[d + 1]
  BY <1>2 DEF Encodable
<1>4. v \in DOMAIN EncodeTo[max_depth + 1]
  <2>1. Extends(EncodeTo[d + 1], EncodeTo[max_depth + 1])
    BY <1>2, LevelsExtend
  <2>. QED
    BY <1>3, <2>1 DEF Extends
<1>5. d \in 0..max_depth
  BY <1>1
<1>6. v \in Valid(d)
  BY <1>4, <1>5, ValidHas
<1>. QED
  BY <1>6 DEF d

\* What is read is sound.
LEMMA ReadIsSound ==
  ASSUME Inv, data \in Inputs, ReadSimple \/ ReadInteger \/ ReadString
  PROVE  Sound(value') /\ ~IsContainer(value')
<1>1. CASE ReadSimple
  <2>1. /\ data \in Seq(Byte) /\ pos \in Nat /\ Len(data) \in Nat /\ ai \in 0..31
    BY <1>1, InitialByte DEF Inv, ReadSimple
  <2>2. IsSimple
    BY <1>1 DEF ReadSimple
  <2>3. CASE ai = 24
    <3>. DEFINE w == data[pos + 2]
    <3>1. value' = << "simple", w >>
      BY <1>1, <2>3 DEF ReadSimple, Deliver
    <3>2. pos + 2 <= Len(data) /\ w >= 32
      BY <2>2, <2>3 DEF IsSimple, Has
    <3>3. pos + 2 \in 1..Len(data)
      BY <2>1, <3>2
    <3>4. w \in 0..255
      BY <2>1, <3>3, DigitIs
    <3>5. w \in 32..255
      <4>1. \A b \in 0..255 : b >= 32 => b \in 32..255
        OBVIOUS
      <4>. QED
        BY <3>2, <3>4, <4>1
    <3>. HIDE DEF w
    <3>. QED
      BY <3>1, <3>5 DEF Sound, IsContainer
  <2>4. CASE ai # 24
    <3>1. value' = << "simple", ai >> /\ ai <= 22
      BY <1>1, <2>2, <2>4 DEF ReadSimple, Deliver, IsSimple
    <3>. DEFINE w == ai
    <3>2. w \in 0..22
      BY <2>1, <3>1
    <3>. HIDE DEF w
    <3>3. value' = << "simple", w >>
      BY <3>1 DEF w
    <3>. QED
      BY <3>2, <3>3 DEF Sound, IsContainer
  <2>. QED
    BY <2>3, <2>4
<1>2. CASE ReadInteger
  <2>1. TypeOK /\ Has(1) /\ IsHead
    BY <1>2 DEF Inv, ReadInteger, AtHead
  <2>2. argument \in Seq(Byte) /\ (Len(argument) # 0 => argument[1] # 0)
    BY <2>1, HeadIsEncoded
  <2>3. value' = << IF major = 0 THEN "uint" ELSE "nint", argument >>
    BY <1>2 DEF ReadInteger, Deliver
  <2>. DEFINE a == argument
              t == IF major = 0 THEN "uint" ELSE "nint"
  <2>4. a # << >> => a[1] # 0
    <3>1. a # << >> => Len(a) # 0
      BY <2>2
    <3>. QED
      BY <2>2, <3>1
  <2>5. value' = << t, a >> /\ t \in { "uint", "nint" }
    BY <2>3
  <2>. HIDE DEF a, t
  <2>. QED
    BY <2>4, <2>5 DEF Sound, IsContainer
<1>3. CASE ReadString
  <2>1. /\ TypeOK /\ Has(1) /\ IsHead /\ pos \in Nat /\ data \in Seq(Byte)
        /\ major = 2 \/ major = 3
        /\ IsString
    BY <1>3 DEF Inv, TypeOK, ReadString, AtHead
  <2>2. argument \in Seq(Byte) /\ headSize \in Nat \ {0} /\ pos + headSize <= Len(data)
    BY <2>1, HeadIsEncoded
  <2>3. length \in Nat
    BY <2>2, CountNat DEF length
  <2>4. pos + headSize + length <= Len(data) /\ Len(data) \in Nat
    BY <2>1, <2>2, <2>3 DEF IsString, Has
  <2>. DEFINE t == IF major = 2 THEN "bytes" ELSE "text"
              s == string
              a == pos + headSize
  <2>5. value' = << t, s >> /\ t \in { "bytes", "text" }
    BY <1>3 DEF ReadString, Deliver
  <2>6. t = "text" => IsUtf8(s)
    BY <2>1 DEF IsString
  <2>7. Len(s) = length
    <3>1. /\ a \in Nat /\ a + length \in Nat /\ a <= a + length /\ a + length <= Len(data)
          /\ (a + length) - a = length
      BY <2>1, <2>2, <2>3, <2>4
    <3>2. s = SubSeq(data, a + 1, a + length)
      BY DEF string
    <3>. HIDE DEF a, s
    <3>. QED
      BY <2>1, <3>1, <3>2, Slice
  <2>8. Len(s) < COUNT_CAP
    <3>1. Len(data) < COUNT_CAP
      BY DecoderAssumption
    <3>. QED
      BY <2>1, <2>2, <2>3, <2>4, <2>7, <3>1 DEF COUNT_CAP
  <2>. HIDE DEF t, s
  <2>9. Size(value') = Len(s)
    BY <2>5 DEF Size
  <2>. QED
    BY <2>5, <2>6, <2>8, <2>9 DEF Sound, IsContainer
<1>. QED
  BY <1>1, <1>2, <1>3

\* The actions that do not end the decoder.
Works ==
  \/ ReadSimple \/ ReadInteger \/ ReadString
  \/ OpenContainer \/ CountMember \/ CloseContainer
  \/ TakeKey \/ TakeItem

\* Containers that are plausible after a step were so before.
LEMMA WasPlausible ==
  ASSUME Inv, Inv', Loops, Works, Plausible'
  PROVE  Plausible
<1>. DEFINE L == Len(stack)
<1>1. L \in Nat /\ DOMAIN stack = 1..L /\ DOMAIN stack' = 1..Len(stack')
  BY DEF Inv, TypeOK
<1>2. CASE ReadSimple \/ ReadInteger \/ ReadString
  <2>1. /\ pc = "item" /\ pc' = "deliver" /\ stack' = stack /\ built' = built
    BY <1>2 DEF ReadSimple, ReadInteger, ReadString, AtHead, Deliver
  <2>2. \A k \in 1..L : Reading(k)' <=> Reading(k)
    BY <2>1 DEF Reading
  <2>3. \A k \in 1..L : Announced(k)' = Announced(k)
    BY <2>1, <2>2, SameContainer
  <2>. QED
    BY <1>1, <2>1, <2>3 DEF Plausible
<1>3. CASE OpenContainer
  <2>0. Len(stack') = L + 1
    BY <1>3, OpenFacts
  <2>1. Len(stack') = L + 1 /\ \A k \in 1..L : k \in 1..L + 1
    BY <1>1, <2>0
  <2>2. \A k \in 1..L : Announced(k)' = Announced(k)
    BY <1>3, OpenFacts, SameContainer
  <2>. QED
    BY <1>1, <2>1, <2>2 DEF Plausible
<1>4. CASE CountMember
  <2>1. Len(stack') = L
    BY <1>4, CountFacts
  <2>2. \A k \in 1..L : Announced(k)' = Announced(k)
    BY <1>4, CountKeepsLoops
  <2>. QED
    BY <1>1, <2>1, <2>2 DEF Plausible
<1>5. CASE CloseContainer
  <2>1. L \in Nat \ {0} /\ Len(stack') = L - 1 /\ ~Reading(L) /\ stack[L].left = 0
    BY <1>5, CloseFacts
  <2>2. \A k \in 1..L - 1 : Announced(k)' = Announced(k)
    BY <1>5, CloseFacts, SameContainer
  <2>3. Announced(L) < COUNT_CAP
    <3>1. L \in 1..L
      BY <2>1
    <3>2. Announced(L) = stack[L].left + Underway(L) /\ Underway(L) \in Nat
      BY <3>1, ContainerFacts
    <3>3. Underway(L) <= members
      BY <1>1, <1>5, <3>1 DEF Loops, InLoop, CloseContainer
    <3>4. members \in Nat /\ members <= max_members
      BY DEF Inv, TypeOK, WithinLimits
    <3>. DEFINE u == Underway(L)
                a == Announced(L)
    <3>5. u \in Nat /\ u <= members /\ a = 0 + u
      BY <2>1, <3>2, <3>3
    <3>. HIDE DEF u, a
    <3>6. a < COUNT_CAP
      BY <3>4, <3>5, DecoderAssumption DEF COUNT_CAP
    <3>. QED
      BY <3>6 DEF a
  <2>4. ASSUME NEW k \in 1..L PROVE Announced(k) < COUNT_CAP
    <3>1. CASE k = L
      BY <2>3, <3>1
    <3>2. CASE k # L
      <4>1. k \in 1..L - 1
        BY <2>1, <3>2
      <4>2. Announced(k)' < COUNT_CAP
        BY <1>1, <2>1, <4>1 DEF Plausible
      <4>. QED
        BY <2>2, <4>1, <4>2
    <3>. QED
      BY <3>1, <3>2
  <2>. QED
    BY <1>1, <2>4 DEF Plausible
<1>6. CASE TakeKey \/ TakeItem
  <2>1. Len(stack') = L
    BY <1>6, TakeFacts
  <2>2. \A k \in 1..L : Announced(k)' = Announced(k)
    BY <1>6, TakeKeepsLoops
  <2>. QED
    BY <1>1, <2>1, <2>2 DEF Plausible
<1>. QED
  BY <1>2, <1>3, <1>4, <1>5, <1>6 DEF Works

\* A container that is complete is a valid value.
LEMMA ClosedIsValid ==
  ASSUME AccountInv, Plausible, ItemsAreValid(Len(stack)), CloseContainer
  PROVE  value' \in Valid(max_depth - (Len(stack) - 1))
<1>. DEFINE L == Len(stack)
            d == max_depth - (L - 1)
            s == built[L]
            kind == stack[L].kind
<1>0. Inv /\ Loops /\ Accounting
  BY DEF AccountInv
<1>1. /\ pc = "member" /\ value' = << top.kind, items >> /\ stack # << >>
  BY <1>0 DEF CloseContainer, Inv, TypeOK
<1>2. /\ L \in Nat \ {0} /\ L \in 1..L /\ ~Reading(L) /\ stack[L].left = 0
      /\ DOMAIN stack = 1..L /\ Len(built) = L
  BY <1>0, CloseFacts DEF Inv, TypeOK
<1>3. value' = << kind, s >>
  BY <1>1, <1>2 DEF top, items
<1>4. L <= max_depth /\ max_depth \in Nat
  BY <1>0, DecoderAssumption DEF Inv, WithinLimits
<1>5. d \in 0..max_depth /\ d # 0 /\ d - 1 = max_depth - L /\ max_depth - L \in 0..max_depth
      /\ d - 1 \in 0..max_depth /\ (d - 1) + 1 = d /\ d \in Nat /\ d <= max_depth
  <2>. HIDE DEF L
  <2>1. L \in Nat /\ L # 0 /\ L <= max_depth /\ max_depth \in Nat
    BY <1>2, <1>4
  <2>2. d \in Nat /\ d <= max_depth /\ d # 0 /\ d - 1 = max_depth - L /\ d - 1 \in Nat
        /\ d - 1 <= max_depth
    BY <2>1
  <2>. HIDE DEF d
  <2>. QED
    BY <2>1, <2>2
<1>6. s \in Seq(Valid(d - 1)) /\ (kind = "map" => DictKeys(s))
  BY <1>5 DEF ItemsAreValid
<1>7. InLoop(L) /\ Accounts(L) /\ stack[L] \in Frames
  BY <1>0, <1>1, <1>2, Position, ContainerFacts DEF Loops
<1>8. kind \in { "array", "map" } /\ (kind = "map" => Len(s) % 2 # 1 /\ KeysIncrease(s))
  BY <1>2, <1>7 DEF Frames, InLoop, Accounts
<1>9. Size(<< kind, s >>) < COUNT_CAP
  <2>1. Announced(L) < COUNT_CAP
    BY <1>2 DEF Plausible
  <2>2. Len(s) \in Nat
    BY <1>0, <1>2, ContainerFacts
  <2>. DEFINE n == IF kind = "array" THEN Len(s) ELSE Len(s) \div 2
  <2>3. Announced(L) = 0 + n + 0
    BY <1>2 DEF Announced
  <2>4. n \in Nat
    <3>1. \A l \in Nat : l \div 2 \in Nat
      OBVIOUS
    <3>. QED
      BY <2>2, <3>1
  <2>5. Size(<< kind, s >>) = n
    <3>. HIDE DEF s, kind
    <3>. QED
      BY <1>8 DEF Size
  <2>. HIDE DEF n
  <2>. QED
    BY <2>1, <2>3, <2>4, <2>5
<1>10. << kind, s >> \in DOMAIN EncodeTo[max_depth + 1]
  <2>. HIDE DEF d, s, kind
  <2>1. Valid(d - 1) \subseteq DOMAIN EncodeTo[d]
    <3>1. Valid(d - 1) \subseteq Encodable((d - 1) + 1)
      BY <1>5, ValidIsEncodable
    <3>. QED
      BY <1>5, <3>1 DEF Encodable
  <2>2. s \in Seq(DOMAIN EncodeTo[d])
    BY <1>6, <2>1
  <2>3. << kind, s >> \in ValuesOf(DOMAIN EncodeTo[d])
    BY <1>8, <2>2 DEF ValuesOf
  <2>4. << kind, s >> \in DOMAIN EncodeTo[d + 1]
    BY <1>5, <2>3, EncodeToIs DEF NextLevel
  <2>5. Extends(EncodeTo[d + 1], EncodeTo[max_depth + 1])
    <3>1. d + 1 \in Nat /\ max_depth + 1 \in Nat /\ d + 1 <= max_depth + 1
      BY <1>4, <1>5
    <3>. QED
      BY <3>1, LevelsExtend
  <2>. QED
    BY <2>4, <2>5 DEF Extends
<1>. DEFINE v == << kind, s >>
<1>11. Sound(v)
  <2>. HIDE DEF s, kind
  <2>1. v[1] = kind /\ v[2] = s
    OBVIOUS
  <2>2. Size(v) < COUNT_CAP
    BY <1>9
  <2>. HIDE DEF v
  <2>. QED
    BY <1>6, <1>8, <2>1, <2>2 DEF Sound
<1>12. v[2] = s /\ v \in DOMAIN EncodeTo[max_depth + 1]
  BY <1>10
<1>. HIDE DEF v, s, d
<1>13. v \in Valid(d)
  BY <1>5, <1>6, <1>11, <1>12, ValidHas
<1>. QED
  BY <1>3, <1>13 DEF v, s, d

\* A key that is taken is no container and no key before it is the same to Python.
LEMMA DictKeysAppend ==
  ASSUME NEW S, NEW s \in Seq(S), NEW x \in S, DictKeys(s),
         Len(s) % 2 # 1 => /\ ~IsContainer(x)
                           /\ \A k \in DOMAIN s : k % 2 = 1 => DictKey(s[k]) # DictKey(x)
  PROVE  DictKeys(Append(s, x))
<1>. DEFINE t == Append(s, x)
            n == Len(s)
<1>1. /\ t \in Seq(S) /\ Len(t) = n + 1 /\ t[n + 1] = x /\ \A k \in 1..n : t[k] = s[k]
      /\ n \in Nat /\ DOMAIN s = 1..n /\ DOMAIN t = 1..n + 1
  <2>1. n \in Nat /\ DOMAIN s = 1..n
    OBVIOUS
  <2>2. t \in Seq(S) /\ Len(t) = n + 1 /\ t[n + 1] = x /\ \A k \in 1..n : t[k] = s[k]
    BY <2>1, AppendIs
  <2>3. DOMAIN t = 1..n + 1
    <3>. HIDE DEF t
    <3>. QED
      BY <2>2
  <2>. QED
    BY <2>1, <2>2, <2>3
<1>. HIDE DEF t, n
<1>2. ASSUME NEW k \in 1..n + 1, k % 2 = 1
      PROVE  /\ ~IsContainer(t[k])
             /\ \A j \in 1..n + 1 : j % 2 = 1 /\ j < k => DictKey(t[j]) # DictKey(t[k])
  <2>1. CASE k = n + 1
    <3>1. n % 2 # 1
      <4>1. \A l \in Nat : (l + 1) % 2 = 1 => l % 2 # 1
        OBVIOUS
      <4>. QED
        BY <1>1, <1>2, <2>1, <4>1
    <3>2. \A j \in 1..n + 1 : j < k => j \in 1..n
      BY <1>1, <2>1
    <3>. QED
      BY <1>1, <2>1, <3>1, <3>2 DEF n
  <2>2. CASE k # n + 1
    <3>1. k \in 1..n /\ \A j \in 1..n + 1 : j < k => j \in 1..n
      BY <1>1, <2>2
    <3>. QED
      BY <1>1, <1>2, <3>1 DEF DictKeys
  <2>. QED
    BY <2>1, <2>2
<1>3. DictKeys(t)
  BY <1>1, <1>2 DEF DictKeys
<1>. QED
  BY <1>3 DEF t

\* Every action that does not end the decoder keeps what it builds valid.
LEMMA WorksKeepsValidity ==
  ASSUME AccountInv, AccountInv', Validity, Works
  PROVE  Validity'
<1>. DEFINE L == Len(stack)
<1>0. /\ Inv /\ Inv' /\ Loops /\ Accounting /\ data \in Inputs
  BY DEF AccountInv
<1>1. pc # "done" /\ pc' # "done"
  BY DEF Works, ReadSimple, ReadInteger, ReadString, AtHead, Deliver, OpenContainer,
         CountMember, CloseContainer, TakeKey, TakeItem, Delivering
<1>. SUFFICES ASSUME Plausible' PROVE ValidSoFar'
  BY <1>1 DEF Validity
<1>2. Plausible
  BY <1>0, WasPlausible
<1>3. ValidSoFar
  BY <1>1, <1>2 DEF Validity
<1>4. L \in Nat /\ DOMAIN stack = 1..L /\ DOMAIN stack' = 1..Len(stack')
  BY <1>0 DEF Inv, TypeOK
<1>5. \A k \in 1..L : ItemsAreValid(k)
  BY <1>3, <1>4 DEF ValidSoFar
<1>6. CASE ReadSimple \/ ReadInteger \/ ReadString
  <2>1. /\ pc' = "deliver" /\ stack' = stack /\ built' = built
    BY <1>6 DEF ReadSimple, ReadInteger, ReadString, AtHead, Deliver
  <2>2. value' \in Encodable((max_depth + 1) - Len(stack))
    BY <1>0, <1>6, SimpleIsRead, IntegerIsRead, StringIsRead
  <2>3. Sound(value') /\ ~IsContainer(value')
    BY <1>0, <1>6, ReadIsSound
  <2>. DEFINE v == value'
  <2>4. v \in Encodable((max_depth + 1) - Len(stack)) /\ Sound(v) /\ ~IsContainer(v)
    BY <2>2, <2>3
  <2>. HIDE DEF v
  <2>5. v \in Valid(max_depth - Len(stack))
    BY <1>0, <2>4, LeafIsValid
  <2>. QED
    BY <1>4, <1>5, <2>1, <2>5 DEF ValidSoFar, ItemsAreValid, v
<1>7. CASE OpenContainer
  <2>1. pc' = "member"
    BY <1>7 DEF OpenContainer
  <2>2. Len(stack') = L + 1
    BY <1>0, <1>7, OpenFacts
  <2>3. \A k \in 1..L : stack'[k] = stack[k] /\ built'[k] = built[k]
    BY <1>0, <1>7, OpenFacts
  <2>4. built'[L + 1] = << >>
    BY <1>0, <1>7, OpenFacts
  <2>5. DictKeys(<< >>) /\ \A S : << >> \in Seq(S)
    BY DEF DictKeys
  <2>6. ASSUME NEW k \in 1..L + 1 PROVE ItemsAreValid(k)'
    <3>1. CASE k = L + 1
      <4>1. built'[k] = << >>
        BY <2>4, <3>1
      <4>. QED
        BY <2>5, <4>1 DEF ItemsAreValid
    <3>2. CASE k # L + 1
      <4>1. k \in 1..L
        BY <1>4, <3>2
      <4>. QED
        BY <1>5, <2>3, <4>1 DEF ItemsAreValid
    <3>. QED
      BY <3>1, <3>2
  <2>. QED
    BY <1>4, <2>1, <2>2, <2>6 DEF ValidSoFar
<1>8. CASE CountMember
  <2>1. pc' = "item" /\ L \in Nat \ {0} /\ Len(stack') = L /\ built' = built
    BY <1>0, <1>8, CountFacts DEF CountMember
  <2>2. \A k \in 1..L : stack'[k].kind = stack[k].kind
    BY <1>0, <1>8, CountFacts
  <2>. QED
    BY <1>4, <1>5, <2>1, <2>2 DEF ValidSoFar, ItemsAreValid
<1>9. CASE CloseContainer
  <2>1. pc' = "deliver" /\ L \in Nat \ {0} /\ Len(stack') = L - 1
    BY <1>0, <1>9, CloseFacts DEF CloseContainer
  <2>2. \A k \in 1..L - 1 : stack'[k] = stack[k] /\ built'[k] = built[k]
    BY <1>0, <1>9, CloseFacts
  <2>3. L \in 1..L /\ \A k \in 1..L - 1 : k \in 1..L
    BY <2>1
  <2>4. value' \in Valid(max_depth - (L - 1))
    BY <1>2, <1>5, <1>9, <2>3, ClosedIsValid
  <2>5. \A k \in 1..L - 1 : ItemsAreValid(k)'
    BY <1>5, <2>2, <2>3 DEF ItemsAreValid
  <2>. QED
    BY <1>4, <2>1, <2>4, <2>5 DEF ValidSoFar
<1>10. CASE TakeKey \/ TakeItem
  <2>1. pc = "deliver" /\ pc' # "deliver"
    BY <1>10 DEF TakeKey, TakeItem, Delivering
  <2>2. L \in Nat \ {0} /\ Len(stack') = L /\ L \in 1..L
    <3>1. L \in Nat \ {0} /\ Len(stack') = L
      BY <1>0, <1>10, TakeFacts
    <3>. QED
      BY <3>1
  <2>3. /\ \A k \in 1..L : k # L => stack'[k] = stack[k] /\ built'[k] = built[k]
        /\ built'[L] = Append(built[L], value)
        /\ stack'[L].kind = stack[L].kind
        /\ stack[L].wantsKey <=> TakeKey
    BY <1>0, <1>10, TakeFacts
  <2>. DEFINE S == Valid(max_depth - L)
              s == built[L]
  <2>4. value \in S /\ s \in Seq(S) /\ (stack[L].kind = "map" => DictKeys(s))
    BY <1>3, <1>5, <2>1, <2>2 DEF ValidSoFar, ItemsAreValid
  <2>5. ASSUME stack[L].kind = "map", Len(s) % 2 # 1
        PROVE  /\ ~IsContainer(value)
               /\ \A k \in DOMAIN s : k % 2 = 1 => DictKey(s[k]) # DictKey(value)
    <3>1. InLoop(L) /\ Reading(L)
      BY <1>0, <1>1, <1>4, <2>1, <2>2 DEF Loops, Reading
    <3>2. TakeKey
      BY <2>3, <2>5, <3>1 DEF InLoop
    <3>3. KeyRefusal = "none"
      BY <3>2 DEF TakeKey
    <3>4. items = s
      BY <1>0 DEF items, Inv, TypeOK
    <3>. QED
      BY <3>3, <3>4 DEF KeyRefusal
  <2>. HIDE DEF S, s
  <2>6. /\ Append(s, value) \in Seq(S)
        /\ stack[L].kind = "map" => DictKeys(Append(s, value))
    BY <2>4, <2>5, DictKeysAppend
  <2>7. ASSUME NEW k \in 1..L PROVE ItemsAreValid(k)'
    <3>1. CASE k = L
      BY <2>3, <2>6, <3>1 DEF ItemsAreValid, S, s
    <3>2. CASE k # L
      BY <1>5, <2>3, <3>2 DEF ItemsAreValid
    <3>. QED
      BY <3>1, <3>2
  <2>. QED
    BY <1>4, <2>1, <2>2, <2>7 DEF ValidSoFar
<1>. QED
  BY <1>6, <1>7, <1>8, <1>9, <1>10 DEF Works

\* decode returns valid values only, and the encoder makes the input of them.
ReturnsValid ==
  pc = "done" /\ verdict = "none" => value \in Valid(max_depth) /\ Encoded(value) = data

\* Every step keeps what is built valid.
LEMMA NextValidity ==
  ASSUME AccountInv, AccountInv', Validity, [Next]_vars
  PROVE  Validity'
<1>1. CASE Works
  BY <1>1, WorksKeepsValidity
<1>2. CASE Refusals
  <2>1. PICK code \in Codes : code # "none" /\ Raise(code)
    BY <1>2, RefusalRaises DEF AccountInv
  <2>2. pc' = "done" /\ verdict' # "none"
    BY <2>1 DEF Raise
  <2>. QED
    BY <2>2 DEF Validity
<1>3. CASE ReturnValue
  <2>1. pc = "deliver" /\ stack = << >> /\ pc' = "done" /\ value' = value
    BY <1>3 DEF ReturnValue
  <2>2. Plausible
    BY <2>1 DEF Plausible
  <2>3. value \in Valid(max_depth - Len(stack)) /\ Len(stack) = 0
    BY <2>1, <2>2 DEF Validity, ValidSoFar
  <2>4. max_depth - 0 = max_depth
    BY DecoderAssumption
  <2>. QED
    BY <2>1, <2>3, <2>4 DEF Validity
<1>4. CASE UNCHANGED vars
  <2>1. /\ stack' = stack /\ built' = built /\ pc' = pc /\ value' = value
        /\ verdict' = verdict
    BY <1>4 DEF vars
  <2>2. \A k : Reading(k)' <=> Reading(k)
    BY <2>1 DEF Reading
  <2>3. \A k : Announced(k)' = Announced(k)
    BY <2>1, <2>2, SameContainer
  <2>4. Plausible' <=> Plausible
    BY <2>1, <2>3 DEF Plausible
  <2>5. ValidSoFar' <=> ValidSoFar
    BY <2>1 DEF ValidSoFar, ItemsAreValid
  <2>. QED
    BY <2>1, <2>4, <2>5 DEF Validity
<1>. QED
  BY <1>1, <1>2, <1>3, <1>4 DEF Next, Works, Refusals

\* What decode accepts is valid: a value that it returns obeys the profile at every
\* level, heads and keys included, and the input is its one encoding.
THEOREM ReturnedValueIsValid == Spec => []ReturnsValid
<1>1. Init => Validity
  <2>1. Init => pc = "item" /\ stack = << >>
    BY DEF Init
  <2>. QED
    BY <2>1 DEF Validity, ValidSoFar
<1>2. AccountInv /\ AccountInv' /\ Validity /\ [Next]_vars => Validity'
  BY NextValidity
<1>3. AccountInv /\ Validity => ReturnsValid
  BY DEF AccountInv, Accounting, Validity, ReturnsValid
<1>. QED
  BY <1>1, <1>2, <1>3, AccountInvariant, PTL DEF Spec

----------------------------------------------------------------------------
(* Reading what the encoder has made.                                      *)

\* The bytes from the position on begin with x.
Ahead(x) ==
  /\ pos + Len(x) <= Len(data)
  /\ \A k \in 1..Len(x) : data[pos + k] = x[k]

\* An argument that is padded has its own digits as the significant ones.
LEMMA SignificantPadded ==
  ASSUME NEW digits \in Seq(Byte), Len(digits) # 0 => digits[1] # 0,
         NEW n \in Nat, Len(digits) <= n
  PROVE  /\ Padded(digits, n) \in Seq(Byte) /\ Len(Padded(digits, n)) = n
         /\ Significant(Padded(digits, n)) = digits
<1>. DEFINE l == Len(digits)
            q == n - l
            z == [ k \in 1..q |-> 0 ]
            p == z \o digits
<1>0. l \in Nat /\ l <= n
  BY LenProperties
<1>1. q \in Nat /\ q + l = n /\ q <= n
  BY <1>0
<1>2. Padded(digits, n) = p
  BY DEF Padded
<1>. HIDE DEF q
<1>3. z \in Seq(Byte) /\ Len(z) = q /\ \A k \in 1..q : z[k] = 0
  <2>1. z \in [ 1..q -> Byte ]
    BY DEF Byte
  <2>2. \A k \in 1..q : z[k] = 0
    OBVIOUS
  <2>. HIDE DEF z
  <2>. QED
    BY <1>1, <2>1, <2>2
<1>. HIDE DEF z
<1>4. /\ p \in Seq(Byte) /\ Len(p) = n
      /\ \A k \in 1..q : p[k] = 0
      /\ \A k \in 1..l : p[q + k] = digits[k]
  <2>1. /\ p \in Seq(Byte) /\ Len(p) = Len(z) + l
        /\ \A k \in 1..Len(z) : p[k] = z[k]
        /\ \A k \in 1..l : p[Len(z) + k] = digits[k]
    <3>1. z \in Seq(Byte)
      BY <1>3
    <3>. QED
      BY <3>1, ConcatAt
  <2>. QED
    BY <1>1, <1>3, <2>1
<1>. HIDE DEF p
<1>5. PICK c \in 0..Len(p) :
           /\ Cardinality(LeadingZeros(p)) = c
           /\ \A k \in 1..c : p[k] = 0
           /\ c < Len(p) => p[c + 1] # 0
  BY <1>4, LeadingZerosAre
<1>6. c = q
  <2>1. ~(c < q)
    <3>1. SUFFICES ASSUME c < q PROVE FALSE
      OBVIOUS
    <3>2. c + 1 \in 1..q /\ c < n
      BY <1>1, <1>4, <3>1
    <3>. QED
      BY <1>4, <1>5, <3>2
  <2>2. ~(c > q)
    <3>1. SUFFICES ASSUME c > q PROVE FALSE
      OBVIOUS
    <3>2. q + 1 \in 1..c /\ l # 0 /\ 1 \in 1..l
      BY <1>0, <1>1, <1>4, <3>1
    <3>3. p[q + 1] = digits[1] /\ digits[1] # 0
      BY <1>4, <3>2
    <3>. QED
      BY <1>5, <3>2, <3>3
  <2>. QED
    BY <1>1, <1>4, <2>1, <2>2
<1>7. Significant(p) = SubSeq(p, q + 1, n)
  BY <1>4, <1>5, <1>6 DEF Significant
<1>8. /\ SubSeq(p, q + 1, n) \in Seq(Byte) /\ Len(SubSeq(p, q + 1, n)) = n - q
      /\ \A k \in 1..n - q : SubSeq(p, q + 1, n)[k] = p[q + k]
  BY <1>1, <1>4, Slice
<1>9. n - q = l
  BY <1>0, <1>1
<1>10. SubSeq(p, q + 1, n) = digits
  <2>. DEFINE s == SubSeq(p, q + 1, n)
  <2>1. s \in Seq(Byte) /\ Len(s) = l /\ \A k \in 1..l : s[k] = digits[k]
    BY <1>4, <1>8, <1>9
  <2>. HIDE DEF s
  <2>2. s = digits
    BY <2>1, SeqEqual
  <2>. QED
    BY <2>2 DEF s
<1>. QED
  BY <1>2, <1>4, <1>7, <1>10

\* Digits without leading zeros come back from their padding.
LEMMA PaddedSame ==
  ASSUME NEW digits \in Seq(Byte)
  PROVE  Padded(digits, Len(digits)) = digits
<1>1. Len(digits) - Len(digits) = 0
  BY LenProperties
<1>2. [ k \in 1..0 |-> 0 ] = << >>
  OBVIOUS
<1>3. << >> \o digits = digits
  BY ConcatEmptySeq
<1>. QED
  BY <1>1, <1>2, <1>3 DEF Padded

\* A head with the argument in its initial byte.
LEMMA ShortHeadAhead ==
  ASSUME TypeOK, NEW m \in 0..7, NEW a \in 0..23, Ahead(<< 32 * m + a >> \o << >>)
  PROVE  Has(1) /\ major = m /\ IsHead /\ argument = Digit(a)
         /\ headSize = Len(<< 32 * m + a >> \o << >>)
<1>. DEFINE b == 32 * m + a
            x == << b >> \o << >>
<1>1. x = << b >> /\ Len(x) = 1 /\ x[1] = b
  OBVIOUS
<1>2. data \in Seq(Byte) /\ pos \in Nat /\ Len(data) \in Nat
  BY DEF TypeOK
<1>. HIDE DEF x
<1>3. pos + 1 <= Len(data) /\ data[pos + 1] = b
  BY <1>1, <1>2 DEF Ahead, x
<1>4. b \div 32 = m /\ b % 32 = a
  OBVIOUS
<1>5. Has(1) /\ major = m /\ ai = a
  BY <1>3, <1>4 DEF Has, major, ai, initial
<1>6. a < 24 /\ a <= 27 /\ ~(a >= 24)
  OBVIOUS
<1>7. headSize = 1 /\ argument = Digit(a)
  BY <1>5, <1>6 DEF headSize, argument
<1>. QED
  BY <1>1, <1>5, <1>6, <1>7 DEF IsHead, x

\* A head with the argument in the bytes after it.
LEMMA LongHeadAhead ==
  ASSUME TypeOK, NEW m \in 0..7, NEW a \in 24..27, NEW digits \in Seq(Byte),
         Len(digits) # 0 => digits[1] # 0, Len(digits) <= ArgumentSize(a),
         Shortest(a, digits), Ahead(<< 32 * m + a >> \o Padded(digits, ArgumentSize(a)))
  PROVE  Has(1) /\ major = m /\ IsHead /\ argument = digits
         /\ headSize = Len(<< 32 * m + a >> \o Padded(digits, ArgumentSize(a)))
<1>. DEFINE b == 32 * m + a
            size == ArgumentSize(a)
            rest == Padded(digits, size)
            first == << b >>
            x == first \o rest
<1>1. size \in Nat
  <2>1. a = 24 \/ a = 25 \/ a = 26 \/ a = 27
    OBVIOUS
  <2>2. /\ ArgumentSize(24) = 1 /\ ArgumentSize(25) = 2 /\ ArgumentSize(26) = 4
        /\ ArgumentSize(27) = 8
    BY DEF ArgumentSize
  <2>. QED
    BY <2>1, <2>2
<1>2. data \in Seq(Byte) /\ pos \in Nat /\ Len(data) \in Nat
  BY DEF TypeOK
<1>. HIDE DEF size
<1>3. rest \in Seq(Byte) /\ Len(rest) = size /\ Significant(rest) = digits
  BY <1>1, SignificantPadded DEF size
<1>4. b \in Byte /\ b \div 32 = m /\ b % 32 = a
  BY DEF Byte
<1>. HIDE DEF rest, b
<1>5. first \in Seq(Byte) /\ Len(first) = 1 /\ first[1] = b
  BY <1>4
<1>. HIDE DEF first
<1>6. /\ Len(x) = 1 + size /\ x[1] = b /\ \A k \in 1..size : x[1 + k] = rest[k]
  <2>1. /\ x \in Seq(Byte) /\ Len(x) = Len(first) + Len(rest)
        /\ \A k \in 1..Len(first) : x[k] = first[k]
        /\ \A k \in 1..Len(rest) : x[Len(first) + k] = rest[k]
    <3>1. first \in Seq(Byte) /\ rest \in Seq(Byte)
      BY <1>3, <1>5
    <3>. QED
      BY <3>1, ConcatAt
  <2>. QED
    BY <1>3, <1>5, <2>1
<1>7. Ahead(x)
  BY DEF first, rest, b, size
<1>. HIDE DEF x
<1>8. /\ (pos + 1) + size <= Len(data) /\ data[pos + 1] = b
      /\ \A k \in 1..size : data[(pos + 1) + k] = rest[k]
  <2>1. pos + (1 + size) <= Len(data) /\ \A k \in 1..1 + size : data[pos + k] = x[k]
    BY <1>6, <1>7 DEF Ahead
  <2>2. pos + (1 + size) = (pos + 1) + size /\ 1 \in 1..1 + size
    BY <1>1, <1>2
  <2>3. ASSUME NEW k \in 1..size PROVE data[(pos + 1) + k] = rest[k]
    <3>1. 1 + k \in 1..1 + size /\ pos + (1 + k) = (pos + 1) + k
      BY <1>1, <1>2
    <3>. QED
      BY <1>6, <2>1, <3>1
  <2>. QED
    BY <1>6, <2>1, <2>2, <2>3
<1>9. Has(1) /\ major = m /\ ai = a
  <2>1. pos + 1 <= Len(data)
    BY <1>1, <1>2, <1>8
  <2>. QED
    BY <1>4, <1>8, <2>1 DEF Has, major, ai, initial
<1>10. a >= 24 /\ ~(a < 24) /\ a <= 27
  OBVIOUS
<1>11. headSize = 1 + size /\ Has(headSize)
  <2>1. headSize = 1 + size
    BY <1>9, <1>10 DEF headSize, size
  <2>2. pos + (1 + size) = (pos + 1) + size
    BY <1>1, <1>2
  <2>. QED
    BY <1>8, <2>1, <2>2 DEF Has
<1>12. argument = digits
  <2>. DEFINE s == SubSeq(data, (pos + 1) + 1, (pos + 1) + size)
  <2>1. /\ s \in Seq(Byte) /\ Len(s) = ((pos + 1) + size) - (pos + 1)
        /\ \A k \in 1..((pos + 1) + size) - (pos + 1) : s[k] = data[(pos + 1) + k]
    <3>1. pos + 1 \in Nat /\ (pos + 1) + size \in Nat /\ pos + 1 <= (pos + 1) + size
      BY <1>1, <1>2
    <3>. QED
      BY <1>2, <1>8, <3>1, Slice
  <2>2. ((pos + 1) + size) - (pos + 1) = size /\ (pos + 1) + 1 = pos + 2
    BY <1>1, <1>2
  <2>3. argument = Significant(s)
    BY <1>9, <1>10, <2>2 DEF argument, size
  <2>. HIDE DEF s
  <2>4. s = rest
    <3>1. Len(s) = Len(rest) /\ \A k \in 1..Len(s) : s[k] = rest[k]
      BY <1>3, <1>8, <2>1, <2>2
    <3>. QED
      BY <1>3, <2>1, <3>1, SeqEqual
  <2>. QED
    BY <1>3, <2>3, <2>4
<1>13. IsHead
  BY <1>9, <1>10, <1>11, <1>12 DEF IsHead
<1>. QED
  BY <1>6, <1>9, <1>11, <1>12, <1>13 DEF x, first, rest, b, size

\* A head that the encoder makes is read as the argument it was made of.
LEMMA HeadAhead ==
  ASSUME TypeOK, NEW m \in 0..7, NEW digits \in Seq(Byte), Len(digits) <= 8,
         Len(digits) # 0 => digits[1] # 0, Ahead(EncodeHead(m, digits))
  PROVE  Has(1) /\ major = m /\ IsHead /\ argument = digits
         /\ headSize = Len(EncodeHead(m, digits))
<1>. DEFINE l == Len(digits)
            h == EncodeHead(m, digits)
<1>0. l \in Nat /\ Padded(digits, l) = digits
  BY LenProperties, PaddedSame
<1>1. ASSUME NEW a \in 0..23, h = << 32 * m + a >> \o << >>, digits = Digit(a)
      PROVE  Has(1) /\ major = m /\ IsHead /\ argument = digits /\ headSize = Len(h)
  <2>1. Ahead(<< 32 * m + a >> \o << >>)
    BY <1>1
  <2>. HIDE DEF h
  <2>. QED
    BY <1>1, <2>1, ShortHeadAhead
<1>2. ASSUME NEW a \in 24..27, h = << 32 * m + a >> \o Padded(digits, ArgumentSize(a)),
             l <= ArgumentSize(a), Shortest(a, digits)
      PROVE  Has(1) /\ major = m /\ IsHead /\ argument = digits /\ headSize = Len(h)
  <2>1. Ahead(<< 32 * m + a >> \o Padded(digits, ArgumentSize(a)))
    BY <1>2
  <2>. HIDE DEF h
  <2>. QED
    BY <1>2, <2>1, LongHeadAhead
<1>3. CASE l = 0
  <2>1. h = << 32 * m + 0 >> \o << >>
    BY <1>3, HeadZero
  <2>2. digits = << >> /\ Digit(0) = << >>
    BY <1>3 DEF Digit
  <2>3. 0 \in 0..23
    BY SMTT(20)
  <2>. QED
    BY <1>1, <2>1, <2>2, <2>3
<1>4. CASE l = 1
  <2>1. digits[1] \in 0..255
    <3>1. 1 \in 1..Len(digits)
      BY <1>4
    <3>. QED
      BY <3>1, DigitIs
  <2>2. CASE digits[1] \in 0..23
    <3>1. h = << 32 * m + digits[1] >> \o << >>
      BY <1>4, <2>2, HeadSmall
    <3>2. digits = Digit(digits[1])
      <4>1. digits[1] # 0 /\ digits = << digits[1] >>
        BY <1>4
      <4>. QED
        BY <4>1 DEF Digit
    <3>. DEFINE a == digits[1]
    <3>3. a \in 0..23 /\ h = << 32 * m + a >> \o << >> /\ digits = Digit(a)
      BY <2>2, <3>1, <3>2
    <3>. HIDE DEF a
    <3>. QED
      BY <1>1, <3>3
  <2>3. CASE digits[1] \in 24..255
    <3>1. h = << 32 * m + 24 >> \o digits
      BY <1>4, <2>3, HeadOne
    <3>2. ArgumentSize(24) = 1
      BY DEF ArgumentSize
    <3>3. Padded(digits, 1) = digits
      BY <1>0, <1>4
    <3>4. Shortest(24, digits)
      <4>1. \A d \in 24..255 : d >= 24
        OBVIOUS
      <4>2. Len(digits) = 1 /\ digits[1] >= 24
        BY <1>4, <2>3, <4>1
      <4>. QED
        BY <4>2 DEF Shortest
    <3>5. 24 \in 24..27
      BY SMTT(20)
    <3>6. l <= ArgumentSize(24)
      BY <1>4, <3>2
    <3>. QED
      BY <1>2, <3>1, <3>2, <3>3, <3>4, <3>5, <3>6
  <2>4. \A d \in 0..255 : d \in 0..23 \/ d \in 24..255
    OBVIOUS
  <2>. QED
    BY <2>1, <2>2, <2>3, <2>4
<1>5. CASE l = 2
  <2>1. h = << 32 * m + 25 >> \o digits
    BY <1>5, HeadTwo
  <2>2. ArgumentSize(25) = 2 /\ 25 \in 24..27
    BY DEF ArgumentSize
  <2>3. Padded(digits, 2) = digits
    BY <1>0, <1>5
  <2>4. Shortest(25, digits)
    BY <1>5 DEF Shortest
  <2>5. l <= ArgumentSize(25)
    BY <1>5, <2>2
  <2>. QED
    BY <1>2, <2>1, <2>2, <2>3, <2>4, <2>5
<1>6. CASE l \in 3..4
  <2>1. h = << 32 * m + 26 >> \o Padded(digits, 4)
    BY <1>6, HeadFour
  <2>2. ArgumentSize(26) = 4 /\ 26 \in 24..27
    BY DEF ArgumentSize
  <2>3. \A k \in 3..4 : k > 2 /\ k <= 4
    OBVIOUS
  <2>4. Shortest(26, digits)
    <3>1. Len(digits) > 2
      BY <1>6, <2>3
    <3>. QED
      BY <3>1 DEF Shortest
  <2>5. l <= ArgumentSize(26)
    BY <1>6, <2>2, <2>3
  <2>. QED
    BY <1>2, <2>1, <2>2, <2>4, <2>5
<1>7. CASE l \in 5..8
  <2>1. h = << 32 * m + 27 >> \o Padded(digits, 8)
    BY <1>7, HeadEight
  <2>2. ArgumentSize(27) = 8 /\ 27 \in 24..27
    BY DEF ArgumentSize
  <2>3. \A k \in 5..8 : k > 4 /\ k <= 8
    OBVIOUS
  <2>4. Shortest(27, digits)
    <3>1. Len(digits) > 4
      BY <1>7, <2>3
    <3>. QED
      BY <3>1 DEF Shortest
  <2>5. l <= ArgumentSize(27)
    BY <1>7, <2>2, <2>3
  <2>. QED
    BY <1>2, <2>1, <2>2, <2>4, <2>5
<1>8. l = 0 \/ l = 1 \/ l = 2 \/ l \in 3..4 \/ l \in 5..8
  <2>1. \A n \in Nat : n <= 8 => n = 0 \/ n = 1 \/ n = 2 \/ n \in 3..4 \/ n \in 5..8
    OBVIOUS
  <2>2. l \in Nat /\ l <= 8
    BY <1>0
  <2>. HIDE DEF l
  <2>. QED
    BY <2>1, <2>2
<1>. QED
  BY <1>3, <1>4, <1>5, <1>6, <1>7, <1>8

\* A length is the number that its argument says, which has no leading zeros.
LEMMA CountOfLength ==
  ASSUME NEW n \in Nat, n < COUNT_CAP
  PROVE  /\ LengthDigits(n) \in Seq(Byte) /\ Len(LengthDigits(n)) <= 8
         /\ Len(LengthDigits(n)) # 0 => LengthDigits(n)[1] # 0
         /\ Count(LengthDigits(n)) = n
<1>0. n < 65536
  BY DEF COUNT_CAP
<1>. DEFINE s == LengthDigits(n)
<1>1. s \in Seq(Byte) /\ Len(s) <= 8
  <2>1. s \in Seq(Byte) /\ Len(s) <= 2
    BY LengthDigitsType
  <2>2. Len(s) \in Nat
    BY <2>1, LenProperties
  <2>. QED
    BY <2>1, <2>2
<1>2. CASE n = 0
  <2>1. s = << >>
    BY <1>2 DEF LengthDigits, Digit
  <2>. HIDE DEF s
  <2>2. Len(s) = 0
    BY <2>1
  <2>3. Count(s) = 0
    BY <2>2 DEF Count
  <2>. QED
    BY <1>1, <1>2, <2>2, <2>3 DEF s
<1>3. CASE n # 0 /\ n < 256
  <2>1. s = << n >>
    BY <1>3 DEF LengthDigits, Digit
  <2>. HIDE DEF s
  <2>2. Len(s) = 1 /\ s[1] = n
    BY <2>1
  <2>3. Count(s) = n
    BY <2>2 DEF Count
  <2>. QED
    BY <1>1, <1>3, <2>2, <2>3 DEF s
<1>4. CASE ~(n < 256)
  <2>1. \A k \in Nat : k < 65536 /\ ~(k < 256) =>
          k \div 256 # 0 /\ 256 * (k \div 256) + (k % 256) = k
    OBVIOUS
  <2>2. s = << n \div 256, n % 256 >>
    BY <1>4 DEF LengthDigits
  <2>. HIDE DEF s
  <2>3. Len(s) = 2 /\ s[1] = n \div 256 /\ s[2] = n % 256
    BY <2>2
  <2>4. Count(s) = 256 * s[1] + s[2]
    BY <2>3 DEF Count
  <2>5. s[1] # 0 /\ 256 * s[1] + s[2] = n
    BY <1>0, <1>4, <2>1, <2>3
  <2>. QED
    BY <1>1, <2>4, <2>5 DEF s
<1>. QED
  BY <1>2, <1>3, <1>4

\* What begins with the beginning of x begins with it, and goes on with the rest.
LEMMA AheadParts ==
  ASSUME TypeOK, NEW f \in Seq(Byte), NEW g \in Seq(Byte), Ahead(f \o g)
  PROVE  /\ Ahead(f)
         /\ (pos + Len(f)) + Len(g) <= Len(data)
         /\ SubSeq(data, (pos + Len(f)) + 1, (pos + Len(f)) + Len(g)) = g
<1>. DEFINE a == Len(f)
            b == Len(g)
            x == f \o g
<1>1. /\ a \in Nat /\ b \in Nat /\ Len(x) = a + b
      /\ \A k \in 1..a : x[k] = f[k]
      /\ \A k \in 1..b : x[a + k] = g[k]
  BY ConcatAt
<1>2. data \in Seq(Byte) /\ pos \in Nat /\ Len(data) \in Nat
  BY DEF TypeOK
<1>3. pos + Len(x) <= Len(data) /\ \A k \in 1..Len(x) : data[pos + k] = x[k]
  BY DEF Ahead
<1>. HIDE DEF a, b, x
<1>4. pos + a <= Len(data) /\ (pos + a) + b <= Len(data)
  BY <1>1, <1>2, <1>3
<1>5. \A k \in 1..a : data[pos + k] = f[k]
  <2>1. \A k \in 1..a : k \in 1..Len(x)
    BY <1>1
  <2>. QED
    BY <1>1, <1>3, <2>1
<1>6. ASSUME NEW k \in 1..b PROVE data[(pos + a) + k] = g[k]
  <2>1. a + k \in 1..Len(x) /\ pos + (a + k) = (pos + a) + k
    BY <1>1, <1>2
  <2>2. x[a + k] = g[k]
    BY <1>1
  <2>. QED
    BY <1>3, <2>1, <2>2
<1>7. SubSeq(data, (pos + a) + 1, (pos + a) + b) = g
  <2>. DEFINE i == pos + a
              j == i + b
              s == SubSeq(data, i + 1, j)
  <2>1. i \in Nat /\ j \in Nat /\ i <= j /\ j <= Len(data) /\ j - i = b
    BY <1>1, <1>2, <1>4
  <2>2. \A k \in 1..b : data[i + k] = g[k]
    BY <1>6
  <2>. HIDE DEF i, j
  <2>3. s \in Seq(Byte) /\ Len(s) = j - i /\ \A k \in 1..j - i : s[k] = data[i + k]
    BY <1>2, <2>1, Slice
  <2>. HIDE DEF s
  <2>4. Len(s) = Len(g) /\ \A k \in 1..Len(s) : s[k] = g[k]
    BY <2>1, <2>2, <2>3 DEF b
  <2>5. s = g
    BY <2>3, <2>4, SeqEqual
  <2>. QED
    BY <2>5 DEF s, i, j
<1>. QED
  BY <1>4, <1>5, <1>7 DEF a, b, Ahead

\* What can be done about the next item.
ItemStep ==
  \/ EndOfInput \/ ReadSimple \/ RefuseSimple \/ RefuseHead
  \/ ReadInteger \/ ReadString \/ RefuseString \/ RefuseTag
  \/ OpenContainer \/ RefuseDepth

\* Only that is done at an item.
LEMMA AtItem ==
  ASSUME pc = "item", Next
  PROVE  ItemStep
<1>1. ~CountMember /\ ~RefuseMember /\ ~CloseContainer
  BY DEF CountMember, RefuseMember, CloseContainer
<1>2. ~TakeKey /\ ~RefuseKey /\ ~TakeItem
  BY DEF TakeKey, RefuseKey, TakeItem, Delivering
<1>3. ~RefuseTrailingBytes /\ ~ReturnValue
  BY DEF RefuseTrailingBytes, ReturnValue
<1>. QED
  BY <1>1, <1>2, <1>3 DEF Next, ItemStep

\* A head that is read leaves one thing to do.
LEMMA AfterHead ==
  ASSUME pc = "item", ItemStep, Has(1), IsHead
  PROVE  /\ major \in { 0, 1 } => ReadInteger
         /\ major \in { 2, 3 } => ReadString \/ RefuseString
         /\ major \in { 4, 5 } => OpenContainer \/ RefuseDepth
<1>1. ~EndOfInput /\ ~RefuseHead
  BY DEF EndOfInput, RefuseHead
<1>2. major # 7 => ~ReadSimple /\ ~RefuseSimple
  BY DEF ReadSimple, RefuseSimple
<1>3. major \notin { 0, 1 } => ~ReadInteger
  BY DEF ReadInteger, AtHead
<1>4. major \notin { 2, 3 } => ~ReadString /\ ~RefuseString
  BY DEF ReadString, RefuseString, AtHead
<1>5. major \notin { 4, 5 } => ~OpenContainer /\ ~RefuseDepth
  BY DEF OpenContainer, RefuseDepth, AtHead
<1>6. major # 6 => ~RefuseTag
  BY DEF RefuseTag, AtHead
<1>7. major = 0 \/ major = 1 => major \in { 0, 1 } /\ major # 7 /\ major # 6 /\ major \notin { 2, 3 } /\ major \notin { 4, 5 }
  OBVIOUS
<1>8. major = 2 \/ major = 3 => major \in { 2, 3 } /\ major # 7 /\ major # 6 /\ major \notin { 0, 1 } /\ major \notin { 4, 5 }
  OBVIOUS
<1>9. major = 4 \/ major = 5 => major \in { 4, 5 } /\ major # 7 /\ major # 6 /\ major \notin { 0, 1 } /\ major \notin { 2, 3 }
  OBVIOUS
<1>. QED
  BY <1>1, <1>2, <1>3, <1>4, <1>5, <1>6, <1>7, <1>8, <1>9 DEF ItemStep

\* An integer that is ahead is read.
LEMMA IntegerAhead ==
  ASSUME Inv, pc = "item", ItemStep, NEW e, NEW w \in ValuesOf({}), Sound(w),
         w[1] \in { "uint", "nint" }, Ahead(EncodeItem(w, e))
  PROVE  ReadInteger /\ value' = w
<1>. DEFINE m == IF w[1] = "uint" THEN 0 ELSE 1
            digits == w[2]
<1>1. digits \in Seq(Byte) /\ Len(digits) <= 8 /\ w = << w[1], digits >>
  BY DEF ValuesOf
<1>2. Len(digits) # 0 => digits[1] # 0
  <2>1. digits # << >> => digits[1] # 0
    BY DEF Sound
  <2>2. Len(digits) # 0 => digits # << >>
    OBVIOUS
  <2>. QED
    BY <2>1, <2>2
<1>3. EncodeItem(w, e) = EncodeHead(m, digits)
  BY DEF EncodeItem
<1>4. m \in 0..7 /\ m \in { 0, 1 } /\ TypeOK
  BY DEF Inv
<1>5. Ahead(EncodeHead(m, digits))
  BY <1>3
<1>. HIDE DEF m, digits
<1>6. Has(1) /\ major = m /\ IsHead /\ argument = digits
  BY <1>1, <1>2, <1>4, <1>5, HeadAhead
<1>7. ReadInteger
  BY <1>4, <1>6, AfterHead
<1>8. value' = << IF major = 0 THEN "uint" ELSE "nint", argument >>
  BY <1>7 DEF ReadInteger, Deliver
<1>9. (IF m = 0 THEN "uint" ELSE "nint") = w[1]
  BY DEF m
<1>. QED
  BY <1>1, <1>6, <1>7, <1>8, <1>9

\* So is a string,
LEMMA StringAhead ==
  ASSUME Inv, pc = "item", ItemStep, NEW e, NEW w \in ValuesOf({}), Sound(w),
         w[1] \in { "bytes", "text" }, Ahead(EncodeItem(w, e))
  PROVE  ReadString /\ value' = w
<1>. DEFINE m == IF w[1] = "bytes" THEN 2 ELSE 3
            s == w[2]
            n == Len(s)
            h == EncodeHead(m, LengthDigits(n))
<1>1. s \in Seq(Byte) /\ w = << w[1], s >>
  BY DEF ValuesOf
<1>2. n \in Nat /\ n < COUNT_CAP
  <2>1. Size(w) = n
    BY DEF Size
  <2>2. Size(w) < COUNT_CAP
    BY DEF Sound
  <2>. QED
    BY <1>1, <2>1, <2>2, LenProperties
<1>3. EncodeItem(w, e) = h \o s
  BY DEF EncodeItem
<1>4. m \in 0..7 /\ m \in { 2, 3 } /\ TypeOK
  BY DEF Inv
<1>5. (m = 3 => IsUtf8(s)) /\ (IF m = 2 THEN "bytes" ELSE "text") = w[1]
  BY DEF Sound
<1>6. Ahead(h \o s)
  BY <1>3
<1>. DEFINE digits == LengthDigits(n)
<1>. HIDE DEF m, s, n
<1>7. digits \in Seq(Byte) /\ Len(digits) <= 8 /\ (Len(digits) # 0 => digits[1] # 0)
      /\ Count(digits) = n
  BY <1>2, CountOfLength
<1>. HIDE DEF digits
<1>8. EncodeHead(m, digits) \in Seq(Byte)
  BY <1>4, <1>7, EncodeHeadType
<1>9. /\ Ahead(EncodeHead(m, digits))
      /\ (pos + Len(EncodeHead(m, digits))) + Len(s) <= Len(data)
      /\ SubSeq(data, (pos + Len(EncodeHead(m, digits))) + 1,
                (pos + Len(EncodeHead(m, digits))) + Len(s)) = s
  <2>. DEFINE f == EncodeHead(m, digits)
  <2>1. f \in Seq(Byte) /\ Ahead(f \o s)
    BY <1>6, <1>8 DEF digits
  <2>. HIDE DEF f
  <2>2. Ahead(f) /\ (pos + Len(f)) + Len(s) <= Len(data)
        /\ SubSeq(data, (pos + Len(f)) + 1, (pos + Len(f)) + Len(s)) = s
    BY <1>1, <1>4, <2>1, AheadParts
  <2>. QED
    BY <2>2 DEF f
<1>10. Has(1) /\ major = m /\ IsHead /\ argument = digits /\ headSize = Len(EncodeHead(m, digits))
  BY <1>4, <1>7, <1>9, HeadAhead
<1>11. length = n /\ Len(s) = n
  BY <1>7, <1>10 DEF length, n
<1>12. string = s /\ pos + headSize + length <= Len(data)
  BY <1>9, <1>10, <1>11 DEF string
<1>13. headSize \in Nat /\ pos \in Nat
  <2>1. headSize \in Nat
    BY <1>8, <1>10, LenProperties
  <2>. QED
    BY <1>4, <2>1 DEF TypeOK
<1>14. IsString
  <2>1. pos + (headSize + length) <= Len(data)
    BY <1>2, <1>11, <1>12, <1>13
  <2>. QED
    BY <1>5, <1>10, <1>12, <2>1 DEF IsString, Has
<1>15. ReadString
  <2>1. ReadString \/ RefuseString
    BY <1>4, <1>10, AfterHead
  <2>. QED
    BY <1>14, <2>1 DEF RefuseString
<1>16. value' = << IF major = 2 THEN "bytes" ELSE "text", string >>
  BY <1>15 DEF ReadString, Deliver
<1>. QED
  BY <1>1, <1>5, <1>10, <1>12, <1>15, <1>16

\* and a simple value.
LEMMA SimpleAhead ==
  ASSUME Inv, pc = "item", ItemStep, NEW e, NEW w \in ValuesOf({}), Sound(w),
         w[1] = "simple", Ahead(EncodeItem(w, e))
  PROVE  ReadSimple /\ value' = w
<1>. DEFINE c == w[2]
<1>1. w = << "simple", c >>
  BY DEF ValuesOf
<1>2. c \in 0..22 \cup 32..255
  BY DEF Sound
<1>3. EncodeItem(w, e) = IF c < 24 THEN << 224 + c >> ELSE << 248, c >>
  BY DEF EncodeItem
<1>4. data \in Seq(Byte) /\ pos \in Nat /\ Len(data) \in Nat
  BY DEF Inv, TypeOK
<1>. HIDE DEF c
<1>5. Has(1) /\ major = 7 => ReadSimple \/ (RefuseSimple /\ ~IsSimple)
  <2>1. SUFFICES ASSUME Has(1), major = 7 PROVE ReadSimple \/ RefuseSimple
    BY DEF RefuseSimple
  <2>2. ~EndOfInput /\ ~RefuseHead
    BY <2>1 DEF EndOfInput, RefuseHead
  <2>3. ~ReadInteger /\ ~ReadString /\ ~RefuseString /\ ~OpenContainer /\ ~RefuseDepth
        /\ ~RefuseTag
    <3>1. \A m \in 0..6 : ~AtHead(m)
      BY <2>1 DEF AtHead
    <3>2. ~AtHead(0) /\ ~AtHead(1) /\ ~AtHead(2) /\ ~AtHead(3) /\ ~AtHead(4) /\ ~AtHead(5)
          /\ ~AtHead(6)
      BY <3>1
    <3>. QED
      BY <3>2 DEF ReadInteger, ReadString, RefuseString, OpenContainer, RefuseDepth, RefuseTag
  <2>. QED
    BY <2>2, <2>3 DEF ItemStep
<1>6. CASE c \in 0..22
  <2>. DEFINE b == 224 + c
  <2>1. c < 24 /\ b \div 32 = 7 /\ b % 32 = c /\ c <= 22 /\ c # 24
    BY <1>6
  <2>2. Ahead(<< b >>)
    BY <1>3, <2>1
  <2>. HIDE DEF b
  <2>3. pos + 1 <= Len(data) /\ data[pos + 1] = b
    <3>1. Len(<< b >>) = 1 /\ << b >>[1] = b
      OBVIOUS
    <3>. DEFINE x == << b >>
    <3>2. Ahead(x) /\ Len(x) = 1 /\ x[1] = b
      BY <2>2, <3>1
    <3>. HIDE DEF x
    <3>. QED
      BY <3>2 DEF Ahead
  <2>4. Has(1) /\ major = 7 /\ ai = c
    BY <2>1, <2>3 DEF Has, major, ai, initial
  <2>5. IsSimple
    BY <2>1, <2>4 DEF IsSimple
  <2>6. ReadSimple
    BY <1>5, <2>4, <2>5
  <2>7. value' = << "simple", ai >>
    BY <2>1, <2>4, <2>6 DEF ReadSimple, Deliver
  <2>. QED
    BY <1>1, <2>4, <2>6, <2>7
<1>7. CASE c \in 32..255
  <2>1. ~(c < 24) /\ 248 \div 32 = 7 /\ 248 % 32 = 24 /\ c >= 32
    BY <1>7
  <2>2. Ahead(<< 248, c >>)
    BY <1>3, <2>1
  <2>3. pos + 2 <= Len(data) /\ data[pos + 1] = 248 /\ data[pos + 2] = c
    <3>. DEFINE x == << 248, c >>
    <3>1. Ahead(x) /\ Len(x) = 2 /\ x[1] = 248 /\ x[2] = c
      BY <2>2
    <3>. HIDE DEF x
    <3>. QED
      BY <3>1 DEF Ahead
  <2>4. Has(1) /\ Has(2) /\ major = 7 /\ ai = 24
    BY <1>4, <2>1, <2>3 DEF Has, major, ai, initial
  <2>5. IsSimple
    BY <2>1, <2>3, <2>4 DEF IsSimple
  <2>6. ReadSimple
    BY <1>5, <2>4, <2>5
  <2>7. value' = << "simple", data[pos + 2] >>
    BY <2>4, <2>6 DEF ReadSimple, Deliver
  <2>. QED
    BY <1>1, <2>3, <2>6, <2>7
<1>. QED
  BY <1>2, <1>6, <1>7

\* A valid value without items is read when its encoding is ahead.
LEMMA LeafAhead ==
  ASSUME Inv, pc = "item", ItemStep, NEW d \in 0..max_depth, NEW w \in Valid(d),
         ~IsContainer(w), Ahead(Encoded(w))
  PROVE  (ReadSimple \/ ReadInteger \/ ReadString) /\ value' = w
<1>1. w \in ValuesOf({}) /\ Encoded(w) = EncodeItem(w, EncodeTo[d]) /\ Sound(w)
  BY ValidEncodes, ValidIs
<1>2. w[1] \in { "uint", "nint", "bytes", "text", "simple" }
  BY <1>1 DEF ValuesOf, IsContainer
<1>. DEFINE e == EncodeTo[d]
<1>3. Ahead(EncodeItem(w, e))
  BY <1>1
<1>. HIDE DEF e
<1>. QED
  BY <1>1, <1>2, <1>3, IntegerAhead, StringAhead, SimpleAhead

\* A container is opened, and says how many members it has.
LEMMA ContainerAhead ==
  ASSUME Inv, pc = "item", ItemStep, NEW d \in 0..max_depth, d = max_depth - Len(stack),
         NEW w \in Valid(d), IsContainer(w), Ahead(Encoded(w))
  PROVE  OpenContainer /\ length = Size(w) /\ (IF major = 4 THEN "array" ELSE "map") = w[1]
<1>. DEFINE m == IF w[1] = "array" THEN 4 ELSE 5
            n == Size(w)
            f == EncodeHead(m, LengthDigits(n))
            g == FlattenSeq(EncodedItems(w[2]))
<1>1. /\ w[2] \in Seq(Encodable(d)) /\ n \in Nat /\ n < COUNT_CAP
      /\ Encoded(w) = StartedAs(w[1], n, w[2])
  BY ValidEncodes
<1>2. d # 0
  BY ValidIs
<1>3. m \in 0..7 /\ m \in { 4, 5 } /\ TypeOK /\ (IF m = 4 THEN "array" ELSE "map") = w[1]
  BY DEF Inv, IsContainer
<1>4. Encoded(w) = f \o g
  BY <1>1 DEF StartedAs
<1>5. g \in Seq(Byte)
  <2>. DEFINE s == w[2]
  <2>1. s \in Seq(Encodable(d)) /\ d \in Nat /\ d <= max_depth + 1
    BY <1>1, DecoderAssumption
  <2>. HIDE DEF s
  <2>2. FlattenSeq(EncodedItems(s)) \in Seq(Byte)
    BY <2>1, ItemsAreBytes
  <2>. QED
    BY <2>2 DEF s
<1>. DEFINE digits == LengthDigits(n)
<1>. HIDE DEF m, n, g
<1>6. digits \in Seq(Byte) /\ Len(digits) <= 8 /\ (Len(digits) # 0 => digits[1] # 0)
      /\ Count(digits) = n
  BY <1>1, CountOfLength
<1>. HIDE DEF digits
<1>7. EncodeHead(m, digits) \in Seq(Byte)
  BY <1>3, <1>6, EncodeHeadType
<1>8. Ahead(EncodeHead(m, digits))
  <2>. DEFINE x == EncodeHead(m, digits)
  <2>1. x \in Seq(Byte) /\ Ahead(x \o g)
    BY <1>4, <1>7 DEF digits
  <2>. HIDE DEF x
  <2>2. Ahead(x)
    BY <1>3, <1>5, <2>1, AheadParts
  <2>. QED
    BY <2>2 DEF x
<1>9. Has(1) /\ major = m /\ IsHead /\ argument = digits
  BY <1>3, <1>6, <1>8, HeadAhead
<1>10. length = n
  BY <1>6, <1>9 DEF length
<1>11. OpenContainer
  <2>1. OpenContainer \/ RefuseDepth
    BY <1>3, <1>9, AfterHead
  <2>2. ~(Len(stack) + 1 > max_depth)
    <3>1. Len(stack) \in Nat /\ max_depth \in Nat
      BY DepthLeft
    <3>. QED
      BY <1>2, <3>1
  <2>. QED
    BY <2>1, <2>2 DEF RefuseDepth
<1>. QED
  BY <1>3, <1>9, <1>10, <1>11 DEF n

\* What sequences make, split at one of them.
LEMMA FlattenSplit ==
  ASSUME NEW S, NEW e \in Seq(Seq(S)), NEW l \in Nat, l + 1 <= Len(e)
  PROVE  \E q \in Seq(S) : FlattenSeq(e) = FlattenSeq([ j \in 1..l |-> e[j] ]) \o (e[l + 1] \o q)
<1>. DEFINE n == Len(e)
            F(k) == FlattenSeq([ j \in 1..k |-> e[j] ])
            N == { m \in Nat : l + 1 <= m /\ m <= n =>
                     \E q \in Seq(S) : F(m) = F(l) \o (e[l + 1] \o q) }
<1>1. n \in Nat /\ \A k \in 1..n : e[k] \in Seq(S)
  OBVIOUS
<1>2. /\ \A k \in 0..n : F(k) \in Seq(S)
      /\ \A k \in 1..n : F(k) = F(k - 1) \o e[k]
  <2>. HIDE DEF n
  <2>. QED
    BY <1>1, PartsJoin, ZenonT(30)
<1>3. F(n) = FlattenSeq(e)
  <2>1. [ j \in 1..n |-> e[j] ] = e
    OBVIOUS
  <2>. QED
    BY <2>1
<1>. HIDE DEF n, F
<1>4. 0 \in N
  <2>1. ~(l + 1 <= 0)
    OBVIOUS
  <2>. QED
    BY <2>1
<1>5. ASSUME NEW m \in N PROVE m + 1 \in N
  <2>1. m \in Nat /\ m + 1 \in Nat
    OBVIOUS
  <2>2. ASSUME l + 1 <= m + 1, m + 1 <= n
        PROVE  \E q \in Seq(S) : F(m + 1) = F(l) \o (e[l + 1] \o q)
    <3>. DEFINE k == m + 1
                x == e[k]
    <3>1. k \in 1..n /\ k - 1 = m /\ m \in 0..n /\ m <= n
      BY <1>1, <2>1, <2>2
    <3>2. F(k) = F(m) \o x /\ x \in Seq(S) /\ F(m) \in Seq(S)
      BY <1>1, <1>2, <3>1
    <3>3. CASE l = m
      <4>1. << >> \in Seq(S) /\ x \o << >> = x
        BY <3>2, ConcatEmptySeq, EmptySeq
      <4>. QED
        BY <3>2, <3>3, <4>1
    <3>4. CASE l # m
      <4>1. l + 1 <= m /\ l \in 0..n /\ l + 1 \in 1..n
        BY <1>1, <2>1, <2>2, <3>4
      <4>2. PICK q \in Seq(S) : F(m) = F(l) \o (e[l + 1] \o q)
        BY <3>1, <4>1
      <4>. DEFINE y == e[l + 1]
                  f == F(l)
      <4>3. y \in Seq(S) /\ f \in Seq(S)
        BY <1>1, <1>2, <4>1
      <4>4. F(m) = f \o (y \o q)
        BY <4>2
      <4>5. x \in Seq(S) /\ y \in Seq(S) /\ f \in Seq(S) /\ q \in Seq(S)
        BY <3>2, <4>3
      <4>. HIDE DEF x, y, f, k, N
      <4>6. q \o x \in Seq(S) /\ y \o q \in Seq(S)
        BY <4>5, ConcatProperties
      <4>. DEFINE r == y \o q
      <4>7. r \in Seq(S)
        BY <4>6
      <4>. HIDE DEF r
      <4>8. (f \o r) \o x = f \o (r \o x)
        BY <4>5, <4>7, ConcatAssociative, SMTT(30)
      <4>9. (y \o q) \o x = y \o (q \o x)
        BY <4>5, ConcatAssociative, SMTT(30)
      <4>10. F(k) = f \o (y \o (q \o x))
        BY <3>2, <4>4, <4>8, <4>9 DEF r
      <4>. QED
        BY <4>6, <4>10 DEF y, f, k
    <3>. QED
      BY <3>3, <3>4
  <2>. QED
    BY <2>1, <2>2
<1>6. N = Nat
  <2>. HIDE DEF N
  <2>1. N \in SUBSET Nat
    BY DEF N
  <2>. QED
    BY <1>4, <1>5, <2>1, EveryNatural
<1>7. l + 1 <= n /\ n <= n
  BY <1>1 DEF n
<1>8. \E q \in Seq(S) : F(n) = F(l) \o (e[l + 1] \o q)
  <2>1. n \in N
    <3>. HIDE DEF N
    <3>. QED
      BY <1>1, <1>6
  <2>. QED
    BY <1>7, <2>1
<1>. QED
  BY <1>3, <1>8 DEF F

----------------------------------------------------------------------------
(* The way into a valid value.                                             *)

\* The k-th open container is being filled with the items of u; if it waits for an
\* item, that is w.
Fills(k, u, w) ==
  /\ u \in Valid((max_depth + 1) - k)
  /\ u[1] = stack[k].kind /\ Announced(k) = Size(u)
  /\ Len(built[k]) <= Len(u[2]) /\ \A j \in 1..Len(built[k]) : built[k][j] = u[2][j]
  /\ Reading(k) => Len(built[k]) + 1 <= Len(u[2]) /\ w = u[2][Len(built[k]) + 1]

\* p leads from v, through the open containers, to the value being read.
Path(p, v) ==
  /\ p[1] = v
  /\ \A k \in 1..Len(stack) : Fills(k, p[k], p[k + 1])
  /\ pc = "deliver" => value = p[Len(stack) + 1]

\* What a container is filled with.
LEMMA Filling ==
  ASSUME Inv, NEW k \in 1..Len(stack), NEW u, NEW w, Fills(k, u, w)
  PROVE  /\ (max_depth + 1) - k \in 0..max_depth /\ max_depth - k \in 0..max_depth
         /\ IsContainer(u) /\ Sound(u) /\ u = << u[1], u[2] >>
         /\ u[2] \in Seq(Valid(max_depth - k)) /\ Len(u[2]) \in Nat
         /\ u[2] \in Seq(Encodable((max_depth + 1) - k))
         /\ Size(u) \in Nat /\ Size(u) < COUNT_CAP
         /\ Encoded(u) \in Seq(Byte)
         /\ Encoded(u) = StartedAs(stack[k].kind, Announced(k), u[2])
         /\ Reading(k) => w \in Valid(max_depth - k)
         /\ Len(built[k]) \in Nat
<1>. DEFINE d == (max_depth + 1) - k
<1>1. d \in 0..max_depth /\ d - 1 = max_depth - k /\ max_depth - k \in 0..max_depth
  <2>1. Len(stack) \in Nat /\ Len(stack) <= max_depth /\ max_depth \in Nat
    BY DepthLeft DEF Inv, WithinLimits
  <2>. QED
    BY <2>1
<1>2. u \in Valid(d) /\ u[1] = stack[k].kind /\ Announced(k) = Size(u)
      /\ (Reading(k) => Len(built[k]) + 1 <= Len(u[2]) /\ w = u[2][Len(built[k]) + 1])
  BY DEF Fills
<1>3. stack[k] \in Frames /\ Len(built[k]) \in Nat
  BY ContainerFacts
<1>4. IsContainer(u)
  BY <1>2, <1>3 DEF Frames, IsContainer
<1>. HIDE DEF d
<1>5. Sound(u) /\ u[2] \in Seq(Valid(d - 1))
  BY <1>1, <1>2, <1>4, ValidIs
<1>6. /\ Encoded(u) \in Seq(Byte) /\ u[2] \in Seq(Encodable(d)) /\ u = << u[1], u[2] >>
      /\ Size(u) \in Nat /\ Size(u) < COUNT_CAP
      /\ Encoded(u) = StartedAs(u[1], Size(u), u[2])
  BY <1>1, <1>2, <1>4, ValidEncodes
<1>7. u[2] \in Seq(Valid(max_depth - k))
  BY <1>1, <1>5
<1>8. Len(u[2]) \in Nat
  BY <1>7, LenProperties
<1>9. Reading(k) => w \in Valid(max_depth - k)
  <2>. DEFINE V == Valid(max_depth - k)
              s == u[2]
              j == Len(built[k]) + 1
  <2>1. s \in Seq(V) /\ Len(s) \in Nat
    BY <1>7, <1>8
  <2>2. Reading(k) => j <= Len(s) /\ w = s[j]
    BY <1>2
  <2>3. j \in Nat /\ 1 <= j
    BY <1>3
  <2>. HIDE DEF V, s, j
  <2>4. Reading(k) => j \in 1..Len(s)
    BY <2>1, <2>2, <2>3
  <2>5. Reading(k) => w \in V
    BY <2>1, <2>2, <2>4
  <2>. QED
    BY <2>5 DEF V
<1>. QED
  BY <1>1, <1>2, <1>3, <1>4, <1>5, <1>6, <1>7, <1>8, <1>9 DEF d

\* x is s, then y, then something else.
Continues(x, s, y) == \E q \in Seq(Byte) : x = s \o (y \o q)

\* What is left to read of a container begins with the item it waits for.
LEMMA ContainerAt ==
  ASSUME Inv, NEW k \in 1..Len(stack), NEW u, NEW w, Fills(k, u, w), Reading(k),
         Accounts(k)
  PROVE  Continues(Encoded(u), Started(k), Encoded(w))
<1>. DEFINE d == (max_depth + 1) - k
            l == Len(built[k])
            s == u[2]
            e == EncodedItems(s)
            kind == stack[k].kind
            n == Announced(k)
            h == EncodeHead(IF kind = "array" THEN 4 ELSE 5, LengthDigits(n))
<1>1. /\ d \in Nat /\ d <= max_depth + 1
      /\ s \in Seq(Encodable(d)) /\ Len(s) \in Nat /\ l \in Nat
      /\ n \in Nat /\ n < COUNT_CAP
      /\ Encoded(u) = StartedAs(kind, n, s)
  <2>1. d \in Nat /\ d <= max_depth + 1
    BY LevelOf
  <2>2. Announced(k) = Size(u)
    BY DEF Fills
  <2>. QED
    BY <2>1, <2>2, Filling
<1>2. l + 1 <= Len(s) /\ w = s[l + 1] /\ \A j \in 1..l : built[k][j] = s[j]
  BY DEF Fills
<1>3. built[k] \in Seq(Encodable(d))
  BY DEF Accounts
<1>4. Started(k) = StartedAs(kind, n, built[k])
  BY StartedIs
<1>5. h \in Seq(Byte)
  <2>. HIDE DEF kind, n
  <2>. QED
    BY <1>1, ContainerHead
<1>6. EncodedItems(built[k]) = [ j \in 1..l |-> e[j] ]
  <2>1. DOMAIN built[k] = 1..l /\ DOMAIN s = 1..Len(s)
    BY <1>1, <1>3
  <2>2. \A j \in 1..l : j \in 1..Len(s)
    BY <1>1, <1>2
  <2>3. \A j \in 1..l : e[j] = Encoded(built[k][j])
    BY <1>2, <2>1, <2>2 DEF EncodedItems
  <2>4. EncodedItems(built[k]) = [ j \in 1..l |-> Encoded(built[k][j]) ]
    BY <2>1 DEF EncodedItems
  <2>. HIDE DEF e, l
  <2>. QED
    BY <2>3, <2>4
<1>. HIDE DEF d, s
<1>7. e \in Seq(Seq(Byte)) /\ Len(e) = Len(s) /\ \A j \in 1..Len(s) : e[j] = Encoded(s[j])
  BY <1>1, ItemsAreBytes
<1>8. e[l + 1] = Encoded(w)
  <2>1. l + 1 \in 1..Len(s)
    BY <1>1, <1>2
  <2>. QED
    BY <1>2, <1>7, <2>1
<1>. HIDE DEF e, l
<1>9. PICK q \in Seq(Byte) :
        FlattenSeq(e) = FlattenSeq([ j \in 1..l |-> e[j] ]) \o (e[l + 1] \o q)
  BY <1>1, <1>2, <1>7, FlattenSplit
<1>. DEFINE f == FlattenSeq(EncodedItems(built[k]))
            y == Encoded(w)
            r == y \o q
<1>10. f \in Seq(Byte)
  <2>. DEFINE t == built[k]
  <2>1. t \in Seq(Encodable(d))
    BY <1>3
  <2>. HIDE DEF t
  <2>2. FlattenSeq(EncodedItems(t)) \in Seq(Byte)
    BY <1>1, <2>1, ItemsAreBytes
  <2>. QED
    BY <2>2 DEF t
<1>11. y \in Seq(Byte)
  <2>1. l + 1 \in 1..Len(e)
    BY <1>1, <1>2, <1>7
  <2>. QED
    BY <1>7, <1>8, <2>1
<1>12. r \in Seq(Byte)
  <2>. HIDE DEF y
  <2>. QED
    BY <1>11, ConcatProperties
<1>13. Encoded(u) = h \o (f \o r)
  <2>1. FlattenSeq(e) = f \o r
    BY <1>6, <1>8, <1>9
  <2>. QED
    BY <1>1, <2>1 DEF StartedAs, e, s
<1>14. Started(k) = h \o f
  BY <1>4 DEF StartedAs
<1>15. (h \o f) \o r = h \o (f \o r)
  <2>. HIDE DEF h, f, r
  <2>. QED
    BY <1>5, <1>10, <1>12, ConcatAssociative
<1>16. Encoded(u) = Started(k) \o r
  <2>. HIDE DEF h, f, r
  <2>. QED
    BY <1>13, <1>14, <1>15
<1>. QED
  BY <1>16 DEF Continues

\* The containers on the way into a valid value are plausible.
LEMMA PathIsPlausible ==
  ASSUME Inv, NEW p, NEW v, Path(p, v)
  PROVE  Plausible
<1>1. ASSUME NEW k \in 1..Len(stack) PROVE Announced(k) < COUNT_CAP
  <2>1. Fills(k, p[k], p[k + 1])
    BY <1>1 DEF Path
  <2>2. Announced(k) = Size(p[k])
    BY <2>1 DEF Fills
  <2>. DEFINE u == p[k]
              w == p[k + 1]
  <2>3. Fills(k, u, w)
    BY <2>1
  <2>. HIDE DEF u, w
  <2>4. Size(u) < COUNT_CAP
    BY <2>3, Filling
  <2>. QED
    BY <2>2, <2>4 DEF u
<1>2. DOMAIN stack = 1..Len(stack)
  BY DEF Inv, TypeOK
<1>. QED
  BY <1>1, <1>2 DEF Plausible

\* What the items on the way are.
LEMMA OnTheWay ==
  ASSUME Inv, NEW v \in Valid(max_depth), NEW p, Path(p, v), NEW k \in 0..Len(stack),
         k = 0 \/ Reading(k)
  PROVE  /\ max_depth - k \in 0..max_depth
         /\ p[k + 1] \in Valid(max_depth - k) /\ Encoded(p[k + 1]) \in Seq(Byte)
<1>1. CASE k = 0
  <2>1. max_depth - 0 = max_depth /\ max_depth \in 0..max_depth
    BY DecoderAssumption
  <2>2. p[0 + 1] = v
    BY DEF Path
  <2>3. Encoded(v) \in Seq(Byte)
    BY <2>1, ValidEncodes
  <2>. QED
    BY <1>1, <2>1, <2>2, <2>3
<1>2. CASE k # 0
  <2>. DEFINE u == p[k]
              w == p[k + 1]
              d == max_depth - k
  <2>1. k \in 1..Len(stack) /\ Reading(k)
    <3>1. Len(stack) \in Nat
      BY DepthLeft
    <3>. QED
      BY <1>2, <3>1
  <2>2. Fills(k, u, w)
    BY <2>1 DEF Path
  <2>. HIDE DEF u, w
  <2>3. d \in 0..max_depth /\ w \in Valid(d)
    BY <2>1, <2>2, Filling
  <2>. HIDE DEF d
  <2>4. Encoded(w) \in Seq(Byte)
    BY <2>3, ValidEncodes
  <2>. QED
    BY <2>3, <2>4 DEF d, w
<1>. QED
  BY <1>1, <1>2

\* The input is what has been read of the containers, then the item on the way.
LEMMA PathAhead ==
  ASSUME AccountInv, pc # "done", NEW v \in Valid(max_depth), Encoded(v) = data,
         NEW p, Path(p, v), NEW k \in 0..Len(stack), k = 0 \/ Reading(k)
  PROVE  \E r \in Seq(Byte) : data = Outer(k) \o (Encoded(p[k + 1]) \o r)
<1>. DEFINE L == Len(stack)
            N == { m \in Nat : m <= L /\ (m = 0 \/ Reading(m)) =>
                     \E r \in Seq(Byte) : data = Outer(m) \o (Encoded(p[m + 1]) \o r) }
<1>1. Inv /\ Accounting /\ L \in Nat
  BY DepthLeft DEF AccountInv
<1>2. Plausible
  BY <1>1, PathIsPlausible
<1>3. \A j \in 1..L : Accounts(j)
  BY <1>1, <1>2, Position
<1>4. /\ Outer(0) = << >>
      /\ \A j \in 0..L : Outer(j) \in Seq(Byte)
      /\ \A j \in 1..L : Started(j) \in Seq(Byte) /\ Outer(j) = Outer(j - 1) \o Started(j)
  <2>1. \A j \in DOMAIN stack : Accounts(j)
    BY <1>1, <1>3 DEF Inv, TypeOK
  <2>. QED
    BY <1>1, <1>2, <2>1, AccountFacts
<1>5. 0 \in N
  <2>1. data \in Seq(Byte) /\ << >> \o data = data /\ data \o << >> = data
        /\ << >> \in Seq(Byte)
    BY <1>1, ConcatEmptySeq, EmptySeq DEF Inv, TypeOK
  <2>2. p[0 + 1] = v
    BY DEF Path
  <2>4. data = Outer(0) \o (Encoded(p[0 + 1]) \o << >>)
    BY <1>4, <2>1, <2>2
  <2>. QED
    BY <2>1, <2>4
<1>6. ASSUME NEW m \in N PROVE m + 1 \in N
  <2>. DEFINE j == m + 1
              u == p[j]
              w == p[j + 1]
  <2>1. m \in Nat /\ j \in Nat
    OBVIOUS
  <2>2. SUFFICES ASSUME m + 1 <= L, m + 1 = 0 \/ Reading(m + 1)
        PROVE  \E r \in Seq(Byte) : data = Outer(m + 1) \o (Encoded(p[(m + 1) + 1]) \o r)
    BY <2>1
  <2>3. j <= L /\ Reading(j)
    <3>1. m + 1 # 0
      BY <2>1
    <3>. QED
      BY <2>2, <3>1
  <2>4. j \in 1..L /\ j - 1 = m /\ m <= L /\ (m = 0 \/ (m \in 1..L /\ m # L)) /\ m \in 0..L
        /\ j \in 0..L
    BY <1>1, <2>3, <2>1
  <2>5. m = 0 \/ Reading(m)
    BY <1>1, <2>4, ReadingIs
  <2>6. PICK r \in Seq(Byte) : data = Outer(m) \o (Encoded(u) \o r)
    BY <2>4, <2>5
  <2>. HIDE DEF N
  <2>7. Fills(j, u, w) /\ Accounts(j)
    BY <1>3, <2>4 DEF Path
  <2>8. Encoded(w) \in Seq(Byte)
    BY <1>1, <2>3, <2>4, OnTheWay
  <2>. HIDE DEF u, w
  <2>9. PICK q \in Seq(Byte) : Encoded(u) = Started(j) \o (Encoded(w) \o q)
    <3>1. j \in 1..Len(stack) /\ Reading(j)
      BY <2>3, <2>4
    <3>. HIDE DEF j
    <3>2. Continues(Encoded(u), Started(j), Encoded(w))
      <4>1. Inv /\ Fills(j, u, w) /\ Accounts(j)
        BY <1>1, <2>7
      <4>. QED
        BY <3>1, <4>1, ContainerAt
    <3>. QED
      BY <3>2 DEF Continues
  <2>10. Outer(m) \in Seq(Byte) /\ Started(j) \in Seq(Byte)
        /\ Outer(j) = Outer(m) \o Started(j)
    <3>1. Outer(j) = Outer(j - 1) \o Started(j) /\ Started(j) \in Seq(Byte)
      BY <1>4, <2>4
    <3>2. Outer(m) \in Seq(Byte)
      BY <1>4, <2>4
    <3>. HIDE DEF j
    <3>. QED
      BY <2>4, <3>1, <3>2
  <2>. DEFINE o == Outer(m)
              s == Started(j)
              y == Encoded(w)
              x == y \o q
              z == y \o (q \o r)
  <2>11. o \in Seq(Byte) /\ s \in Seq(Byte) /\ y \in Seq(Byte)
    BY <2>8, <2>10
  <2>12. data = o \o ((s \o x) \o r) /\ Outer(j) = o \o s
    BY <2>6, <2>9, <2>10
  <2>. HIDE DEF o, s, y
  <2>13. x \in Seq(Byte) /\ q \o r \in Seq(Byte)
    BY <2>11, ConcatProperties
  <2>14. x \o r = z
    BY <2>11, ConcatAssociative, SMTT(30)
  <2>15. z \in Seq(Byte)
    <3>. DEFINE t == q \o r
    <3>1. t \in Seq(Byte)
      BY <2>13
    <3>. HIDE DEF t
    <3>2. y \o t \in Seq(Byte)
      BY <2>11, <3>1, ConcatProperties
    <3>. QED
      BY <3>2 DEF t
  <2>16. x \in Seq(Byte)
    BY <2>13
  <2>. HIDE DEF x, z
  <2>17. (s \o x) \o r = s \o (x \o r)
    BY <2>11, <2>16, ConcatAssociative, SMTT(30)
  <2>18. (o \o s) \o z = o \o (s \o z)
    <3>1. o \in Seq(Byte) /\ s \in Seq(Byte) /\ z \in Seq(Byte)
      BY <2>11, <2>15
    <3>. QED
      BY <3>1, ConcatAssociative, SMTT(30)
  <2>19. data = Outer(j) \o z
    BY <2>12, <2>14, <2>18, <2>17
  <2>20. data = Outer(m + 1) \o (Encoded(p[(m + 1) + 1]) \o (q \o r))
    BY <2>19 DEF z, y, w
  <2>. QED
    BY <2>13, <2>20
<1>7. N = Nat
  <2>. HIDE DEF N
  <2>1. N \in SUBSET Nat
    BY DEF N
  <2>. QED
    BY <1>5, <1>6, <2>1, EveryNatural
<1>8. k \in N /\ k <= L
  <2>. HIDE DEF N
  <2>. QED
    BY <1>1, <1>7
<1>. QED
  BY <1>8

\* So the next item is ahead.
LEMMA NextAhead ==
  ASSUME AccountInv, pc = "item", NEW v \in Valid(max_depth), Encoded(v) = data,
         NEW p, Path(p, v)
  PROVE  /\ max_depth - Len(stack) \in 0..max_depth
         /\ p[Len(stack) + 1] \in Valid(max_depth - Len(stack))
         /\ Ahead(Encoded(p[Len(stack) + 1]))
<1>. DEFINE L == Len(stack)
            w == p[L + 1]
            o == Outer(L)
            x == Encoded(w)
<1>1. Inv /\ Accounting /\ L \in Nat /\ L \in 0..Len(stack)
  BY DepthLeft DEF AccountInv
<1>2. L = 0 \/ Reading(L)
  BY DEF Reading
<1>3. max_depth - L \in 0..max_depth /\ w \in Valid(max_depth - L) /\ x \in Seq(Byte)
  BY <1>1, <1>2, OnTheWay
<1>4. PICK r \in Seq(Byte) : data = o \o (x \o r)
  <2>1. pc # "done"
    OBVIOUS
  <2>2. \E r \in Seq(Byte) : data = Outer(L) \o (Encoded(p[L + 1]) \o r)
    <3>. HIDE DEF L
    <3>. QED
      BY <1>1, <1>2, <2>1, PathAhead DEF L
  <2>. QED
    BY <2>2
<1>5. Plausible
  BY <1>1, PathIsPlausible
<1>6. o \in Seq(Byte) /\ SubSeq(data, 1, pos) = o
  BY <1>1, <1>5, Position
<1>7. data \in Seq(Byte) /\ pos \in Nat /\ Len(data) \in Nat /\ pos <= Len(data)
  BY <1>1 DEF Inv, TypeOK, WithinLimits
<1>8. Len(o) = pos
  <2>1. Len(SubSeq(data, 0 + 1, pos)) = pos - 0
    <3>1. 0 \in Nat /\ 0 <= pos
      BY <1>7
    <3>. QED
      BY <1>7, <3>1, Slice
  <2>. HIDE DEF o
  <2>. QED
    BY <1>6, <1>7, <2>1
<1>. HIDE DEF o, x
<1>9. Ahead(x)
  <2>. DEFINE z == x \o r
              a == Len(x)
  <2>1. /\ z \in Seq(Byte) /\ a \in Nat /\ Len(r) \in Nat /\ Len(z) = a + Len(r)
        /\ \A j \in 1..a : z[j] = x[j]
    BY <1>3, ConcatAt
  <2>2. data = o \o z
    BY <1>4
  <2>. HIDE DEF z
  <2>3. Len(data) = pos + Len(z) /\ \A j \in 1..Len(z) : data[pos + j] = z[j]
    <3>0. o \in Seq(Byte) /\ z \in Seq(Byte)
      BY <1>6, <2>1
    <3>1. Len(o \o z) = Len(o) + Len(z) /\ \A j \in 1..Len(z) : (o \o z)[Len(o) + j] = z[j]
      BY <3>0, ConcatAt
    <3>. QED
      BY <1>8, <2>2, <3>1
  <2>4. pos + a <= Len(data)
    BY <1>7, <2>1, <2>3
  <2>5. \A j \in 1..a : j \in 1..Len(z)
    BY <2>1
  <2>6. \A j \in 1..a : data[pos + j] = x[j]
    BY <2>1, <2>3, <2>5
  <2>. QED
    BY <2>4, <2>6 DEF Ahead
<1>. QED
  BY <1>3, <1>9 DEF x

----------------------------------------------------------------------------
(* What a step does to a path.                                             *)

\* A container that is as it was is filled as it was.
LEMMA SameFills ==
  ASSUME NEW k, NEW u, NEW w, Fills(k, u, w),
         stack'[k].kind = stack[k].kind, built'[k] = built[k],
         Announced(k)' = Announced(k), Reading(k)' => Reading(k)
  PROVE  Fills(k, u, w)'
BY DEF Fills

\* A container that declares members which have not begun has items to come; one that
\* has no member left has all its items; and a key is followed by its value.
LEMMA ItemsLeft ==
  ASSUME Inv, Loops, pc # "done", NEW k \in 1..Len(stack), NEW u, NEW w, Fills(k, u, w)
  PROVE  /\ ~Reading(k) /\ stack[k].left > 0 => Len(built[k]) + 1 <= Len(u[2])
         /\ ~Reading(k) /\ stack[k].left = 0 => Len(built[k]) = Len(u[2])
         /\ Reading(k) /\ stack[k].wantsKey => Len(built[k]) + 2 <= Len(u[2])
<1>. DEFINE a == Len(built[k])
            b == Len(u[2])
            left == stack[k].left
<1>1. a \in Nat /\ b \in Nat /\ IsContainer(u) /\ Sound(u)
  BY Filling
<1>2. stack[k] \in Frames /\ DOMAIN stack = 1..Len(stack)
  BY ContainerFacts
<1>3. InLoop(k)
  BY <1>2 DEF Loops
<1>4. left \in Nat /\ stack[k].kind \in { "array", "map" }
  BY <1>2 DEF Frames
<1>5. /\ u[1] = stack[k].kind /\ Announced(k) = Size(u)
      /\ Reading(k) => a + 1 <= b
  BY DEF Fills
<1>6. CASE stack[k].kind = "array"
  <2>1. Size(u) = b /\ stack[k].kind # "map"
    BY <1>5, <1>6 DEF Size
  <2>2. ~Reading(k) => Announced(k) = left + a + 0
    BY <1>6 DEF Announced
  <2>3. ~stack[k].wantsKey
    BY <1>3, <2>1 DEF InLoop
  <2>. HIDE DEF a, b, left
  <2>. QED
    BY <1>1, <1>4, <1>5, <2>1, <2>2, <2>3 DEF a, b, left
<1>7. CASE stack[k].kind = "map"
  <2>1. Size(u) = b \div 2 /\ b % 2 # 1
    BY <1>1, <1>5, <1>7 DEF Size, Sound
  <2>2. ~Reading(k) => Announced(k) = left + (a \div 2) + 0
    BY <1>7 DEF Announced
  <2>3. ~Reading(k) \/ stack[k].wantsKey => ~(a % 2 = 1)
    BY <1>3, <1>7 DEF InLoop
  <2>. HIDE DEF a, b, left
  <2>4. \A x, y, z \in Nat : x % 2 # 1 /\ y % 2 # 1 /\ z + (x \div 2) = y \div 2 =>
          (z > 0 => x + 1 <= y) /\ (z = 0 => x = y)
    OBVIOUS
  <2>5. \A x, y \in Nat : x % 2 # 1 /\ y % 2 # 1 /\ x + 1 <= y => x + 2 <= y
    OBVIOUS
  <2>6. ~Reading(k) => a % 2 # 1 /\ left + (a \div 2) = b \div 2
    <3>1. \A x, y \in Nat : x + (y \div 2) + 0 = x + (y \div 2)
      OBVIOUS
    <3>. QED
      BY <1>1, <1>4, <1>5, <2>1, <2>2, <2>3, <3>1
  <2>7. ~Reading(k) => (left > 0 => a + 1 <= b) /\ (left = 0 => a = b)
    BY <1>1, <1>4, <2>1, <2>4, <2>6
  <2>8. Reading(k) /\ stack[k].wantsKey => a + 2 <= b
    BY <1>1, <1>5, <2>1, <2>3, <2>5
  <2>. QED
    BY <2>7, <2>8 DEF a, b, left
<1>. QED
  BY <1>4, <1>6, <1>7

\* The item that the path leads to has been read.
LEMMA LeafOnPath ==
  ASSUME Inv, NEW v, NEW p, Path(p, v), ReadSimple \/ ReadInteger \/ ReadString,
         value' = p[Len(stack) + 1]
  PROVE  Path(p, v)'
<1>1. pc = "item" /\ pc' = "deliver" /\ stack' = stack /\ built' = built
  BY DEF ReadSimple, ReadInteger, ReadString, AtHead, Deliver
<1>2. ASSUME NEW k \in 1..Len(stack) PROVE Fills(k, p[k], p[k + 1])'
  <2>1. Fills(k, p[k], p[k + 1])
    BY <1>2 DEF Path
  <2>2. Reading(k) /\ Reading(k)'
    BY <1>1 DEF Reading
  <2>3. Announced(k)' = Announced(k)
    BY <1>1, <2>2 DEF Announced
  <2>. QED
    BY <1>1, <2>1, <2>2, <2>3, SameFills
<1>. QED
  BY <1>1, <1>2 DEF Path

\* The container that the path leads to has been opened.
LEMMA ContainerOnPath ==
  ASSUME Inv, Inv', NEW v, NEW p, Path(p, v), OpenContainer,
         length = Size(p[Len(stack) + 1]),
         (IF major = 4 THEN "array" ELSE "map") = p[Len(stack) + 1][1],
         p[Len(stack) + 1] \in Valid(max_depth - Len(stack))
  PROVE  Path(p, v)'
<1>. DEFINE L == Len(stack)
<1>1. L \in Nat /\ Len(stack') = L + 1 /\ pc' = "member"
  <2>1. Len(stack') = Len(stack) + 1
    BY OpenFacts
  <2>. QED
    BY <2>1, DepthLeft DEF OpenContainer
<1>2. ASSUME NEW k \in 1..L PROVE Fills(k, p[k], p[k + 1])'
  <2>1. Fills(k, p[k], p[k + 1])
    BY <1>2 DEF Path
  <2>2. stack'[k] = stack[k] /\ built'[k] = built[k] /\ Reading(k) /\ Reading(k)'
    BY <1>2, OpenFacts
  <2>3. Announced(k)' = Announced(k)
    BY <2>2, SameContainer
  <2>. QED
    BY <2>1, <2>2, <2>3, SameFills
<1>3. ASSUME NEW k, k = L + 1, NEW u, u = p[L + 1], NEW w PROVE Fills(k, u, w)'
  <2>0. length = Size(u) /\ (IF major = 4 THEN "array" ELSE "map") = u[1]
        /\ u \in Valid(max_depth - L)
    BY <1>3
  <2>1. stack'[k].kind = u[1] /\ stack'[k].left = Size(u) /\ built'[k] = << >>
    BY <1>3, <2>0, OpenFacts
  <2>2. ~Reading(k)'
    <3>1. k \in 1..L + 1
      BY <1>1, <1>3
    <3>. QED
      BY <1>3, <3>1, OpenFacts
  <2>3. u \in Valid(max_depth - L) /\ (max_depth + 1) - k = max_depth - L
    BY <1>1, <1>3, <2>0, DepthLeft
  <2>4. Len(built'[k]) = 0 /\ 0 \div 2 = 0
    BY <2>1
  <2>5. k \in 1..Len(stack') /\ Size(u) \in Nat /\ IsContainer(u)
    <3>1. k \in 1..Len(stack')
      BY <1>1, <1>3
    <3>2. stack'[k] \in Frames
      BY <3>1 DEF Inv, TypeOK
    <3>. QED
      BY <2>1, <3>1, <3>2 DEF Frames, IsContainer
  <2>6. Announced(k)' = Size(u)
    <3>1. Announced(k)' = stack'[k].left
            + (IF stack'[k].kind = "array" THEN Len(built'[k]) ELSE Len(built'[k]) \div 2)
            + (IF Reading(k)' THEN 1 ELSE 0)
      BY DEF Announced
    <3>2. Announced(k)' = Size(u) + 0 + 0
      BY <2>1, <2>2, <2>4, <3>1
    <3>3. \A x \in Nat : x + 0 + 0 = x
      OBVIOUS
    <3>. QED
      BY <2>5, <3>2, <3>3
  <2>7. Len(u[2]) \in Nat
    <3>1. max_depth - L \in 0..max_depth
      BY <1>1, DepthLeft
    <3>. DEFINE d == max_depth - L
                s == u[2]
    <3>2. s \in Seq(Encodable(d))
      <4>1. d \in 0..max_depth /\ u \in Valid(d) /\ IsContainer(u)
        BY <2>3, <2>5, <3>1
      <4>. HIDE DEF d
      <4>. QED
        BY <4>1, ValidEncodes
    <3>. HIDE DEF s
    <3>3. Len(s) \in Nat
      BY <3>2, LenProperties
    <3>. QED
      BY <3>3 DEF s
  <2>8. Len(built'[k]) <= Len(u[2]) /\ \A j \in 1..Len(built'[k]) : built'[k][j] = u[2][j]
    <3>1. \A j \in 1..0 : FALSE
      OBVIOUS
    <3>. QED
      BY <2>4, <2>7, <3>1
  <2>. HIDE DEF L
  <2>. QED
    BY <2>1, <2>2, <2>3, <2>6, <2>8 DEF Fills
<1>4. \A k \in 1..L + 1 : k \in 1..L \/ k = L + 1
  BY <1>1
<1>5. ASSUME NEW k \in 1..Len(stack') PROVE Fills(k, p[k], p[k + 1])'
  <2>1. k \in 1..L \/ k = L + 1
    BY <1>1, <1>4
  <2>2. CASE k = L + 1
    <3>1. p[k] = p[L + 1]
      BY <2>2
    <3>. QED
      BY <1>3, <2>2, <3>1
  <2>. QED
    BY <1>2, <2>1, <2>2
<1>6. p[1] = v
  BY DEF Path
<1>. QED
  BY <1>1, <1>5, <1>6 DEF Path

\* A path that leads on to w from where p leads.
LEMMA LeadOn ==
  ASSUME NEW p, NEW n \in Nat, NEW w
  PROVE  \E q : q[n + 1] = w /\ \A k \in 1..n : q[k] = p[k]
<1>. DEFINE q == [ k \in 1..n + 1 |-> IF k = n + 1 THEN w ELSE p[k] ]
<1>1. q[n + 1] = w /\ \A k \in 1..n : q[k] = p[k]
  OBVIOUS
<1>. QED
  BY <1>1

\* The containers around the innermost one, when it changes.
LEMMA AroundOnPath ==
  ASSUME Inv, NEW v, NEW p, Path(p, v), NEW q, NEW L, L = Len(stack),
         Len(stack') = L, L \in Nat \ {0}, \A k \in 1..L : q[k] = p[k],
         \A k \in 1..L : k # L =>
           /\ stack'[k] = stack[k] /\ built'[k] = built[k] /\ Announced(k)' = Announced(k),
         Fills(L, q[L], q[L + 1])',
         pc' # "deliver"
  PROVE  Path(q, v)'
<1>1. ASSUME NEW k \in 1..L, k # L PROVE Fills(k, q[k], q[k + 1])'
  <2>1. Fills(k, p[k], p[k + 1])
    BY <1>1 DEF Path
  <2>2. k + 1 \in 1..L /\ k < L
    BY <1>1
  <2>3. Fills(k, q[k], q[k + 1])
    <3>1. q[k] = p[k] /\ q[k + 1] = p[k + 1]
      BY <1>1, <2>2
    <3>. QED
      BY <2>1, <3>1
  <2>4. Reading(k)
    BY <2>2 DEF Reading
  <2>5. stack'[k].kind = stack[k].kind /\ built'[k] = built[k] /\ Announced(k)' = Announced(k)
    BY <1>1
  <2>. QED
    BY <2>3, <2>4, <2>5, SameFills
<1>2. q[1] = v
  <2>1. 1 \in 1..L
    OBVIOUS
  <2>. QED
    BY <2>1 DEF Path
<1>3. \A k \in 1..Len(stack') : Fills(k, q[k], q[k + 1])'
  <2>1. ASSUME NEW k \in 1..Len(stack') PROVE Fills(k, q[k], q[k + 1])'
    <3>1. k \in 1..L
      BY <2>1
    <3>2. CASE k = L
      BY <3>2
    <3>3. CASE k # L
      BY <1>1, <3>1, <3>3
    <3>. QED
      BY <3>2, <3>3
  <2>. QED
    BY <2>1
<1>. QED
  BY <1>2, <1>3 DEF Path

\* A member counted is the next one.
LEMMA CountOnPath ==
  ASSUME Inv, Inv', Loops, NEW v, NEW p, Path(p, v), CountMember
  PROVE  \E q : Path(q, v)'
<1>1. PICK L : L = Len(stack)
  OBVIOUS
<1>2. L \in Nat \ {0} /\ L \in 1..Len(stack)
  <2>1. Len(stack) \in Nat \ {0}
    BY CountFacts
  <2>. QED
    BY <1>1, <2>1
<1>3. PICK u : u = p[L]
  OBVIOUS
<1>4. PICK w : w = u[2][Len(built[L]) + 1]
  OBVIOUS
<1>5. PICK q : q[L + 1] = w /\ \A k \in 1..L : q[k] = p[k]
  <2>1. L \in Nat
    BY <1>2
  <2>. QED
    BY <2>1, LeadOn
<1>6. Fills(L, u, p[L + 1])
  BY <1>1, <1>2, <1>3 DEF Path
<1>7. /\ Len(stack') = L /\ built' = built
      /\ \A k \in 1..L : k # L => stack'[k] = stack[k]
      /\ ~Reading(L) /\ stack'[L].kind = stack[L].kind /\ stack[L].left > 0
  <2>1. /\ Len(stack') = Len(stack) /\ built' = built
        /\ \A k \in 1..Len(stack) : k # Len(stack) => stack'[k] = stack[k]
        /\ \A k \in 1..Len(stack) : Reading(k)' /\ (Reading(k) <=> k # Len(stack))
        /\ stack'[Len(stack)].kind = stack[Len(stack)].kind
    BY CountFacts
  <2>2. stack[Len(stack)].left > 0
    BY DEF CountMember, top
  <2>. QED
    BY <1>1, <1>2, <2>1, <2>2
<1>8. \A k \in 1..L : Announced(k)' = Announced(k)
  BY <1>1, CountKeepsLoops
<1>9. pc = "member" /\ pc' = "item"
  BY DEF CountMember
<1>10. Len(built[L]) + 1 <= Len(u[2])
  <2>1. pc # "done"
    BY <1>9
  <2>. QED
    BY <1>2, <1>6, <1>7, <2>1, ItemsLeft
<1>11. Fills(L, u, w)'
  <2>1. /\ u \in Valid((max_depth + 1) - L)
        /\ u[1] = stack'[L].kind /\ Announced(L)' = Size(u)
        /\ Len(built'[L]) <= Len(u[2]) /\ \A j \in 1..Len(built'[L]) : built'[L][j] = u[2][j]
    BY <1>2, <1>6, <1>7, <1>8 DEF Fills
  <2>2. Len(built'[L]) + 1 <= Len(u[2]) /\ w = u[2][Len(built'[L]) + 1]
    BY <1>4, <1>7, <1>10
  <2>. QED
    BY <2>1, <2>2 DEF Fills
<1>12. Fills(L, q[L], q[L + 1])'
  <2>1. q[L] = u /\ q[L + 1] = w
    BY <1>2, <1>1, <1>3, <1>5
  <2>. QED
    BY <1>11, <2>1
<1>13. \A k \in 1..L : k # L =>
         /\ stack'[k] = stack[k] /\ built'[k] = built[k] /\ Announced(k)' = Announced(k)
  BY <1>7, <1>8
<1>14. Path(q, v)'
  BY <1>1, <1>2, <1>5, <1>7, <1>9, <1>12, <1>13, AroundOnPath
<1>. QED
  BY <1>14

\* A container with all its members is the value the path leads to.
LEMMA CloseOnPath ==
  ASSUME Inv, Loops, NEW v, NEW p, Path(p, v), CloseContainer
  PROVE  Path(p, v)'
<1>1. PICK L : L = Len(stack)
  OBVIOUS
<1>2. /\ L \in Nat \ {0} /\ L \in 1..Len(stack) /\ Len(stack') = L - 1
      /\ \A k \in 1..L - 1 : /\ stack'[k] = stack[k] /\ built'[k] = built[k]
                             /\ Reading(k) /\ Reading(k)'
      /\ ~Reading(L) /\ stack[L].left = 0
  <2>1. /\ Len(stack) \in Nat \ {0} /\ Len(stack') = Len(stack) - 1
        /\ \A k \in 1..Len(stack) - 1 : /\ stack'[k] = stack[k] /\ built'[k] = built[k]
                                        /\ Reading(k) /\ Reading(k)'
        /\ ~Reading(Len(stack)) /\ stack[Len(stack)].left = 0
    BY CloseFacts
  <2>2. L \in 1..Len(stack)
    BY <1>1, <2>1
  <2>. QED
    BY <1>1, <2>1, <2>2
<1>3. PICK u : u = p[L]
  OBVIOUS
<1>4. Fills(L, u, p[L + 1])
  BY <1>2, <1>3 DEF Path
<1>5. pc = "member" /\ pc' = "deliver" /\ value' = << stack[L].kind, built[L] >>
  <2>1. Len(built) = Len(stack)
    BY DEF Inv, TypeOK
  <2>. QED
    BY <1>1, <2>1 DEF CloseContainer, top, items
<1>6. value' = u
  <2>. DEFINE s == u[2]
              t == built[L]
  <2>1. Len(t) = Len(s)
    <3>1. pc # "done"
      BY <1>5
    <3>. QED
      BY <1>2, <1>4, <3>1, ItemsLeft
  <2>2. u[1] = stack[L].kind /\ \A j \in 1..Len(t) : t[j] = s[j]
    BY <1>4 DEF Fills
  <2>3. u = << u[1], s >> /\ s \in Seq(Valid(max_depth - L))
    BY <1>2, <1>4, Filling
  <2>4. t = s
    <3>1. PICK S : built \in Seq(Seq(S))
      BY DEF Inv, Lists
    <3>2. t \in Seq(S)
      <4>1. L \in 1..Len(built)
        BY <1>2 DEF Inv, TypeOK
      <4>. QED
        BY <3>1, <4>1
    <3>. DEFINE T == Valid(max_depth - L)
    <3>3. s \in Seq(T)
      BY <2>3
    <3>. HIDE DEF s, t, T
    <3>4. t \in Seq(S \cup T) /\ s \in Seq(S \cup T)
      BY <3>2, <3>3
    <3>. QED
      BY <2>1, <2>2, <3>4, SeqEqual
  <2>. HIDE DEF s, t
  <2>. QED
    BY <1>5, <2>2, <2>3, <2>4 DEF t
<1>7. ASSUME NEW k \in 1..Len(stack') PROVE Fills(k, p[k], p[k + 1])'
  <2>1. k \in 1..L - 1 /\ k \in 1..Len(stack)
    BY <1>1, <1>2
  <2>2. Fills(k, p[k], p[k + 1])
    BY <2>1 DEF Path
  <2>3. stack'[k] = stack[k] /\ built'[k] = built[k] /\ Reading(k) /\ Reading(k)'
    BY <1>2, <2>1
  <2>4. Announced(k)' = Announced(k)
    BY <2>3, SameContainer
  <2>. QED
    BY <2>2, <2>3, <2>4, SameFills
<1>8. value' = p[Len(stack') + 1]
  <2>1. (L - 1) + 1 = L
    BY <1>2
  <2>. QED
    BY <1>2, <1>3, <1>6, <2>1
<1>. QED
  BY <1>7, <1>8 DEF Path

\* Where an item of the path is delivered.
LEMMA Delivered ==
  ASSUME Inv, NEW v, NEW p, Path(p, v), pc = "deliver", stack # << >>,
         NEW L, L = Len(stack), NEW u, u = p[L]
  PROVE  /\ L \in Nat \ {0} /\ L \in 1..Len(stack)
         /\ Fills(L, u, value) /\ Reading(L)
<1>1. L \in Nat \ {0} /\ L \in 1..Len(stack)
  <2>1. Len(stack) \in Nat \ {0}
    BY TopFacts
  <2>. QED
    BY <2>1
<1>2. Fills(L, u, p[L + 1]) /\ value = p[L + 1]
  BY <1>1 DEF Path
<1>. QED
  BY <1>1, <1>2 DEF Reading

\* What an item leaves in the container that it is delivered to.
LEMMA TakenOnPath ==
  ASSUME Inv, Inv', Loops, NEW v, NEW p, Path(p, v), TakeKey \/ TakeItem,
         NEW L, L = Len(stack), NEW u, u = p[L]
  PROVE  /\ L \in Nat \ {0} /\ Len(stack') = L
         /\ \A k \in 1..L : k # L =>
              /\ stack'[k] = stack[k] /\ built'[k] = built[k] /\ Announced(k)' = Announced(k)
         /\ u \in Valid((max_depth + 1) - L)
         /\ u[1] = stack'[L].kind /\ Announced(L)' = Size(u)
         /\ Len(built'[L]) = Len(built[L]) + 1
         /\ Len(built'[L]) <= Len(u[2]) /\ \A j \in 1..Len(built'[L]) : built'[L][j] = u[2][j]
         /\ TakeKey => Len(built'[L]) + 1 <= Len(u[2])
<1>1. pc = "deliver" /\ stack # << >>
  BY DEF TakeKey, TakeItem, Delivering
<1>2. L \in Nat \ {0} /\ L \in 1..Len(stack) /\ Fills(L, u, value) /\ Reading(L)
  BY <1>1, Delivered
<1>3. /\ Len(stack') = L
      /\ \A k \in 1..L : k # L => stack'[k] = stack[k] /\ built'[k] = built[k]
      /\ built'[L] = Append(built[L], value)
      /\ stack'[L].kind = stack[L].kind
      /\ (stack[L].wantsKey <=> TakeKey)
  <2>1. /\ Len(stack') = Len(stack)
        /\ \A k \in 1..Len(stack) : k # Len(stack) =>
             stack'[k] = stack[k] /\ built'[k] = built[k]
        /\ built'[Len(stack)] = Append(built[Len(stack)], value)
    BY TakeFacts
  <2>2. /\ stack'[Len(stack)].kind = stack[Len(stack)].kind
        /\ (stack[Len(stack)].wantsKey <=> TakeKey)
    BY TakeFacts
  <2>. QED
    BY <2>1, <2>2
<1>4. \A k \in 1..L : Announced(k)' = Announced(k)
  BY TakeKeepsLoops
<1>. DEFINE s == built[L]
            n == Len(s)
<1>5. /\ u \in Valid((max_depth + 1) - L)
      /\ u[1] = stack[L].kind /\ Announced(L) = Size(u)
      /\ n + 1 <= Len(u[2]) /\ value = u[2][n + 1] /\ \A j \in 1..n : s[j] = u[2][j]
  BY <1>2 DEF Fills
<1>6. n \in Nat
  BY <1>2, ContainerFacts
<1>7. /\ Len(Append(s, value)) = n + 1
      /\ \A j \in 1..n + 1 : Append(s, value)[j] = u[2][j]
  <2>1. PICK S : built \in Seq(Seq(S))
    BY DEF Inv, Lists
  <2>2. s \in Seq(S)
    <3>1. L \in 1..Len(built)
      BY <1>2 DEF Inv, TypeOK
    <3>. QED
      BY <2>1, <3>1
  <2>. HIDE DEF s, n
  <2>3. s \in Seq(S \cup { value }) /\ value \in S \cup { value } /\ Len(s) = n
    BY <2>2 DEF n
  <2>4. /\ Len(Append(s, value)) = n + 1 /\ Append(s, value)[n + 1] = value
        /\ \A k \in 1..n : Append(s, value)[k] = s[k]
    BY <1>6, <2>3, AppendIs
  <2>5. \A j \in 1..n + 1 : j \in 1..n \/ j = n + 1
    BY <1>6
  <2>. QED
    BY <1>5, <2>4, <2>5
<1>8. TakeKey => n + 2 <= Len(u[2])
  <2>1. pc # "done"
    BY <1>1
  <2>. QED
    BY <1>2, <1>3, <2>1, ItemsLeft
<1>9. TakeKey => Len(built'[L]) + 1 <= Len(u[2])
  <2>1. Len(built'[L]) + 1 = n + 2
    BY <1>3, <1>6, <1>7
  <2>. QED
    BY <1>8, <2>1
<1>. HIDE DEF n
<1>10. Len(built'[L]) = n + 1
  BY <1>3, <1>7
<1>. QED
  BY <1>2, <1>3, <1>4, <1>5, <1>7, <1>9, <1>10 DEF n

\* After a key, the path leads to the value under it,
LEMMA KeyOnPath ==
  ASSUME Inv, Inv', Loops, NEW v, NEW p, Path(p, v), TakeKey
  PROVE  \E q : Path(q, v)'
<1>1. PICK L : L = Len(stack)
  OBVIOUS
<1>2. PICK u : u = p[L]
  OBVIOUS
<1>3. /\ L \in Nat \ {0} /\ Len(stack') = L
      /\ \A k \in 1..L : k # L =>
           /\ stack'[k] = stack[k] /\ built'[k] = built[k] /\ Announced(k)' = Announced(k)
      /\ u \in Valid((max_depth + 1) - L)
      /\ u[1] = stack'[L].kind /\ Announced(L)' = Size(u)
      /\ Len(built'[L]) <= Len(u[2]) /\ \A j \in 1..Len(built'[L]) : built'[L][j] = u[2][j]
      /\ Len(built'[L]) + 1 <= Len(u[2])
  BY <1>1, <1>2, TakenOnPath
<1>4. PICK w : w = u[2][Len(built'[L]) + 1]
  OBVIOUS
<1>5. PICK q : q[L + 1] = w /\ \A k \in 1..L : q[k] = p[k]
  <2>1. L \in Nat
    BY <1>3
  <2>. QED
    BY <2>1, LeadOn
<1>6. Fills(L, u, w)'
  BY <1>3, <1>4 DEF Fills
<1>7. Fills(L, q[L], q[L + 1])'
  <2>1. L \in 1..L
    BY <1>3
  <2>2. q[L] = u /\ q[L + 1] = w
    BY <1>2, <1>5, <2>1
  <2>. QED
    BY <1>6, <2>2
<1>8. pc' # "deliver"
  BY DEF TakeKey
<1>9. Path(q, v)'
  BY <1>1, <1>3, <1>5, <1>7, <1>8, AroundOnPath
<1>. QED
  BY <1>9

\* and after any other item the container is between two members.
LEMMA ItemOnPath ==
  ASSUME Inv, Inv', Loops, NEW v, NEW p, Path(p, v), TakeItem
  PROVE  Path(p, v)'
<1>1. PICK L : L = Len(stack)
  OBVIOUS
<1>2. PICK u : u = p[L]
  OBVIOUS
<1>3. /\ L \in Nat \ {0} /\ Len(stack') = L
      /\ \A k \in 1..L : k # L =>
           /\ stack'[k] = stack[k] /\ built'[k] = built[k] /\ Announced(k)' = Announced(k)
      /\ u \in Valid((max_depth + 1) - L)
      /\ u[1] = stack'[L].kind /\ Announced(L)' = Size(u)
      /\ Len(built'[L]) <= Len(u[2]) /\ \A j \in 1..Len(built'[L]) : built'[L][j] = u[2][j]
  BY <1>1, <1>2, TakenOnPath
<1>4. pc' = "member"
  BY DEF TakeItem
<1>5. ~Reading(L)'
  <2>1. ~(L < Len(stack'))
    BY <1>3
  <2>. QED
    BY <1>4, <2>1 DEF Reading
<1>6. \A w : Fills(L, u, w)'
  BY <1>3, <1>5 DEF Fills
<1>7. Fills(L, p[L], p[L + 1])'
  BY <1>2, <1>6
<1>8. pc' # "deliver" /\ \A k \in 1..L : p[k] = p[k]
  BY <1>4
<1>. QED
  BY <1>1, <1>3, <1>7, <1>8, AroundOnPath

\* A key that comes after the one before it, is not a container and is not a key of
\* the dict yet is not refused.
LEMMA NotRefused ==
  ASSUME NEW f, f = top.previous,
         f # << >> => keyBytes # f /\ ~LexLess(keyBytes, f),
         ~IsContainer(value),
         \A k \in DOMAIN items : k % 2 = 1 => DictKey(items[k]) # DictKey(value)
  PROVE  KeyRefusal = "none"
<1>1. ~(\E k \in DOMAIN items : k % 2 = 1 /\ DictKey(items[k]) = DictKey(value))
  OBVIOUS
<1>2. ~(top.previous # << >> /\ keyBytes = top.previous)
      /\ ~(top.previous # << >> /\ LexLess(keyBytes, top.previous))
  OBVIOUS
<1>. QED
  BY <1>1, <1>2 DEF KeyRefusal

\* No key of a valid value is refused.
LEMMA KeyAccepted ==
  ASSUME AccountInv, Delivering(TRUE), NEW v, NEW p, Path(p, v)
  PROVE  KeyRefusal = "none"
<1>1. PICK L : L = Len(stack)
  OBVIOUS
<1>2. PICK u : u = p[L]
  OBVIOUS
<1>3. PICK s : s = built[L]
  OBVIOUS
<1>4. PICK t : t = u[2]
  OBVIOUS
<1>5. Inv /\ Loops /\ Accounting /\ Plausible /\ pc = "deliver" /\ stack # << >>
  BY PathIsPlausible DEF AccountInv, Delivering
<1>6. /\ L \in 1..Len(stack) /\ stack[L].kind = "map"
      /\ top = stack[L] /\ Len(s) % 2 # 1
      /\ stack[L].previous = LastKey(s)
      /\ keyBytes = Encoded(value) /\ Encoded(value) \in Seq(Byte)
  BY <1>1, <1>3, <1>5, KeyRead
<1>7. Fills(L, u, value) /\ Reading(L)
  BY <1>1, <1>2, <1>5, Delivered
<1>8. PICK l : l = Len(s)
  OBVIOUS
<1>9. /\ l \in Nat /\ Sound(u) /\ (max_depth + 1) - L \in Nat
      /\ (max_depth + 1) - L <= max_depth + 1
      /\ t \in Seq(Encodable((max_depth + 1) - L)) /\ Len(t) \in Nat
  <2>1. (max_depth + 1) - L \in Nat /\ (max_depth + 1) - L <= max_depth + 1
    BY <1>5, <1>6, LevelOf
  <2>2. /\ Sound(u) /\ Len(u[2]) \in Nat /\ Len(built[L]) \in Nat
        /\ u[2] \in Seq(Encodable((max_depth + 1) - L))
    BY <1>5, <1>6, <1>7, Filling
  <2>. QED
    BY <1>3, <1>4, <1>8, <2>1, <2>2
<1>10. u[1] = "map" /\ l + 1 <= Len(t) /\ value = t[l + 1] /\ \A j \in 1..l : s[j] = t[j]
  BY <1>3, <1>4, <1>6, <1>7, <1>8 DEF Fills
<1>11. KeysIncrease(t) /\ DictKeys(t) /\ DOMAIN t = 1..Len(t)
  <2>1. KeysIncrease(t) /\ DictKeys(t)
    BY <1>4, <1>9, <1>10 DEF Sound
  <2>2. DOMAIN t = 1..Len(t)
    BY <1>9
  <2>. QED
    BY <2>1, <2>2
<1>12. l + 1 \in DOMAIN t /\ (l + 1) % 2 = 1
  <2>1. \A x \in Nat : x % 2 # 1 => (x + 1) % 2 = 1
    OBVIOUS
  <2>2. l + 1 \in 1..Len(t)
    BY <1>9, <1>10
  <2>. QED
    BY <1>6, <1>8, <1>9, <1>11, <2>1, <2>2
<1>13. ~IsContainer(value)
  BY <1>10, <1>11, <1>12 DEF DictKeys
<1>14. ASSUME NEW k \in DOMAIN items, k % 2 = 1 PROVE DictKey(items[k]) # DictKey(value)
  <2>1. items = s /\ DOMAIN s = 1..l
    <3>1. items = built[Len(stack)]
      BY <1>5 DEF items, Inv, TypeOK
    <3>2. s \in Seq(Encodable((max_depth + 1) - L))
      BY <1>1, <1>3, <1>5, KeyRead
    <3>. QED
      BY <1>1, <1>3, <1>8, <3>1, <3>2
  <2>2. k \in 1..l /\ k \in DOMAIN t /\ k < l + 1
    <3>1. \A x \in 1..l : x \in 1..Len(t) /\ x < l + 1
      BY <1>9, <1>10
    <3>. QED
      BY <1>11, <1>14, <2>1, <3>1
  <2>3. DictKey(t[k]) # DictKey(t[l + 1])
    BY <1>11, <1>12, <1>14, <2>2 DEF DictKeys
  <2>. QED
    BY <1>10, <2>1, <2>2, <2>3
<1>15. PICK f : f = top.previous
  OBVIOUS
<1>16. ASSUME f # << >> PROVE keyBytes # f /\ ~LexLess(keyBytes, f)
  <2>1. s # << >> /\ f = LastKey(s)
    BY <1>6, <1>15, <1>16 DEF LastKey
  <2>2. l # 0
    <3>1. s \in Seq(Encodable((max_depth + 1) - L))
      BY <1>1, <1>3, <1>5, KeyRead
    <3>. QED
      BY <1>8, <2>1, <3>1
  <2>3. l - 1 \in 1..l /\ (l - 1) % 2 = 1 /\ (l - 1) + 2 = l + 1
    <3>1. \A x \in Nat : x # 0 /\ x % 2 # 1 =>
            x - 1 \in 1..x /\ (x - 1) % 2 = 1 /\ (x - 1) + 2 = x + 1
      OBVIOUS
    <3>. QED
      BY <1>6, <1>8, <1>9, <2>2, <3>1
  <2>4. f = Encoded(s[l - 1])
    BY <1>6, <1>8, <2>1 DEF LastKey
  <2>5. s[l - 1] = t[l - 1] /\ l - 1 \in DOMAIN t
    <3>1. \A x \in 1..l : x \in 1..Len(t)
      BY <1>9, <1>10
    <3>. QED
      BY <1>10, <1>11, <2>3, <3>1
  <2>6. LexLess(Encoded(t[l - 1]), Encoded(t[(l - 1) + 2]))
    BY <1>11, <1>12, <2>3, <2>5 DEF KeysIncrease
  <2>7. LexLess(f, keyBytes)
    BY <1>6, <1>10, <2>3, <2>4, <2>5, <2>6
  <2>8. f \in Seq(Nat) /\ keyBytes \in Seq(Nat)
    <3>1. t[l - 1] \in Encodable((max_depth + 1) - L)
      BY <1>9, <1>11, <2>5
    <3>2. Encoded(t[l - 1]) \in Seq(Byte)
      BY <3>1 DEF Encodable
    <3>3. f \in Seq(Byte) /\ keyBytes \in Seq(Byte)
      BY <1>6, <2>4, <2>5, <3>2
    <3>. QED
      BY <3>3, BytesAreNat
  <2>9. PICK y : y = keyBytes
    OBVIOUS
  <2>10. f \in Seq(Nat) /\ y \in Seq(Nat) /\ LexLess(f, y)
    BY <2>7, <2>8, <2>9
  <2>11. ~LexLess(f, f)
    BY <2>10, LexIrreflexive
  <2>12. ~LexLess(y, f)
    <3>1. LexLess(y, f) => LexLess(f, f)
      BY <2>10, LexTransitive
    <3>. QED
      BY <2>11, <3>1
  <2>. QED
    BY <2>9, <2>10, <2>11, <2>12
<1>. QED
  BY <1>13, <1>14, <1>15, <1>16, NotRefused

----------------------------------------------------------------------------
(* What is encoded is returned.                                            *)

\* While decode_item is at work it is on the way into v; when decode has returned, it
\* has returned v, or refused one member too many.
Follows(v) ==
  /\ pc # "done" => verdict = "none" /\ \E p : Path(p, v)
  /\ pc = "done" => \/ verdict = "none" /\ value = v
                    \/ verdict = "schemaViolation" /\ members = max_members

\* The item that the path leads to is read: nothing else can be done about its bytes.
LEMMA ItemFollows ==
  ASSUME AccountInv, AccountInv', pc = "item", Next, verdict = "none",
         NEW v \in Valid(max_depth), Encoded(v) = data, NEW p, Path(p, v)
  PROVE  pc' # "done" /\ verdict' = "none" /\ Path(p, v)'
<1>1. PICK d : d = max_depth - Len(stack)
  OBVIOUS
<1>2. PICK w : w = p[Len(stack) + 1]
  OBVIOUS
<1>3. d \in 0..max_depth /\ w \in Valid(d) /\ Ahead(Encoded(w))
  BY <1>1, <1>2, NextAhead
<1>4. Inv /\ Inv' /\ ItemStep
  BY AtItem DEF AccountInv
<1>5. CASE ~IsContainer(w)
  <2>1. (ReadSimple \/ ReadInteger \/ ReadString) /\ value' = w
    BY <1>3, <1>4, <1>5, LeafAhead
  <2>2. pc' = "deliver" /\ verdict' = verdict
    BY <2>1 DEF ReadSimple, ReadInteger, ReadString, Deliver
  <2>3. Path(p, v)'
    BY <1>2, <1>4, <2>1, LeafOnPath
  <2>. QED
    BY <2>2, <2>3
<1>6. CASE IsContainer(w)
  <2>1. OpenContainer /\ length = Size(w) /\ (IF major = 4 THEN "array" ELSE "map") = w[1]
    BY <1>1, <1>3, <1>4, <1>6, ContainerAhead
  <2>2. pc' = "member" /\ verdict' = verdict
    BY <2>1 DEF OpenContainer
  <2>3. Path(p, v)'
    BY <1>1, <1>2, <1>3, <1>4, <2>1, ContainerOnPath
  <2>. QED
    BY <2>2, <2>3
<1>. QED
  BY <1>5, <1>6

\* Members are counted until the container is complete, or one too many is refused.
LEMMA MemberFollows ==
  ASSUME AccountInv, AccountInv', pc = "member", Next, verdict = "none",
         NEW v, NEW p, Path(p, v)
  PROVE  \/ pc' # "done" /\ verdict' = "none" /\ \E q : Path(q, v)'
         \/ pc' = "done" /\ verdict' = "schemaViolation" /\ members' = max_members
<1>1. Inv /\ Inv' /\ Loops
  BY DEF AccountInv
<1>2. CountMember \/ RefuseMember \/ CloseContainer
  <2>1. ~ItemStep
    BY DEF ItemStep, EndOfInput, ReadSimple, RefuseSimple, RefuseHead, ReadInteger, ReadString,
           RefuseString, RefuseTag, OpenContainer, RefuseDepth, AtHead
  <2>2. ~TakeKey /\ ~RefuseKey /\ ~TakeItem
    BY DEF TakeKey, RefuseKey, TakeItem, Delivering
  <2>3. ~RefuseTrailingBytes /\ ~ReturnValue
    BY DEF RefuseTrailingBytes, ReturnValue
  <2>. QED
    BY <2>1, <2>2, <2>3 DEF Next, ItemStep
<1>3. CASE CountMember
  <2>1. pc' = "item" /\ verdict' = verdict
    BY <1>3 DEF CountMember
  <2>2. \E q : Path(q, v)'
    BY <1>1, <1>3, CountOnPath
  <2>. QED
    BY <2>1, <2>2
<1>4. CASE RefuseMember
  <2>1. verdict' = "schemaViolation" /\ pc' = "done" /\ members' = members
        /\ members + 1 > max_members
    BY <1>4 DEF RefuseMember, Raise
  <2>2. members \in Nat /\ members <= max_members /\ max_members \in Nat
    BY <1>1, DecoderAssumption DEF Inv, TypeOK, WithinLimits
  <2>3. members = max_members
    BY <2>1, <2>2
  <2>. QED
    BY <2>1, <2>3
<1>5. CASE CloseContainer
  <2>1. pc' = "deliver" /\ verdict' = verdict
    BY <1>5 DEF CloseContainer
  <2>2. Path(p, v)'
    BY <1>1, <1>5, CloseOnPath
  <2>. QED
    BY <2>1, <2>2
<1>. QED
  BY <1>2, <1>3, <1>4, <1>5

\* The whole input has been read when the value is complete.
LEMMA AllRead ==
  ASSUME AccountInv, pc = "deliver", stack = << >>, NEW v, Encoded(v) = data,
         NEW p, Path(p, v)
  PROVE  value = v /\ pos = Len(data)
<1>1. Inv /\ Accounting /\ Len(stack) = 0
  BY DEF AccountInv
<1>2. value = v
  BY <1>1 DEF Path
<1>3. Plausible
  BY <1>1, PathIsPlausible
<1>4. SubSeq(data, 1, pos) = Outer(Len(stack)) \o Encoded(value)
  BY <1>1, <1>3, Position
<1>5. Outer(0) = << >>
  <2>1. \A k \in DOMAIN stack : Accounts(k)
    BY <1>1
  <2>. QED
    BY <1>1, <1>3, <2>1, AccountFacts
<1>6. data \in Seq(Byte) /\ << >> \o data = data /\ pos \in Nat /\ pos <= Len(data)
  BY <1>1, ConcatEmptySeq DEF Inv, TypeOK, WithinLimits
<1>7. SubSeq(data, 1, pos) = data
  BY <1>1, <1>2, <1>4, <1>5, <1>6
<1>8. Len(SubSeq(data, 1, pos)) = pos
  BY <1>6
<1>. QED
  BY <1>2, <1>7, <1>8

\* Every item is taken, and the value is returned.
LEMMA DeliveryFollows ==
  ASSUME AccountInv, AccountInv', pc = "deliver", Next, verdict = "none",
         NEW v, Encoded(v) = data, NEW p, Path(p, v)
  PROVE  \/ pc' # "done" /\ verdict' = "none" /\ \E q : Path(q, v)'
         \/ pc' = "done" /\ verdict' = "none" /\ value' = v
<1>1. Inv /\ Inv' /\ Loops
  BY DEF AccountInv
<1>2. TakeKey \/ RefuseKey \/ TakeItem \/ RefuseTrailingBytes \/ ReturnValue
  <2>1. ~ItemStep
    BY DEF ItemStep, EndOfInput, ReadSimple, RefuseSimple, RefuseHead, ReadInteger, ReadString,
           RefuseString, RefuseTag, OpenContainer, RefuseDepth, AtHead
  <2>2. ~CountMember /\ ~RefuseMember /\ ~CloseContainer
    BY DEF CountMember, RefuseMember, CloseContainer
  <2>. QED
    BY <2>1, <2>2 DEF Next, ItemStep
<1>3. CASE TakeKey
  <2>1. pc' = "item" /\ verdict' = verdict
    BY <1>3 DEF TakeKey
  <2>2. \E q : Path(q, v)'
    BY <1>1, <1>3, KeyOnPath
  <2>. QED
    BY <2>1, <2>2
<1>4. ~RefuseKey
  <2>1. Delivering(TRUE) => KeyRefusal = "none"
    BY KeyAccepted
  <2>. QED
    BY <2>1 DEF RefuseKey
<1>5. CASE TakeItem
  <2>1. pc' = "member" /\ verdict' = verdict
    BY <1>5 DEF TakeItem
  <2>2. Path(p, v)'
    BY <1>1, <1>5, ItemOnPath
  <2>. QED
    BY <2>1, <2>2
<1>6. ~RefuseTrailingBytes
  <2>1. stack = << >> => pos = Len(data)
    BY AllRead
  <2>. QED
    BY <2>1 DEF RefuseTrailingBytes
<1>7. CASE ReturnValue
  <2>1. stack = << >> /\ pc' = "done" /\ verdict' = verdict /\ value' = value
    BY <1>7 DEF ReturnValue
  <2>2. value = v
    BY <2>1, AllRead
  <2>. QED
    BY <2>1, <2>2
<1>. QED
  BY <1>2, <1>3, <1>4, <1>5, <1>6, <1>7

\* decode stops when it is done.
LEMMA DoneIsDone ==
  ASSUME pc = "done"
  PROVE  ~Next
<1>1. ~ItemStep
  BY DEF ItemStep, EndOfInput, ReadSimple, RefuseSimple, RefuseHead, ReadInteger, ReadString,
         RefuseString, RefuseTag, OpenContainer, RefuseDepth, AtHead
<1>2. ~CountMember /\ ~RefuseMember /\ ~CloseContainer
  BY DEF CountMember, RefuseMember, CloseContainer
<1>3. ~TakeKey /\ ~RefuseKey /\ ~TakeItem
  BY DEF TakeKey, RefuseKey, TakeItem, Delivering
<1>4. ~RefuseTrailingBytes /\ ~ReturnValue
  BY DEF RefuseTrailingBytes, ReturnValue
<1>. QED
  BY <1>1, <1>2, <1>3, <1>4 DEF Next, ItemStep

\* decode does not change its argument.
LEMMA DataIsKept ==
  ASSUME Next
  PROVE  data' = data
<1>1. \A code : Raise(code) => data' = data
  BY DEF Raise
<1>2. \A x, n : Deliver(x, n) => data' = data
  BY DEF Deliver
<1>3. ItemStep => data' = data
  BY <1>1, <1>2 DEF ItemStep, EndOfInput, ReadSimple, RefuseSimple, RefuseHead, ReadInteger,
     ReadString, RefuseString, RefuseTag, OpenContainer, RefuseDepth
<1>4. CountMember \/ RefuseMember \/ CloseContainer => data' = data
  BY <1>1 DEF CountMember, RefuseMember, CloseContainer
<1>5. TakeKey \/ RefuseKey \/ TakeItem => data' = data
  BY <1>1 DEF TakeKey, RefuseKey, TakeItem
<1>6. RefuseTrailingBytes \/ ReturnValue => data' = data
  BY <1>1 DEF RefuseTrailingBytes, ReturnValue
<1>. QED
  BY <1>3, <1>4, <1>5, <1>6 DEF Next, ItemStep

\* Each step follows every valid value that the input encodes.
Following == \A v \in Valid(max_depth) : Encoded(v) = data => Follows(v)

\* At the start a path leads nowhere but to the value itself.
LEMMA InitFollowing == Init => Following
<1>1. SUFFICES ASSUME Init, NEW v \in Valid(max_depth) PROVE Follows(v)
  BY DEF Following
<1>2. pc = "item" /\ verdict = "none" /\ stack = << >>
  BY <1>1 DEF Init
<1>3. PICK p : p[1] = v
  <2>. DEFINE p == << v >>
  <2>1. p[1] = v
    OBVIOUS
  <2>. QED
    BY <2>1
<1>4. Path(p, v)
  <2>1. \A k \in 1..Len(stack) : FALSE
    BY <1>2
  <2>. QED
    BY <1>2, <1>3, <2>1 DEF Path
<1>. QED
  BY <1>2, <1>4 DEF Follows

\* Every step keeps to them.
LEMMA NextFollowing ==
  ASSUME AccountInv, AccountInv', Following, [Next]_vars
  PROVE  Following'
<1>1. SUFFICES ASSUME NEW v \in Valid(max_depth), Encoded(v) = data' PROVE Follows(v)'
  BY DEF Following
<1>2. CASE UNCHANGED vars
  <2>1. Follows(v)
    BY <1>1, <1>2 DEF Following, vars
  <2>. QED
    BY <1>2, <2>1 DEF vars, Follows, Path, Fills, Reading, Announced
<1>3. CASE Next
  <2>1. data' = data
    BY <1>3, DataIsKept
  <2>2. Follows(v)
    BY <1>1, <2>1 DEF Following
  <2>3. pc # "done"
    BY <1>3, DoneIsDone
  <2>4. verdict = "none"
    BY <2>2, <2>3 DEF Follows
  <2>5. PICK p : Path(p, v)
    BY <2>2, <2>3 DEF Follows
  <2>6. pc \in { "item", "member", "deliver" }
    BY <2>3 DEF AccountInv, Inv, TypeOK
  <2>7. CASE pc = "item"
    <3>1. pc' # "done" /\ verdict' = "none" /\ Path(p, v)'
      BY <1>1, <1>3, <2>1, <2>4, <2>5, <2>7, ItemFollows
    <3>. QED
      BY <3>1 DEF Follows
  <2>8. CASE pc = "member"
    <3>1. \/ pc' # "done" /\ verdict' = "none" /\ \E q : Path(q, v)'
          \/ pc' = "done" /\ verdict' = "schemaViolation" /\ members' = max_members
      BY <1>3, <2>4, <2>5, <2>8, MemberFollows
    <3>. QED
      BY <3>1 DEF Follows
  <2>9. CASE pc = "deliver"
    <3>1. \/ pc' # "done" /\ verdict' = "none" /\ \E q : Path(q, v)'
          \/ pc' = "done" /\ verdict' = "none" /\ value' = v
      BY <1>1, <1>3, <2>1, <2>4, <2>5, <2>9, DeliveryFollows
    <3>. QED
      BY <3>1 DEF Follows
  <2>. QED
    BY <2>6, <2>7, <2>8, <2>9
<1>. QED
  BY <1>2, <1>3

\* decode refuses no encoding of a valid value, except at the limit on members, when it
\* has counted as many as the caller allows; and it returns the value that was encoded.
ReturnsWhatIsEncoded ==
  pc = "done" =>
    \A v \in Valid(max_depth) : Encoded(v) = data =>
      \/ verdict = "none" /\ value = v
      \/ verdict = "schemaViolation" /\ members = max_members

\* Whatever the encoder makes of a valid value, decode accepts and gives back: with
\* ReturnedValueIsValid, it accepts the encodings of valid values and nothing else, save
\* for the limit on members.
THEOREM ValidIsReturned == Spec => []ReturnsWhatIsEncoded
<1>1. Init => Following
  BY InitFollowing
<1>2. AccountInv /\ AccountInv' /\ Following /\ [Next]_vars => Following'
  BY NextFollowing
<1>3. Following => ReturnsWhatIsEncoded
  BY DEF Following, Follows, ReturnsWhatIsEncoded
<1>. QED
  BY <1>1, <1>2, <1>3, AccountInvariant, PTL DEF Spec

=============================================================================
