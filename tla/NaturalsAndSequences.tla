------------------------ MODULE NaturalsAndSequences ------------------------
(***************************************************************************)
(* Induction over the natural numbers as facts about sets: every set of    *)
(* them has a least element, and one that holds 0 and the successor of     *)
(* each of its elements holds all of them.  And what the slices, the       *)
(* concatenation and the flattening of sequences are.                      *)
(***************************************************************************)
EXTENDS Integers, Sequences, SequencesExt, WellFoundedInduction, SequenceTheorems, TLAPS

\* A set of naturals that is not empty has a least element.
LEMMA LeastNatural ==
  ASSUME NEW S \in SUBSET Nat, S # {}
  PROVE  \E m \in S : \A n \in S : m <= n
<1>1. PICK m \in S : \A n \in S : ~(<< n, m >> \in OpToRel(<, Nat))
  BY NatLessThanWellFounded, WFMin, Zenon
<1>2. \A n \in S : ~(n < m)
  BY <1>1 DEF OpToRel
<1>. QED
  BY <1>2

\* Induction: what holds of 0 and of the successor of every natural it holds of
\* holds of every natural.
LEMMA EveryNatural ==
  ASSUME NEW S \in SUBSET Nat, 0 \in S, \A n \in S : n + 1 \in S
  PROVE  S = Nat
<1>. SUFFICES ASSUME Nat \ S # {} PROVE FALSE
  OBVIOUS
<1>1. PICK m \in Nat \ S : \A n \in Nat \ S : m <= n
  BY LeastNatural
<1>2. m # 0 /\ m - 1 \in Nat
  BY <1>1
<1>3. m - 1 \in S
  BY <1>1, <1>2
<1>. QED
  BY <1>1, <1>2, <1>3

\* Induction on all smaller numbers.
LEMMA EveryNaturalFromSmaller ==
  ASSUME NEW S \in SUBSET Nat,
         \A n \in Nat : (\A m \in Nat : m < n => m \in S) => n \in S
  PROVE  S = Nat
<1>. SUFFICES ASSUME Nat \ S # {} PROVE FALSE
  OBVIOUS
<1>1. PICK n \in Nat \ S : \A m \in Nat \ S : n <= m
  BY LeastNatural
<1>2. \A m \in Nat : m < n => m \in S
  BY <1>1
<1>. QED
  BY <1>1, <1>2

----------------------------------------------------------------------------
(* Parts of sequences.                                                     *)

\* A part of a sequence.
LEMMA Slice ==
  ASSUME NEW S, NEW d \in Seq(S), NEW a \in Nat, NEW b \in Nat, a <= b, b <= Len(d)
  PROVE  /\ SubSeq(d, a + 1, b) \in Seq(S) /\ Len(SubSeq(d, a + 1, b)) = b - a
         /\ \A k \in 1..b - a : SubSeq(d, a + 1, b)[k] = d[a + k]
  OBVIOUS

\* The elements of a concatenation.
LEMMA ConcatAt ==
  ASSUME NEW S, NEW s \in Seq(S), NEW t \in Seq(S)
  PROVE  /\ s \o t \in Seq(S) /\ Len(s) \in Nat /\ Len(t) \in Nat
         /\ Len(s \o t) = Len(s) + Len(t)
         /\ \A k \in 1..Len(s) : (s \o t)[k] = s[k]
         /\ \A k \in 1..Len(t) : (s \o t)[Len(s) + k] = t[k]
<1>1. Len(s) \in Nat /\ Len(t) \in Nat
  BY LenProperties
<1>2. /\ s \o t \in Seq(S) /\ Len(s \o t) = Len(s) + Len(t)
      /\ \A k \in 1..Len(s) + Len(t) :
           (s \o t)[k] = IF k <= Len(s) THEN s[k] ELSE t[k - Len(s)]
  BY ConcatProperties
<1>3. ASSUME NEW k \in 1..Len(s) PROVE (s \o t)[k] = s[k]
  <2>1. k \in 1..Len(s) + Len(t) /\ k <= Len(s)
    BY <1>1
  <2>. QED
    BY <1>2, <2>1
<1>4. ASSUME NEW k \in 1..Len(t) PROVE (s \o t)[Len(s) + k] = t[k]
  <2>1. /\ Len(s) + k \in 1..Len(s) + Len(t) /\ ~(Len(s) + k <= Len(s))
        /\ (Len(s) + k) - Len(s) = k
    BY <1>1
  <2>. QED
    BY <1>2, <2>1
<1>. QED
  BY <1>1, <1>2, <1>3, <1>4

\* Two parts that follow each other.
LEMMA SlicesJoin ==
  ASSUME NEW S, NEW d \in Seq(S), NEW a \in Nat, NEW b \in Nat, NEW c \in Nat,
         a <= b, b <= c, c <= Len(d)
  PROVE  SubSeq(d, a + 1, b) \o SubSeq(d, b + 1, c) = SubSeq(d, a + 1, c)
<1>. DEFINE s == SubSeq(d, a + 1, b)
            t == SubSeq(d, b + 1, c)
            u == SubSeq(d, a + 1, c)
<1>0. b <= Len(d) /\ a <= c
  OBVIOUS
<1>1. s \in Seq(S) /\ Len(s) = b - a /\ \A k \in 1..b - a : s[k] = d[a + k]
  BY <1>0, Slice
<1>2. t \in Seq(S) /\ Len(t) = c - b /\ \A k \in 1..c - b : t[k] = d[b + k]
  BY Slice
<1>3. u \in Seq(S) /\ Len(u) = c - a /\ \A k \in 1..c - a : u[k] = d[a + k]
  BY <1>0, Slice
<1>. HIDE DEF s, t, u
<1>4. /\ s \o t \in Seq(S) /\ Len(s \o t) = c - a
      /\ \A k \in 1..b - a : (s \o t)[k] = s[k]
      /\ \A k \in 1..c - b : (s \o t)[(b - a) + k] = t[k]
  <2>1. /\ s \o t \in Seq(S) /\ Len(s \o t) = Len(s) + Len(t)
        /\ \A k \in 1..Len(s) : (s \o t)[k] = s[k]
        /\ \A k \in 1..Len(t) : (s \o t)[Len(s) + k] = t[k]
    <3>1. s \in Seq(S) /\ t \in Seq(S)
      BY <1>1, <1>2
    <3>. QED
      BY <3>1, ConcatAt
  <2>2. (b - a) + (c - b) = c - a
    OBVIOUS
  <2>. QED
    BY <1>1, <1>2, <2>1, <2>2
<1>5. ASSUME NEW k \in 1..c - a PROVE (s \o t)[k] = u[k]
  <2>1. CASE k <= b - a
    <3>1. k \in 1..b - a
      BY <2>1
    <3>. QED
      BY <1>1, <1>3, <1>4, <3>1
  <2>2. CASE k > b - a
    <3>1. PICK j \in 1..c - b : k = (b - a) + j
      <4>1. k - (b - a) \in 1..c - b /\ k = (b - a) + (k - (b - a))
        BY <2>2
      <4>. QED
        BY <4>1
    <3>2. (s \o t)[(b - a) + j] = d[b + j]
      BY <1>2, <1>4, <3>1
    <3>3. b + j = a + k
      BY <3>1
    <3>. QED
      BY <1>3, <3>1, <3>2, <3>3
  <2>3. k <= b - a \/ k > b - a
    OBVIOUS
  <2>. QED
    BY <2>1, <2>2, <2>3
<1>6. s \o t = u
  BY <1>3, <1>4, <1>5, SeqEqual
<1>. QED
  BY <1>6 DEF s, t, u

----------------------------------------------------------------------------
(* FlattenSeq.                                                             *)

\* f holds what the sequences of s up to the k-th make, for every k up to n.
Joins(f, s, n, S) ==
  /\ f \in [ 1..n -> Seq(S) ]
  /\ n >= 1 => f[1] = s[1]
  /\ \A k \in 2..n : f[k] = f[k - 1] \o s[k]

\* There are such partial concatenations of every sequence.
LEMMA JoinsExist ==
  ASSUME NEW S, NEW s \in Seq(Seq(S))
  PROVE  \E f : Joins(f, s, Len(s), S)
<1>. DEFINE N == { n \in Nat : n <= Len(s) => \E f : Joins(f, s, n, S) }
<1>1. 0 \in N
  <2>1. Joins([ k \in 1..0 |-> << >> ], s, 0, S)
    BY DEF Joins
  <2>. QED
    BY <2>1
<1>2. ASSUME NEW n \in N PROVE n + 1 \in N
  <2>. SUFFICES ASSUME n + 1 <= Len(s) PROVE \E f : Joins(f, s, n + 1, S)
    OBVIOUS
  <2>1. n \in Nat /\ Len(s) \in Nat
    OBVIOUS
  <2>2. PICK f : Joins(f, s, n, S)
    BY <2>1
  <2>3. n + 1 \in 1..Len(s) /\ s[n + 1] \in Seq(S)
    BY <2>1
  <2>. DEFINE new == IF n = 0 THEN s[1] ELSE f[n] \o s[n + 1]
              g == [ k \in 1..n + 1 |-> IF k = n + 1 THEN new ELSE f[k] ]
  <2>4. new \in Seq(S)
    <3>1. CASE n = 0
      BY <2>3, <3>1
    <3>2. CASE n # 0
      <4>1. n \in 1..n
        BY <2>1, <3>2
      <4>2. f[n] \in Seq(S)
        BY <2>2, <4>1 DEF Joins
      <4>3. f[n] \o s[n + 1] \in Seq(S)
        BY <2>3, <4>2, ConcatProperties
      <4>. QED
        BY <3>2, <4>3
    <3>. QED
      BY <3>1, <3>2
  <2>. HIDE DEF new
  <2>5. \A k \in 1..n + 1 : k # n + 1 => k \in 1..n
    BY <2>1
  <2>6. g \in [ 1..n + 1 -> Seq(S) ]
    BY <2>2, <2>4, <2>5 DEF Joins
  <2>7. g[1] = s[1]
    <3>1. 1 \in 1..n + 1
      BY <2>1
    <3>2. CASE n = 0
      BY <2>1, <3>1, <3>2 DEF new
    <3>3. CASE n # 0
      <4>1. 1 # n + 1 /\ n >= 1
        BY <2>1, <3>3
      <4>. QED
        BY <2>2, <3>1, <4>1 DEF Joins
    <3>. QED
      BY <3>2, <3>3
  <2>8. ASSUME NEW k \in 2..n + 1 PROVE g[k] = g[k - 1] \o s[k]
    <3>1. k \in 1..n + 1 /\ k - 1 \in 1..n + 1 /\ k - 1 # n + 1 /\ n # 0
      BY <2>1
    <3>2. g[k - 1] = f[k - 1]
      BY <3>1
    <3>3. CASE k = n + 1
      <4>1. k - 1 = n
        BY <2>1, <3>3
      <4>2. g[k] = f[n] \o s[n + 1]
        BY <3>1, <3>3 DEF new
      <4>. QED
        BY <3>2, <3>3, <4>1, <4>2
    <3>4. CASE k # n + 1
      <4>1. k \in 2..n
        BY <2>1, <3>4
      <4>2. g[k] = f[k]
        BY <3>1, <3>4
      <4>. QED
        BY <2>2, <3>2, <4>1, <4>2 DEF Joins
    <3>. QED
      BY <3>3, <3>4
  <2>. HIDE DEF g
  <2>9. Joins(g, s, n + 1, S)
    BY <2>6, <2>7, <2>8 DEF Joins
  <2>. QED
    BY <2>9
<1>3. N = Nat
  <2>. HIDE DEF N
  <2>1. N \in SUBSET Nat
    BY DEF N
  <2>. QED
    BY <1>1, <1>2, <2>1, EveryNatural
<1>4. Len(s) \in Nat
  OBVIOUS
<1>. HIDE DEF N
<1>5. Len(s) \in N
  BY <1>3, <1>4
<1>. QED
  BY <1>4, <1>5 DEF N

\* And only one for the same first elements.
LEMMA JoinsAgree ==
  ASSUME NEW S, NEW n \in Nat, NEW s, NEW t, NEW f, NEW g,
         Joins(f, s, n, S), Joins(g, t, n, S), \A k \in 1..n : s[k] = t[k]
  PROVE  \A k \in 1..n : f[k] = g[k]
<1>. DEFINE N == { k \in Nat : k \in 1..n => f[k] = g[k] }
<1>1. 0 \in N
  OBVIOUS
<1>2. ASSUME NEW k \in N PROVE k + 1 \in N
  <2>. SUFFICES ASSUME k + 1 \in 1..n PROVE f[k + 1] = g[k + 1]
    OBVIOUS
  <2>1. k \in Nat
    OBVIOUS
  <2>2. CASE k = 0
    <3>1. k + 1 = 1 /\ n >= 1 /\ 1 \in 1..n
      BY <2>1, <2>2
    <3>. QED
      BY <3>1 DEF Joins
  <2>3. CASE k # 0
    <3>1. k \in 1..n /\ k + 1 \in 2..n /\ (k + 1) - 1 = k
      BY <2>1, <2>3
    <3>2. f[k] = g[k]
      BY <3>1
    <3>3. f[k + 1] = f[k] \o s[k + 1]
      BY <3>1 DEF Joins
    <3>4. g[k + 1] = g[k] \o t[k + 1]
      BY <3>1 DEF Joins
    <3>. QED
      BY <3>2, <3>3, <3>4
  <2>. QED
    BY <2>2, <2>3
<1>3. N = Nat
  <2>. HIDE DEF N
  <2>1. N \in SUBSET Nat
    BY DEF N
  <2>. QED
    BY <1>1, <1>2, <2>1, EveryNatural
<1>. QED
  BY <1>3

\* FlattenSeq is the last of them.
LEMMA FlattenIs ==
  ASSUME NEW S, NEW s \in Seq(Seq(S)), Len(s) # 0
  PROVE  \E f : Joins(f, s, Len(s), S) /\ FlattenSeq(s) = f[Len(s)]
<1>. DEFINE Unfolds(f) == f = [ i \in 1..Len(s) |->
                                  IF i = 1 THEN s[i] ELSE f[i - 1] \o s[i] ]
            flatten == CHOOSE f : Unfolds(f)
<1>1. PICK f : Joins(f, s, Len(s), S)
  BY JoinsExist
<1>2. Unfolds(f)
  <2>. DEFINE h == [ i \in 1..Len(s) |-> IF i = 1 THEN s[i] ELSE f[i - 1] \o s[i] ]
  <2>1. Len(s) \in Nat /\ Len(s) >= 1
    OBVIOUS
  <2>2. DOMAIN f = 1..Len(s) /\ f = [ i \in 1..Len(s) |-> f[i] ]
    BY <1>1 DEF Joins
  <2>3. ASSUME NEW i \in 1..Len(s) PROVE f[i] = h[i]
    <3>1. CASE i = 1
      BY <1>1, <2>1, <3>1 DEF Joins
    <3>2. CASE i # 1
      <4>1. i \in 2..Len(s)
        BY <2>1, <3>2
      <4>. QED
        BY <1>1, <3>2, <4>1 DEF Joins
    <3>. QED
      BY <3>1, <3>2
  <2>4. h = [ i \in 1..Len(s) |-> h[i] ]
    OBVIOUS
  <2>. HIDE DEF h
  <2>5. f = h
    BY <2>2, <2>3, <2>4
  <2>. QED
    BY <2>5 DEF h
<1>3. Unfolds(flatten)
  <2>. HIDE DEF Unfolds
  <2>. QED
    BY <1>2
<1>4. FlattenSeq(s) = flatten[Len(s)]
  BY DEF FlattenSeq
<1>. HIDE DEF flatten
<1>5. Len(s) \in Nat /\ Len(s) >= 1
  OBVIOUS
<1>6. flatten[1] = s[1]
  BY <1>3, <1>5
<1>7. \A i \in 2..Len(s) : flatten[i] = flatten[i - 1] \o s[i]
  <2>. TAKE i \in 2..Len(s)
  <2>1. i \in 1..Len(s) /\ i # 1
    BY <1>5
  <2>. QED
    BY <1>3, <2>1
<1>8. \A i \in 1..Len(s) : flatten[i] \in Seq(S)
  <2>. DEFINE N == { k \in Nat : k \in 1..Len(s) => flatten[k] \in Seq(S) }
  <2>1. 0 \in N
    OBVIOUS
  <2>2. ASSUME NEW k \in N PROVE k + 1 \in N
    <3>. SUFFICES ASSUME k + 1 \in 1..Len(s) PROVE flatten[k + 1] \in Seq(S)
      OBVIOUS
    <3>1. k \in Nat /\ s[k + 1] \in Seq(S)
      OBVIOUS
    <3>2. CASE k = 0
      <4>1. k + 1 = 1
        BY <3>2
      <4>. QED
        BY <1>6, <3>1, <4>1
    <3>3. CASE k # 0
      <4>1. k \in 1..Len(s) /\ k + 1 \in 2..Len(s) /\ (k + 1) - 1 = k
        BY <1>5, <3>1, <3>3
      <4>2. flatten[k] \in Seq(S)
        BY <4>1
      <4>3. flatten[k + 1] = flatten[k] \o s[k + 1]
        BY <1>7, <4>1
      <4>. QED
        BY <3>1, <4>2, <4>3, ConcatProperties
    <3>. QED
      BY <3>2, <3>3
  <2>3. N = Nat
    <3>. HIDE DEF N
    <3>1. N \in SUBSET Nat
      BY DEF N
    <3>2. 0 \in N /\ \A k \in N : k + 1 \in N
      BY <2>1, <2>2
    <3>. QED
      BY <3>1, <3>2, EveryNatural, Zenon
  <2>4. ASSUME NEW i \in 1..Len(s) PROVE flatten[i] \in Seq(S)
    <3>1. i \in Nat
      OBVIOUS
    <3>2. i \in N
      BY <2>3, <3>1
    <3>. QED
      BY <3>2
  <2>. QED
    BY <2>4
<1>9. flatten \in [ 1..Len(s) -> Seq(S) ]
  <2>1. flatten = [ i \in 1..Len(s) |-> flatten[i] ]
    BY <1>3
  <2>. QED
    BY <1>8, <2>1
<1>10. Joins(flatten, s, Len(s), S)
  BY <1>6, <1>7, <1>9 DEF Joins
<1>. QED
  BY <1>4, <1>10

\* Nothing makes nothing.
LEMMA FlattenEmpty == FlattenSeq(<< >>) = << >>
  BY DEF FlattenSeq

\* What sequences over a set make is a sequence over it.
LEMMA FlattenType ==
  ASSUME NEW S, NEW s \in Seq(Seq(S))
  PROVE  FlattenSeq(s) \in Seq(S)
<1>1. CASE Len(s) = 0
  <2>1. s = << >>
    BY <1>1
  <2>. QED
    BY <2>1, FlattenEmpty, EmptySeq
<1>2. CASE Len(s) # 0
  <2>1. PICK f : Joins(f, s, Len(s), S) /\ FlattenSeq(s) = f[Len(s)]
    BY <1>2, FlattenIs
  <2>2. Len(s) \in 1..Len(s)
    BY <1>2
  <2>. QED
    BY <2>1, <2>2 DEF Joins
<1>. QED
  BY <1>1, <1>2

\* One sequence more goes behind the others.
LEMMA FlattenAppend ==
  ASSUME NEW S, NEW s \in Seq(Seq(S)), NEW x \in Seq(S)
  PROVE  /\ FlattenSeq(s) \in Seq(S) /\ Append(s, x) \in Seq(Seq(S))
         /\ FlattenSeq(Append(s, x)) = FlattenSeq(s) \o x
<1>. DEFINE n == Len(s)
            t == Append(s, x)
<1>1. /\ n \in Nat /\ t \in Seq(Seq(S)) /\ Len(t) = n + 1 /\ t[n + 1] = x
      /\ \A k \in 1..n : t[k] = s[k]
  OBVIOUS
<1>2. FlattenSeq(s) \in Seq(S)
  BY FlattenType
<1>3. CASE n = 0
  <2>1. s = << >>
    BY <1>3
  <2>2. << >> \o x = x
    BY ConcatEmptySeq
  <2>. HIDE DEF t, n
  <2>3. Len(t) = 1 /\ Len(t) # 0
    BY <1>1, <1>3
  <2>4. PICK g : Joins(g, t, Len(t), S) /\ FlattenSeq(t) = g[Len(t)]
    BY <1>1, <2>3, FlattenIs
  <2>5. FlattenSeq(t) = t[1]
    BY <2>3, <2>4 DEF Joins
  <2>6. t[1] = x
    BY <1>1, <1>3
  <2>7. FlattenSeq(t) = FlattenSeq(s) \o x
    BY <2>1, <2>2, <2>5, <2>6, FlattenEmpty
  <2>. QED
    BY <1>1, <1>2, <2>7 DEF t
<1>4. CASE n # 0
  <2>1. PICK f : Joins(f, s, n, S) /\ FlattenSeq(s) = f[n]
    BY <1>4, FlattenIs
  <2>. HIDE DEF t, n
  <2>2. Len(t) # 0
    BY <1>1
  <2>3. PICK g : Joins(g, t, n + 1, S) /\ FlattenSeq(t) = g[n + 1]
    BY <1>1, <2>2, FlattenIs
  <2>. DEFINE h == [ k \in 1..n |-> g[k] ]
  <2>4. Joins(h, t, n, S)
    <3>1. \A k \in 1..n : k \in 1..n + 1 /\ h[k] = g[k]
      BY <1>1
    <3>2. h \in [ 1..n -> Seq(S) ]
      BY <2>3, <3>1 DEF Joins
    <3>3. h[1] = t[1]
      <4>1. 1 \in 1..n /\ n + 1 >= 1
        BY <1>1, <1>4
      <4>. QED
        BY <2>3, <4>1 DEF Joins
    <3>4. \A k \in 2..n : h[k] = h[k - 1] \o t[k]
      <4>. TAKE k \in 2..n
      <4>1. k \in 1..n /\ k - 1 \in 1..n /\ k \in 2..n + 1
        BY <1>1
      <4>. QED
        BY <2>3, <4>1 DEF Joins
    <3>. HIDE DEF h
    <3>. QED
      BY <3>2, <3>3, <3>4 DEF Joins
  <2>5. f[n] = h[n]
    <3>1. n \in 1..n
      BY <1>1, <1>4
    <3>. HIDE DEF h
    <3>2. \A k \in 1..n : s[k] = t[k]
      BY <1>1
    <3>3. \A k \in 1..n : f[k] = h[k]
      BY <1>1, <2>1, <2>4, <3>2, JoinsAgree
    <3>. QED
      BY <3>1, <3>3
  <2>6. h[n] = g[n]
    BY <1>1, <1>4
  <2>7. g[n + 1] = g[n] \o x
    <3>1. n + 1 \in 2..n + 1 /\ (n + 1) - 1 = n
      BY <1>1, <1>4
    <3>2. g[n + 1] = g[(n + 1) - 1] \o t[n + 1]
      BY <2>3, <3>1 DEF Joins
    <3>. QED
      BY <1>1, <3>1, <3>2
  <2>8. FlattenSeq(t) = FlattenSeq(s) \o x
    BY <2>1, <2>3, <2>5, <2>6, <2>7
  <2>. QED
    BY <1>1, <1>2, <2>8 DEF t
<1>. QED
  BY <1>3, <1>4



\* A sequence that is not empty has a last element, and what stands before it.
LEMMA LastOfSeq ==
  ASSUME NEW S, NEW n \in Nat, NEW s \in Seq(S), Len(s) = n + 1
  PROVE  \E u \in Seq(S), x \in S :
           s = Append(u, x) /\ Len(u) = n /\ \A k \in 1..n : s[k] = u[k]
<1>1. s # << >>
  BY EmptySeq
<1>2. PICK u \in Seq(S), x \in S : s = Append(u, x)
  BY <1>1, SequenceEmptyOrAppend
<1>3. Len(Append(u, x)) = Len(u) + 1 /\ \A k \in 1..Len(u) : Append(u, x)[k] = u[k]
  BY AppendProperties
<1>4. Len(u) \in Nat
  BY LenProperties
<1>5. Len(u) = n
  BY <1>2, <1>3, <1>4
<1>. QED
  BY <1>2, <1>3, <1>5

\* The elements of a sequence with one more.
LEMMA AppendIs ==
  ASSUME NEW S, NEW n \in Nat, NEW s \in Seq(S), Len(s) = n, NEW x \in S
  PROVE  /\ Append(s, x) \in Seq(S) /\ Len(Append(s, x)) = n + 1
         /\ Append(s, x)[n + 1] = x
         /\ \A k \in 1..n : Append(s, x)[k] = s[k]
         /\ Append(s, x) = [ k \in 1..n + 1 |-> Append(s, x)[k] ]
<1>. DEFINE t == Append(s, x)
<1>1. t \in Seq(S) /\ Len(t) = n + 1 /\ t[n + 1] = x /\ \A k \in 1..n : t[k] = s[k]
  BY AppendProperties
<1>. HIDE DEF t
<1>2. t = [ k \in 1..n + 1 |-> t[k] ]
  BY <1>1
<1>. QED
  BY <1>1, <1>2 DEF t

\* Two sequences one after the other, or joined first.
LEMMA FlattenTwo ==
  ASSUME NEW S, NEW u \in Seq(Seq(S)), NEW p \in Seq(Seq(S)), NEW x \in Seq(S),
         NEW y \in Seq(S), FlattenSeq(p) = FlattenSeq(u)
  PROVE  FlattenSeq(Append(p, x \o y)) = FlattenSeq(Append(Append(u, x), y))
<1>1. x \o y \in Seq(S)
  BY ConcatProperties
<1>2. FlattenSeq(Append(p, x \o y)) = FlattenSeq(p) \o (x \o y)
  BY <1>1, FlattenAppend
<1>3. /\ FlattenSeq(Append(u, x)) = FlattenSeq(u) \o x /\ FlattenSeq(u) \in Seq(S)
      /\ Append(u, x) \in Seq(Seq(S))
  BY FlattenAppend
<1>4. FlattenSeq(Append(Append(u, x), y)) = FlattenSeq(Append(u, x)) \o y
  BY <1>3, FlattenAppend
<1>. DEFINE w == FlattenSeq(u)
<1>5. w \in Seq(S)
  BY <1>3
<1>. HIDE DEF w
<1>6. (w \o x) \o y = w \o (x \o y)
  BY <1>5, ConcatAssociative
<1>. QED
  BY <1>2, <1>3, <1>4, <1>6 DEF w

\* Joined in pairs or one by one, the sequences make the same.
LEMMA FlattenPairs ==
  ASSUME NEW S, NEW n \in Nat, NEW s \in Seq(Seq(S)), Len(s) = 2 * n
  PROVE  FlattenSeq([ k \in 1..n |-> s[2 * k - 1] \o s[2 * k] ]) = FlattenSeq(s)
<1>. DEFINE Pairs(t, m) == [ k \in 1..m |-> t[2 * k - 1] \o t[2 * k] ]
            N == { m \in Nat : \A t \in Seq(Seq(S)) :
                     Len(t) = 2 * m => FlattenSeq(Pairs(t, m)) = FlattenSeq(t) }
<1>1. 0 \in N
  <2>. SUFFICES ASSUME NEW t \in Seq(Seq(S)), Len(t) = 2 * 0
                PROVE  FlattenSeq(Pairs(t, 0)) = FlattenSeq(t)
    OBVIOUS
  <2>1. t = << >> /\ Pairs(t, 0) = << >>
    OBVIOUS
  <2>. QED
    BY <2>1
<1>2. ASSUME NEW m \in N PROVE m + 1 \in N
  <2>00. m \in Nat
    OBVIOUS
  <2>. SUFFICES ASSUME NEW t \in Seq(Seq(S)), Len(t) = 2 * (m + 1)
                PROVE  FlattenSeq(Pairs(t, m + 1)) = FlattenSeq(t)
    <3>1. m + 1 \in Nat
      BY <2>00
    <3>. HIDE DEF Pairs
    <3>. QED
      BY <3>1
  <2>0. m \in Nat /\ 2 * m \in Nat /\ 2 * m + 1 \in Nat /\ Len(t) = (2 * m + 1) + 1
    BY <2>00
  <2>1. PICK v \in Seq(Seq(S)), y \in Seq(S) :
           t = Append(v, y) /\ Len(v) = 2 * m + 1 /\ \A k \in 1..2 * m + 1 : t[k] = v[k]
    BY <2>0, LastOfSeq
  <2>2. PICK u \in Seq(Seq(S)), x \in Seq(S) :
           v = Append(u, x) /\ Len(u) = 2 * m /\ \A k \in 1..2 * m : v[k] = u[k]
    BY <2>0, <2>1, LastOfSeq
  <2>3. FlattenSeq(Pairs(u, m)) = FlattenSeq(u)
    BY <2>2
  <2>4. t[2 * m + 2] = y /\ t[2 * m + 1] = x
    <3>1. Append(v, y)[Len(v) + 1] = y /\ Append(u, x)[Len(u) + 1] = x
      BY AppendProperties
    <3>2. t[(2 * m + 1) + 1] = y /\ v[2 * m + 1] = x
      BY <2>1, <2>2, <3>1
    <3>3. (2 * m + 1) + 1 = 2 * m + 2 /\ 2 * m + 1 \in 1..2 * m + 1
      BY <2>0
    <3>. QED
      BY <2>1, <3>2, <3>3
  <2>5. \A k \in 1..m : t[2 * k - 1] = u[2 * k - 1] /\ t[2 * k] = u[2 * k]
    <3>. TAKE k \in 1..m
    <3>1. /\ 2 * k - 1 \in 1..2 * m /\ 2 * k \in 1..2 * m
          /\ 2 * k - 1 \in 1..2 * m + 1 /\ 2 * k \in 1..2 * m + 1
      BY <2>0
    <3>. QED
      BY <2>1, <2>2, <3>1
  <2>. DEFINE p == Pairs(u, m)
              q == Pairs(t, m + 1)
  <2>6. p \in Seq(Seq(S)) /\ Len(p) = m /\ \A k \in 1..m : p[k] = u[2 * k - 1] \o u[2 * k]
    <3>1. ASSUME NEW k \in 1..m PROVE u[2 * k - 1] \o u[2 * k] \in Seq(S)
      <4>0. 2 * k - 1 \in 1..2 * m /\ 2 * k \in 1..2 * m
        BY <2>00
      <4>1. 2 * k - 1 \in 1..Len(u) /\ 2 * k \in 1..Len(u)
        BY <4>0, <2>2
      <4>2. u[2 * k - 1] \in Seq(S) /\ u[2 * k] \in Seq(S)
        BY <4>1
      <4>. QED
        BY <4>2, ConcatProperties
    <3>2. p \in [ 1..m -> Seq(S) ]
      BY <3>1
    <3>3. \A k \in 1..m : p[k] = u[2 * k - 1] \o u[2 * k]
      OBVIOUS
    <3>. HIDE DEF p
    <3>4. p \in Seq(Seq(S)) /\ Len(p) = m
      BY <2>00, <3>2
    <3>. QED
      BY <3>3, <3>4
  <2>7. q = Append(p, x \o y)
    <3>1. x \o y \in Seq(S)
      BY ConcatProperties
    <3>2. /\ Append(p, x \o y) \in Seq(Seq(S)) /\ Len(Append(p, x \o y)) = m + 1
          /\ Append(p, x \o y)[m + 1] = x \o y
          /\ \A k \in 1..m : Append(p, x \o y)[k] = p[k]
      <4>. HIDE DEF p
      <4>1. Len(p) = m /\ p \in Seq(Seq(S))
        BY <2>6
      <4>. QED
        BY <2>00, <3>1, <4>1, AppendIs
    <3>3. ASSUME NEW k \in 1..m + 1 PROVE t[2 * k - 1] \o t[2 * k] = Append(p, x \o y)[k]
      <4>. HIDE DEF p
      <4>1. CASE k = m + 1
        <5>1. 2 * k - 1 = 2 * m + 1 /\ 2 * k = 2 * m + 2
          BY <2>0, <4>1
        <5>. QED
          BY <2>4, <3>2, <4>1, <5>1
      <4>2. CASE k # m + 1
        <5>1. k \in 1..m
          BY <2>0, <4>2
        <5>. QED
          BY <2>5, <2>6, <3>2, <5>1
      <4>. QED
        BY <4>1, <4>2
    <3>4. q \in Seq(Seq(S)) /\ Len(q) = m + 1
      <4>1. ASSUME NEW k \in 1..m + 1 PROVE t[2 * k - 1] \o t[2 * k] \in Seq(S)
        <5>1. 2 * k - 1 \in 1..Len(t) /\ 2 * k \in 1..Len(t)
          BY <2>00
        <5>2. t[2 * k - 1] \in Seq(S) /\ t[2 * k] \in Seq(S)
          BY <5>1
        <5>. QED
          BY <5>2, ConcatProperties
      <4>2. q \in [ 1..m + 1 -> Seq(S) ]
        BY <4>1
      <4>. HIDE DEF q
      <4>3. m + 1 \in Nat
        BY <2>00
      <4>. QED
        BY <4>2, <4>3
    <3>5. \A k \in 1..m + 1 : q[k] = t[2 * k - 1] \o t[2 * k]
      OBVIOUS
    <3>. HIDE DEF p, q
    <3>. QED
      BY <3>2, <3>3, <3>4, <3>5, SeqEqual
  <2>. HIDE DEF p, q
  <2>8. FlattenSeq(q) = FlattenSeq(t)
    <3>1. FlattenSeq(p) = FlattenSeq(u)
      BY <2>3 DEF p
    <3>. QED
      BY <2>1, <2>2, <2>6, <2>7, <3>1, FlattenTwo
  <2>. QED
    BY <2>8 DEF q
<1>3. N = Nat
  <2>. HIDE DEF N
  <2>1. N \in SUBSET Nat
    BY DEF N
  <2>. QED
    BY <1>1, <1>2, <2>1, EveryNatural
<1>4. \A t \in Seq(Seq(S)) : Len(t) = 2 * n => FlattenSeq(Pairs(t, n)) = FlattenSeq(t)
  BY <1>3
<1>. QED
  BY <1>4
=============================================================================
