------------------------------ MODULE DidProofs ------------------------------
(***************************************************************************)
(* For every base, size of a byte and cap: recoding between two radixes    *)
(* loses nothing, the varint reader of parse_did stays within its types,   *)
(* and what parse_did accepts is the one DID of the digest it returns.     *)
(***************************************************************************)
EXTENDS Did, NaturalsAndSequences, SequenceTheorems

(* Numbers.                                                                *)

LEMMA Product ==
  ASSUME NEW a \in Nat, NEW b \in Nat
  PROVE  a * b \in Nat /\ (a >= 1 => a * b >= b)
<1>1. a * b \in Nat
  OBVIOUS
<1>2. a >= 1 => a * b >= b
  OBVIOUS
<1>. QED
  BY <1>1, <1>2

\* A product grows by at least one factor with the other.
LEMMA ProductGrows ==
  ASSUME NEW a \in Nat, NEW b \in Nat, NEW r \in Nat, a < b
  PROVE  a * r \in Nat /\ b * r \in Nat /\ a * r + r <= b * r
<1>1. PICK c \in Nat : b = a + 1 + c
  <2>1. b - a - 1 \in Nat /\ b = a + 1 + (b - a - 1)
    OBVIOUS
  <2>. QED
    BY <2>1
<1>2. c * r \in Nat /\ a * r \in Nat
  BY Product
<1>3. b * r = a * r + r + c * r
  BY <1>1
<1>. QED
  BY <1>2, <1>3

\* Division with remainder.
LEMMA Division ==
  ASSUME NEW n \in Nat, NEW r \in Nat, r > 1
  PROVE  /\ n \div r \in Nat /\ n % r \in 0..r - 1
         /\ n = (n \div r) * r + (n % r)
         /\ n > 0 => n \div r < n
<1>1. n \div r \in Nat /\ n % r \in 0..r - 1
  OBVIOUS
<1>2. n = (n \div r) * r + (n % r)
  OBVIOUS
<1>3. ASSUME n > 0, n \div r >= n PROVE FALSE
  <2>. DEFINE q == n \div r
  <2>1. q \in Nat /\ q * r \in Nat /\ q * r <= n
    BY <1>1, <1>2, Product
  <2>. HIDE DEF q
  <2>2. 1 * q \in Nat /\ r * q \in Nat /\ 1 * q + q <= r * q
    BY <2>1, ProductGrows
  <2>3. 1 * q = q /\ r * q = q * r
    BY <2>1
  <2>. QED
    BY <1>3, <2>1, <2>2, <2>3 DEF q
<1>. QED
  BY <1>1, <1>2, <1>3

\* Quotient and remainder are the only numbers of their ranges that make up n.
LEMMA DivisionIsUnique ==
  ASSUME NEW q \in Nat, NEW r \in Nat, r > 1, NEW d \in 0..r - 1
  PROVE  (q * r + d) \div r = q /\ (q * r + d) % r = d
<1>. DEFINE n == q * r + d
            p == n \div r
            e == n % r
<1>1. n \in Nat /\ q * r \in Nat
  BY Product
<1>. HIDE DEF n
<1>2. p \in Nat /\ e \in 0..r - 1 /\ n = p * r + e /\ p * r \in Nat
  BY <1>1, Division, Product
<1>. HIDE DEF p, e
<1>3. ~(p < q)
  <2>1. p < q => p * r + r <= q * r
    BY <1>2, ProductGrows
  <2>. QED
    BY <1>1, <1>2, <2>1 DEF n
<1>4. ~(q < p)
  <2>1. q < p => q * r + r <= p * r
    BY <1>2, ProductGrows
  <2>. QED
    BY <1>1, <1>2, <2>1 DEF n
<1>5. p = q
  BY <1>2, <1>3, <1>4
<1>6. e = d
  BY <1>1, <1>2, <1>5 DEF n
<1>. QED
  BY <1>5, <1>6 DEF p, e, n

----------------------------------------------------------------------------
(* The number that digits denote.                                          *)

\* f holds the numbers that the prefixes of s up to the n-th denote.
PrefixNumbers(f, s, r, n) ==
  /\ f \in [ 0..n -> Nat ] /\ f[0] = 0
  /\ \A k \in 1..n : f[k] = f[k - 1] * r + s[k]

LEMMA PrefixNumbersExist ==
  ASSUME NEW s \in Seq(Nat), NEW r \in Nat
  PROVE  \E f : PrefixNumbers(f, s, r, Len(s))
<1>. DEFINE S == { n \in Nat : n <= Len(s) => \E f : PrefixNumbers(f, s, r, n) }
<1>1. 0 \in S
  <2>1. PrefixNumbers([ k \in 0..0 |-> 0 ], s, r, 0)
    BY DEF PrefixNumbers
  <2>. QED
    BY <2>1
<1>2. ASSUME NEW n \in S PROVE n + 1 \in S
  <2>. SUFFICES ASSUME n + 1 <= Len(s) PROVE \E f : PrefixNumbers(f, s, r, n + 1)
    OBVIOUS
  <2>1. n \in Nat
    OBVIOUS
  <2>2. PICK f : PrefixNumbers(f, s, r, n)
    BY <2>1
  <2>. DEFINE g == [ k \in 0..n + 1 |-> IF k = n + 1 THEN f[n] * r + s[n + 1] ELSE f[k] ]
  <2>3. f[n] \in Nat /\ s[n + 1] \in Nat
    BY <2>1, <2>2 DEF PrefixNumbers
  <2>4. f[n] * r + s[n + 1] \in Nat
    <3>1. f[n] * r \in Nat
      BY <2>3, Product
    <3>2. \A a, b \in Nat : a + b \in Nat
      OBVIOUS
    <3>. QED
      BY <2>3, <3>1, <3>2
  <2>5. g \in [ 0..n + 1 -> Nat ] /\ g[0] = 0
    BY <2>1, <2>2, <2>4 DEF PrefixNumbers
  <2>6. ASSUME NEW k \in 1..n + 1 PROVE g[k] = g[k - 1] * r + s[k]
    <3>1. k - 1 \in 0..n + 1 /\ k - 1 # n + 1 /\ k \in 0..n + 1
      BY <2>1
    <3>2. g[k - 1] = f[k - 1]
      BY <3>1
    <3>3. CASE k = n + 1
      BY <2>1, <3>1, <3>2, <3>3
    <3>4. CASE k # n + 1
      <4>1. k \in 1..n
        BY <2>1, <3>4
      <4>2. g[k] = f[k]
        BY <3>1, <3>4
      <4>. QED
        BY <2>2, <3>2, <4>1, <4>2 DEF PrefixNumbers
    <3>. QED
      BY <3>3, <3>4
  <2>. HIDE DEF g
  <2>7. PrefixNumbers(g, s, r, n + 1)
    BY <2>5, <2>6 DEF PrefixNumbers
  <2>. QED
    BY <2>7
<1>3. S = Nat
  <2>. HIDE DEF S
  <2>1. S \in SUBSET Nat
    BY DEF S
  <2>. QED
    BY <1>1, <1>2, <2>1, EveryNatural
<1>4. Len(s) \in Nat
  OBVIOUS
<1>. HIDE DEF S
<1>5. Len(s) \in S
  BY <1>3, <1>4
<1>. QED
  BY <1>4, <1>5 DEF S

\* They are determined by the digits.
LEMMA PrefixNumbersAgree ==
  ASSUME NEW r \in Nat, NEW n \in Nat, NEW s, NEW t,
         NEW f, NEW g, PrefixNumbers(f, s, r, n), PrefixNumbers(g, t, r, n),
         \A k \in 1..n : s[k] = t[k]
  PROVE  f[n] = g[n]
<1>. DEFINE S == { k \in Nat : k <= n => f[k] = g[k] }
<1>1. 0 \in S
  BY DEF PrefixNumbers
<1>2. ASSUME NEW k \in S PROVE k + 1 \in S
  <2>. SUFFICES ASSUME k + 1 <= n PROVE f[k + 1] = g[k + 1]
    OBVIOUS
  <2>1. k \in Nat /\ k + 1 \in 1..n /\ f[k] = g[k] /\ (k + 1) - 1 = k
    OBVIOUS
  <2>2. f[k + 1] = f[k] * r + s[k + 1]
    BY <2>1 DEF PrefixNumbers
  <2>3. g[k + 1] = g[k] * r + t[k + 1]
    BY <2>1 DEF PrefixNumbers
  <2>. QED
    BY <2>1, <2>2, <2>3
<1>3. S = Nat
  <2>. HIDE DEF S
  <2>1. S \in SUBSET Nat
    BY DEF S
  <2>. QED
    BY <1>1, <1>2, <2>1, EveryNatural
<1>. QED
  BY <1>3

LEMMA NumberIs ==
  ASSUME NEW s \in Seq(Nat), NEW r \in Nat
  PROVE  \E f : PrefixNumbers(f, s, r, Len(s)) /\ Number(s, r) = f[Len(s)]
<1>. DEFINE Unfolds(f) == f = [ k \in 0..Len(s) |->
                                  IF k = 0 THEN 0 ELSE f[k - 1] * r + s[k] ]
            number == CHOOSE f : Unfolds(f)
<1>1. PICK f : PrefixNumbers(f, s, r, Len(s))
  BY PrefixNumbersExist
<1>2. Unfolds(f)
  <2>. DEFINE h == [ k \in 0..Len(s) |-> IF k = 0 THEN 0 ELSE f[k - 1] * r + s[k] ]
  <2>1. DOMAIN f = 0..Len(s) /\ f = [ k \in 0..Len(s) |-> f[k] ]
    BY <1>1 DEF PrefixNumbers
  <2>2. \A k \in 0..Len(s) : f[k] = h[k]
    BY <1>1 DEF PrefixNumbers
  <2>3. h = [ k \in 0..Len(s) |-> h[k] ]
    OBVIOUS
  <2>. HIDE DEF h
  <2>4. f = h
    BY <2>1, <2>2, <2>3
  <2>. QED
    BY <2>4 DEF h
<1>3. Unfolds(number)
  <2>. HIDE DEF Unfolds
  <2>. QED
    BY <1>2
<1>4. Number(s, r) = number[Len(s)]
  BY DEF Number
<1>. HIDE DEF number
<1>5. \A k \in 0..Len(s) : number[k] = IF k = 0 THEN 0 ELSE number[k - 1] * r + s[k]
  BY <1>3
<1>6. number \in [ 0..Len(s) -> Nat ]
  <2>. DEFINE S == { k \in Nat : k <= Len(s) => number[k] \in Nat }
  <2>1. 0 \in S
    BY <1>5
  <2>2. ASSUME NEW k \in S PROVE k + 1 \in S
    <3>. SUFFICES ASSUME k + 1 <= Len(s) PROVE number[k + 1] \in Nat
      OBVIOUS
    <3>1. k \in Nat /\ k + 1 \in 0..Len(s) /\ (k + 1) - 1 = k /\ k + 1 # 0
          /\ number[k] \in Nat /\ s[k + 1] \in Nat
      OBVIOUS
    <3>2. number[k + 1] = number[k] * r + s[k + 1]
      BY <1>5, <3>1
    <3>3. number[k] * r \in Nat
      BY <3>1, Product
    <3>. HIDE DEF S
    <3>4. \A a, b \in Nat : a + b \in Nat
      OBVIOUS
    <3>. QED
      BY <3>1, <3>2, <3>3, <3>4
  <2>3. S = Nat
    <3>. HIDE DEF S
    <3>1. S \in SUBSET Nat
      BY DEF S
    <3>. QED
      BY <2>1, <2>2, <3>1, EveryNatural
  <2>4. \A k \in 0..Len(s) : number[k] \in Nat
    BY <2>3
  <2>5. number = [ k \in 0..Len(s) |-> number[k] ]
    BY <1>3
  <2>. QED
    BY <2>4, <2>5
<1>7. PrefixNumbers(number, s, r, Len(s))
  BY <1>5, <1>6 DEF PrefixNumbers
<1>. QED
  BY <1>4, <1>7

LEMMA NumberEmpty ==
  ASSUME NEW r \in Nat
  PROVE  Number(<< >>, r) = 0
<1>1. << >> \in Seq(Nat) /\ Len(<< >>) = 0
  OBVIOUS
<1>. QED
  BY <1>1, NumberIs DEF PrefixNumbers

\* A digit more multiplies by the radix and adds the digit.
LEMMA NumberAppend ==
  ASSUME NEW s \in Seq(Nat), NEW d \in Nat, NEW r \in Nat
  PROVE  /\ Number(s, r) \in Nat
         /\ Number(Append(s, d), r) = Number(s, r) * r + d
<1>. DEFINE n == Len(s)
            t == Append(s, d)
<1>1. n \in Nat /\ t \in Seq(Nat) /\ Len(t) = n + 1 /\ t[n + 1] = d
      /\ \A k \in 1..n : t[k] = s[k] /\ s[k] \in Nat
  OBVIOUS
<1>2. PICK f : PrefixNumbers(f, s, r, n) /\ Number(s, r) = f[n]
  BY NumberIs
<1>3. PICK g : PrefixNumbers(g, t, r, n + 1) /\ Number(t, r) = g[n + 1]
  BY <1>1, NumberIs
<1>. HIDE DEF n, t
<1>. DEFINE h == [ k \in 0..n |-> g[k] ]
<1>4. PrefixNumbers(h, t, r, n)
  <2>1. h \in [ 0..n -> Nat ] /\ h[0] = 0
    <3>1. 0..n \subseteq 0..n + 1 /\ 0 \in 0..n
      BY <1>1
    <3>. QED
      BY <1>3, <3>1 DEF PrefixNumbers
  <2>2. ASSUME NEW k \in 1..n PROVE h[k] = h[k - 1] * r + t[k]
    <3>1. k \in 0..n /\ k - 1 \in 0..n /\ k \in 1..n + 1
      BY <1>1
    <3>. QED
      BY <1>3, <3>1 DEF PrefixNumbers
  <2>. HIDE DEF h
  <2>. QED
    BY <2>1, <2>2 DEF PrefixNumbers
<1>5. h[n] = g[n]
  BY <1>1
<1>. HIDE DEF h
<1>6. f[n] = h[n]
  <2>1. \A k \in 1..n : s[k] = t[k]
    BY <1>1
  <2>2. PrefixNumbers(f, s, r, n)
    BY <1>2
  <2>. QED
    BY <1>1, <1>4, <2>1, <2>2, PrefixNumbersAgree
<1>7. g[n + 1] = g[n] * r + t[n + 1]
  <2>1. n + 1 \in 1..n + 1 /\ (n + 1) - 1 = n
    BY <1>1
  <2>. QED
    BY <1>3, <2>1 DEF PrefixNumbers
<1>8. f[n] \in Nat
  BY <1>1, <1>2 DEF PrefixNumbers
<1>. QED
  BY <1>1, <1>2, <1>3, <1>5, <1>6, <1>7, <1>8 DEF t
----------------------------------------------------------------------------
(* The digits of a number.                                                 *)

Digit(r) == 0..r - 1

\* f holds the digits of the numbers up to n.
DigitTable(f, n, r) ==
  /\ f \in [ 0..n -> Seq(Digit(r)) ] /\ f[0] = << >>
  /\ \A m \in 1..n : f[m] = Append(f[m \div r], m % r)

LEMMA DigitTableExists ==
  ASSUME NEW n \in Nat, NEW r \in Nat, r > 1
  PROVE  \E f : DigitTable(f, n, r)
<1>. DEFINE S == { p \in Nat : \E f : DigitTable(f, p, r) }
<1>1. 0 \in S
  <2>1. DigitTable([ k \in 0..0 |-> << >> ], 0, r)
    BY DEF DigitTable
  <2>. QED
    BY <2>1
<1>2. ASSUME NEW p \in S PROVE p + 1 \in S
  <2>1. p \in Nat /\ p + 1 \in Nat
    OBVIOUS
  <2>2. PICK f : DigitTable(f, p, r)
    OBVIOUS
  <2>. DEFINE q == p + 1
              last == Append(f[q \div r], q % r)
              g == [ m \in 0..q |-> IF m = q THEN last ELSE f[m] ]
  <2>3. q \in Nat /\ q > 0 /\ q = p + 1
    BY <2>1
  <2>. HIDE DEF q
  <2>4. q \div r \in 0..p /\ q % r \in Digit(r)
    <3>1. q \div r \in Nat /\ q \div r < q /\ q % r \in 0..r - 1
      BY <2>3, Division
    <3>. QED
      BY <2>1, <2>3, <3>1 DEF Digit
  <2>5. f[q \div r] \in Seq(Digit(r))
    BY <2>2, <2>4 DEF DigitTable
  <2>6. last \in Seq(Digit(r))
    BY <2>4, <2>5
  <2>. HIDE DEF last
  <2>10. \A m \in 0..q : m # q => m \in 0..p
    BY <2>1, <2>3
  <2>7. g \in [ 0..q -> Seq(Digit(r)) ] /\ g[0] = << >>
    <3>1. \A m \in 0..q : g[m] \in Seq(Digit(r))
      BY <2>2, <2>6, <2>10 DEF DigitTable
    <3>2. 0 \in 0..q /\ 0 # q
      BY <2>1, <2>3
    <3>3. g[0] = f[0]
      BY <3>2
    <3>. QED
      BY <2>2, <3>1, <3>3 DEF DigitTable
  <2>8. ASSUME NEW m \in 1..q PROVE g[m] = Append(g[m \div r], m % r)
    <3>1. m \in Nat /\ m > 0 /\ m \in 0..q
      OBVIOUS
    <3>2. m \div r \in Nat /\ m \div r < m
      BY <3>1, Division
    <3>3. m \div r \in 0..q /\ m \div r # q
      BY <2>3, <3>1, <3>2
    <3>4. g[m \div r] = f[m \div r]
      BY <3>3
    <3>5. CASE m = q
      BY <3>1, <3>4, <3>5 DEF last
    <3>6. CASE m # q
      <4>1. m \in 1..p
        BY <2>1, <2>3, <3>6
      <4>2. g[m] = f[m]
        BY <3>1, <3>6
      <4>. QED
        BY <2>2, <3>4, <4>1, <4>2 DEF DigitTable
    <3>. QED
      BY <3>5, <3>6
  <2>. HIDE DEF g
  <2>9. DigitTable(g, q, r)
    BY <2>7, <2>8 DEF DigitTable
  <2>. QED
    BY <2>1, <2>3, <2>9
<1>3. S = Nat
  <2>. HIDE DEF S
  <2>1. S \in SUBSET Nat
    BY DEF S
  <2>. QED
    BY <1>1, <1>2, <2>1, EveryNatural
<1>. QED
  BY <1>3

LEMMA DigitsAre ==
  ASSUME NEW n \in Nat, NEW r \in Nat, r > 1
  PROVE  \E f : DigitTable(f, n, r) /\ DigitsOf(n, r) = f[n]
<1>. DEFINE Unfolds(f) == f = [ m \in 0..n |->
                                  IF m = 0 THEN << >>
                                  ELSE Append(f[m \div r], m % r) ]
            digits == CHOOSE f : Unfolds(f)
<1>1. PICK f : DigitTable(f, n, r)
  BY DigitTableExists
<1>2. Unfolds(f)
  <2>. DEFINE h == [ m \in 0..n |-> IF m = 0 THEN << >>
                                     ELSE Append(f[m \div r], m % r) ]
  <2>1. f = [ m \in 0..n |-> f[m] ]
    BY <1>1 DEF DigitTable
  <2>2. ASSUME NEW m \in 0..n PROVE f[m] = h[m]
    <3>1. m = 0 => f[m] = << >> /\ h[m] = << >>
      BY <1>1 DEF DigitTable
    <3>2. m # 0 => m \in 1..n
      OBVIOUS
    <3>3. m # 0 => f[m] = Append(f[m \div r], m % r)
      BY <1>1, <3>2 DEF DigitTable
    <3>4. m # 0 => h[m] = Append(f[m \div r], m % r)
      OBVIOUS
    <3>. QED
      BY <3>1, <3>3, <3>4
  <2>3. h = [ m \in 0..n |-> h[m] ]
    OBVIOUS
  <2>. HIDE DEF h
  <2>4. f = h
    BY <2>1, <2>2, <2>3
  <2>. QED
    BY <2>4 DEF h
<1>3. Unfolds(digits)
  <2>. HIDE DEF Unfolds
  <2>. QED
    BY <1>2
<1>4. DigitsOf(n, r) = digits[n]
  BY DEF DigitsOf
<1>. HIDE DEF digits
<1>5. /\ digits[0] = << >>
      /\ \A m \in 1..n : digits[m] = Append(digits[m \div r], m % r)
  <2>1. digits[0] = << >>
    BY <1>3
  <2>2. ASSUME NEW m \in 1..n PROVE digits[m] = Append(digits[m \div r], m % r)
    <3>1. m \in 0..n /\ m # 0
      OBVIOUS
    <3>. QED
      BY <1>3, <3>1
  <2>. QED
    BY <2>1, <2>2
<1>6. digits \in [ 0..n -> Seq(Digit(r)) ]
  <2>. DEFINE S == { m \in Nat : m <= n => digits[m] \in Seq(Digit(r)) }
  <2>1. ASSUME NEW m \in Nat, \A k \in Nat : k < m => k \in S
        PROVE  m \in S
    <3>. SUFFICES ASSUME m <= n PROVE digits[m] \in Seq(Digit(r))
      OBVIOUS
    <3>1. CASE m = 0
      <4>1. digits[m] = << >>
        BY <1>5, <3>1
      <4>2. << >> \in Seq(Digit(r))
        OBVIOUS
      <4>. QED
        BY <4>1, <4>2
    <3>2. CASE m > 0
      <4>1. m \div r \in Nat /\ m \div r < m /\ m % r \in Digit(r)
        BY <3>2, Division DEF Digit
      <4>2. digits[m \div r] \in Seq(Digit(r))
        BY <2>1, <4>1
      <4>4. m \in 1..n
        BY <3>2
      <4>3. digits[m] = Append(digits[m \div r], m % r)
        BY <1>5, <4>4
      <4>. QED
        BY <4>1, <4>2, <4>3
    <3>. QED
      BY <3>1, <3>2
  <2>2. S = Nat
    <3>. HIDE DEF S
    <3>1. S \in SUBSET Nat
      BY DEF S
    <3>. QED
      BY <2>1, <3>1, EveryNaturalFromSmaller
  <2>3. \A m \in 0..n : digits[m] \in Seq(Digit(r))
    BY <2>2
  <2>4. digits = [ m \in 0..n |-> digits[m] ]
    BY <1>3
  <2>. QED
    BY <2>3, <2>4
<1>7. DigitTable(digits, n, r)
  BY <1>5, <1>6 DEF DigitTable
<1>. QED
  BY <1>4, <1>7

\* Two tables agree where both are defined.
LEMMA DigitTablesAgree ==
  ASSUME NEW r \in Nat, r > 1, NEW n \in Nat, NEW p \in 0..n, NEW f, NEW g,
         DigitTable(f, n, r), DigitTable(g, p, r)
  PROVE  f[p] = g[p]
<1>. DEFINE S == { m \in Nat : m <= p => f[m] = g[m] }
<1>1. ASSUME NEW m \in Nat, \A k \in Nat : k < m => k \in S
      PROVE  m \in S
  <2>. SUFFICES ASSUME m <= p PROVE f[m] = g[m]
    OBVIOUS
  <2>1. CASE m = 0
    BY <2>1 DEF DigitTable
  <2>2. CASE m > 0
    <3>1. m \div r \in Nat /\ m \div r < m
      BY <2>2, Division
    <3>2. f[m \div r] = g[m \div r]
      BY <1>1, <3>1
    <3>3. m \in 1..n /\ m \in 1..p
      BY <2>2
    <3>4. f[m] = Append(f[m \div r], m % r)
      BY <3>3 DEF DigitTable
    <3>5. g[m] = Append(g[m \div r], m % r)
      BY <3>3 DEF DigitTable
    <3>. QED
      BY <3>2, <3>4, <3>5
  <2>. QED
    BY <2>1, <2>2
<1>2. S = Nat
  <2>. HIDE DEF S
  <2>1. S \in SUBSET Nat
    BY DEF S
  <2>. QED
    BY <1>1, <2>1, EveryNaturalFromSmaller
<1>3. p \in Nat /\ p <= p
  OBVIOUS
<1>. HIDE DEF S
<1>4. p \in S
  BY <1>2, <1>3
<1>. QED
  BY <1>3, <1>4 DEF S

\* Zero has no digits, and the last digit of another number is its remainder.
LEMMA DigitsUnfold ==
  ASSUME NEW n \in Nat, NEW r \in Nat, r > 1
  PROVE  /\ DigitsOf(n, r) \in Seq(Digit(r))
         /\ n = 0 => DigitsOf(n, r) = << >>
         /\ n > 0 => DigitsOf(n, r) = Append(DigitsOf(n \div r, r), n % r)
<1>1. PICK f : DigitTable(f, n, r) /\ DigitsOf(n, r) = f[n]
  BY DigitsAre
<1>2. DigitsOf(n, r) \in Seq(Digit(r)) /\ (n = 0 => DigitsOf(n, r) = << >>)
  BY <1>1 DEF DigitTable
<1>3. ASSUME n > 0 PROVE DigitsOf(n, r) = Append(DigitsOf(n \div r, r), n % r)
  <2>. DEFINE p == n \div r
  <2>1. p \in Nat /\ p \in 0..n
    BY <1>3, Division
  <2>2. f[n] = Append(f[p], n % r)
    BY <1>1, <1>3 DEF DigitTable
  <2>. HIDE DEF p
  <2>3. PICK g : DigitTable(g, p, r) /\ DigitsOf(p, r) = g[p]
    BY <2>1, DigitsAre
  <2>4. f[p] = g[p]
    BY <1>1, <2>1, <2>3, DigitTablesAgree
  <2>. QED
    BY <1>1, <2>2, <2>3, <2>4 DEF p
<1>. QED
  BY <1>2, <1>3
----------------------------------------------------------------------------
(* Digits and numbers are each other's inverses.                           *)

NoZeroFirst(s) == s = << >> \/ s[1] # 0

\* A sequence is empty or a shorter one with a last element.
LEMMA FrontAndLast ==
  ASSUME NEW S, NEW s \in Seq(S), s # << >>
  PROVE  \E u \in Seq(S), d \in S :
           /\ s = Append(u, d) /\ Len(s) = Len(u) + 1
           /\ s[1] = IF u = << >> THEN d ELSE u[1]
<1>. DEFINE n == Len(s) - 1
            u == SubSeq(s, 1, n)
            d == s[n + 1]
<1>1. n \in Nat /\ Len(s) = n + 1 /\ d \in S
  OBVIOUS
<1>2. u \in Seq(S) /\ Len(u) = n /\ \A k \in 1..n : u[k] = s[k]
  BY <1>1
<1>5. d = s[n + 1]
  OBVIOUS
<1>. HIDE DEF n, u, d
<1>3. s = Append(u, d)
  <2>1. Append(u, d) \in Seq(S) /\ Len(Append(u, d)) = n + 1
    BY <1>1, <1>2
  <2>2. ASSUME NEW k \in 1..n + 1 PROVE s[k] = Append(u, d)[k]
    <3>1. CASE k = n + 1
      BY <1>1, <1>2, <1>5, <3>1
    <3>2. CASE k # n + 1
      <4>1. k \in 1..n
        BY <1>1, <3>2
      <4>. QED
        BY <1>1, <1>2, <4>1
    <3>. QED
      BY <3>1, <3>2
  <2>. QED
    BY <1>1, <2>1, <2>2, SeqEqual
<1>4. s[1] = IF u = << >> THEN d ELSE u[1]
  <2>1. CASE u = << >>
    <3>1. n = 0
      BY <1>2, <2>1
    <3>. QED
      BY <1>5, <2>1, <3>1
  <2>2. CASE u # << >>
    <3>1. n >= 1
      BY <1>1, <1>2, <2>2
    <3>. QED
      BY <1>1, <1>2, <2>2, <3>1
  <2>. QED
    BY <2>1, <2>2
<1>. QED
  BY <1>1, <1>2, <1>3, <1>4

\* A sequence of m + 1 numbers is one of m numbers with one more behind it.
LEMMA LastOff ==
  ASSUME NEW m \in Nat, NEW t \in Seq(Nat), Len(t) = m + 1
  PROVE  \E v \in Seq(Nat), d \in Nat : t = Append(v, d) /\ Len(v) = m
<1>1. t # << >>
  <2>1. Len(<< >>) = 0 /\ m + 1 # 0
    BY EmptySeq
  <2>. QED
    BY <2>1
<1>2. PICK v \in Seq(Nat), d \in Nat : t = Append(v, d) /\ Len(t) = Len(v) + 1
  <2>1. PICK v \in Seq(Nat), d \in Nat : t = Append(v, d)
    BY <1>1, SequenceEmptyOrAppend
  <2>2. Len(Append(v, d)) = Len(v) + 1
    BY AppendProperties
  <2>. QED
    BY <2>1, <2>2
<1>3. Len(v) \in Nat
  BY <1>2, LenProperties
<1>4. Len(v) = m
  BY <1>2, <1>3
<1>. QED
  BY <1>2, <1>4

LEMMA ConcatAppend ==
  ASSUME NEW u \in Seq(Nat), NEW v \in Seq(Nat), NEW d \in Nat
  PROVE  u \o v \in Seq(Nat) /\ u \o Append(v, d) = Append(u \o v, d)
<1>1. u \o v \in Seq(Nat) /\ << d >> \in Seq(Nat)
  BY ConcatProperties
<1>2. Append(v, d) = v \o << d >> /\ Append(u \o v, d) = (u \o v) \o << d >>
  BY <1>1, AppendIsConcat
<1>3. u \o (v \o << d >>) = (u \o v) \o << d >>
  BY <1>1, ConcatAssociative
<1>. QED
  BY <1>1, <1>2, <1>3

\* What stands where in a concatenation.
LEMMA ConcatElements ==
  ASSUME NEW z \in Seq(Nat), NEW u \in Seq(Nat), NEW n \in Nat, Len(z) = n
  PROVE  /\ z \o u \in Seq(Nat) /\ Len(z \o u) = n + Len(u) /\ Len(u) \in Nat
         /\ \A k \in 1..n + Len(u) :
               (z \o u)[k] = IF k <= n THEN z[k] ELSE u[k - n]
<1>1. Len(u) \in Nat
  BY LenProperties
<1>. QED
  BY <1>1, ConcatProperties

LEMMA DigitsOfNumber ==
  ASSUME NEW r \in Nat, r > 1, NEW s \in Seq(Digit(r)), NoZeroFirst(s)
  PROVE  DigitsOf(Number(s, r), r) = s
<1>. DEFINE P(t) == /\ DigitsOf(Number(t, r), r) = t
                    /\ t # << >> => Number(t, r) > 0
            S == { n \in Nat : \A t \in Seq(Digit(r)) :
                                 Len(t) = n /\ NoZeroFirst(t) => P(t) }
<1>1. 0 \in S
  <2>. SUFFICES ASSUME NEW t \in Seq(Digit(r)), Len(t) = 0 PROVE P(t)
    OBVIOUS
  <2>1. t = << >>
    OBVIOUS
  <2>2. Number(t, r) = 0
    BY <2>1, NumberEmpty
  <2>. QED
    BY <2>1, <2>2, DigitsUnfold
<1>2. ASSUME NEW n \in S PROVE n + 1 \in S
  <2>. SUFFICES ASSUME NEW t \in Seq(Digit(r)), Len(t) = n + 1, NoZeroFirst(t)
                PROVE  P(t)
    OBVIOUS
  <2>1. n \in Nat /\ t # << >> /\ t[1] # 0
    <3>1. n \in Nat
      OBVIOUS
    <3>2. t # << >>
      BY <3>1
    <3>. QED
      BY <3>1, <3>2 DEF NoZeroFirst
  <2>2. PICK u \in Seq(Digit(r)), d \in Digit(r) :
               /\ t = Append(u, d) /\ Len(t) = Len(u) + 1
               /\ t[1] = IF u = << >> THEN d ELSE u[1]
    BY <2>1, FrontAndLast
  <2>3. Len(u) = n /\ NoZeroFirst(u)
    BY <2>1, <2>2 DEF NoZeroFirst
  <2>4. P(u)
    BY <2>3
  <2>. HIDE DEF P
  <2>5. u \in Seq(Nat) /\ d \in Nat /\ d \in 0..r - 1
    BY <2>2 DEF Digit
  <2>6. Number(u, r) \in Nat /\ Number(t, r) = Number(u, r) * r + d
    BY <2>2, <2>5, NumberAppend
  <2>. DEFINE q == Number(u, r)
              m == Number(t, r)
  <2>7. q \in Nat /\ m = q * r + d /\ q * r \in Nat
    BY <2>6, Product
  <2>8. DigitsOf(q, r) = u /\ (u # << >> => q > 0)
    BY <2>4 DEF P
  <2>. HIDE DEF q, m
  <2>12. PICK p \in Nat : p = q * r /\ m = p + d
    BY <2>7
  <2>9. m > 0
    <3>1. CASE u = << >>
      <4>1. d # 0
        BY <2>1, <2>2, <3>1
      <4>. QED
        BY <2>5, <2>12, <4>1
    <3>2. CASE u # << >>
      <4>1. q >= 1
        BY <2>7, <2>8, <3>2
      <4>2. p >= r
        BY <2>7, <2>12, <4>1, Product
      <4>. QED
        BY <2>5, <2>12, <4>2
    <3>. QED
      BY <3>1, <3>2
  <2>10. m \div r = q /\ m % r = d
    BY <2>5, <2>7, DivisionIsUnique
  <2>11. DigitsOf(m, r) = Append(DigitsOf(m \div r, r), m % r)
    <3>1. m \in Nat
      BY <2>5, <2>12
    <3>. QED
      BY <2>9, <3>1, DigitsUnfold
  <2>. QED
    BY <2>2, <2>8, <2>9, <2>10, <2>11 DEF P, m
<1>3. S = Nat
  <2>. HIDE DEF S
  <2>1. S \in SUBSET Nat
    BY DEF S
  <2>. QED
    BY <1>1, <1>2, <2>1, EveryNatural
<1>4. Len(s) \in Nat
  OBVIOUS
<1>. QED
  BY <1>3, <1>4

LEMMA NumberOfDigits ==
  ASSUME NEW r \in Nat, r > 1, NEW n \in Nat
  PROVE  /\ Number(DigitsOf(n, r), r) = n
         /\ NoZeroFirst(DigitsOf(n, r))
<1>. DEFINE P(m) == /\ Number(DigitsOf(m, r), r) = m
                    /\ NoZeroFirst(DigitsOf(m, r))
                    /\ m > 0 => DigitsOf(m, r) # << >>
            S == { m \in Nat : P(m) }
<1>1. ASSUME NEW m \in Nat, \A k \in Nat : k < m => k \in S
      PROVE  m \in S
  <2>. SUFFICES P(m)
    OBVIOUS
  <2>1. CASE m = 0
    <3>1. DigitsOf(m, r) = << >>
      BY <2>1, DigitsUnfold
    <3>2. Number(<< >>, r) = 0
      BY NumberEmpty
    <3>. QED
      BY <2>1, <3>1, <3>2 DEF NoZeroFirst
  <2>2. CASE m > 0
    <3>. DEFINE q == m \div r
                d == m % r
                u == DigitsOf(q, r)
                t == DigitsOf(m, r)
    <3>1. q \in Nat /\ q < m /\ d \in 0..r - 1 /\ m = q * r + d
      BY <2>2, Division
    <3>2. P(q)
      BY <1>1, <3>1
    <3>. HIDE DEF P
    <3>3. t = Append(u, d)
      BY <2>2, DigitsUnfold
    <3>. HIDE DEF q, d
    <3>4. u \in Seq(Digit(r)) /\ (q = 0 => u = << >>)
      BY <3>1, DigitsUnfold
    <3>5. u \in Seq(Nat) /\ d \in Nat
      BY <3>1, <3>4 DEF Digit
    <3>6. Number(u, r) = q /\ NoZeroFirst(u) /\ (q > 0 => u # << >>)
      BY <3>2 DEF P
    <3>. HIDE DEF u, t
    <3>7. Number(t, r) = m
      BY <3>1, <3>3, <3>5, <3>6, NumberAppend
    <3>8. t # << >>
      BY <3>3, <3>5
    <3>9. t[1] # 0
      <4>1. CASE q = 0
        <5>1. u = << >> /\ d # 0
          BY <2>2, <3>1, <3>4, <4>1
        <5>. QED
          BY <3>3, <5>1
      <4>2. CASE q # 0
        <5>1. u # << >> /\ u[1] # 0
          BY <3>1, <3>6, <4>2 DEF NoZeroFirst
        <5>2. t[1] = u[1]
          BY <3>3, <3>5, <5>1
        <5>. QED
          BY <5>1, <5>2
      <4>. QED
        BY <4>1, <4>2
    <3>. QED
      BY <3>7, <3>8, <3>9 DEF P, t, NoZeroFirst
  <2>. QED
    BY <2>1, <2>2
<1>2. S = Nat
  <2>. HIDE DEF S
  <2>1. S \in SUBSET Nat
    BY DEF S
  <2>. QED
    BY <1>1, <2>1, EveryNaturalFromSmaller
<1>. QED
  BY <1>2
----------------------------------------------------------------------------
(* The zeros in front.                                                     *)

\* s starts with n zeros and no more.
StartsWithZeros(s, n) ==
  /\ n \in 0..Len(s) /\ \A k \in 1..n : s[k] = 0
  /\ n < Len(s) => s[n + 1] # 0

LEMMA LeadingZerosStart ==
  ASSUME NEW s \in Seq(Nat)
  PROVE  StartsWithZeros(s, LeadingZeros(s))
<1>. DEFINE S == { k \in 0..Len(s) : k < Len(s) => s[k + 1] # 0 }
<1>1. S \in SUBSET Nat /\ Len(s) \in S
  OBVIOUS
<1>2. PICK n \in S : \A k \in S : n <= k
  BY <1>1, LeastNatural
<1>3. ASSUME NEW k \in 1..n PROVE s[k] = 0
  <2>1. n \in Nat /\ n <= Len(s) /\ Len(s) \in Nat
    OBVIOUS
  <2>2. k - 1 \in 0..Len(s) /\ k - 1 < n /\ (k - 1) + 1 = k
    BY <2>1
  <2>3. k - 1 \notin S
    <3>. HIDE DEF S
    <3>. QED
      BY <1>2, <2>1, <2>2
  <2>. QED
    BY <2>2, <2>3
<1>4. StartsWithZeros(s, n)
  BY <1>2, <1>3 DEF StartsWithZeros
<1>5. LeadingZeros(s) = CHOOSE m \in 0..Len(s) : (\A k \in 1..m : s[k] = 0)
                                                 /\ (m < Len(s) => s[m + 1] # 0)
  BY DEF LeadingZeros
<1>6. \E m \in 0..Len(s) : (\A k \in 1..m : s[k] = 0) /\ (m < Len(s) => s[m + 1] # 0)
  BY <1>4 DEF StartsWithZeros
<1>. QED
  BY <1>5, <1>6 DEF StartsWithZeros

LEMMA LeadingZerosAre ==
  ASSUME NEW s \in Seq(Nat), NEW n, StartsWithZeros(s, n)
  PROVE  LeadingZeros(s) = n
<1>. DEFINE m == LeadingZeros(s)
<1>1. StartsWithZeros(s, m)
  BY LeadingZerosStart
<1>. HIDE DEF m
<1>2. m \in Nat /\ n \in Nat /\ m <= Len(s) /\ n <= Len(s) /\ Len(s) \in Nat
  BY <1>1 DEF StartsWithZeros
<1>3. ~(m < n)
  <2>. SUFFICES ASSUME m < n PROVE FALSE
    OBVIOUS
  <2>1. m < Len(s) /\ m + 1 \in 1..n
    BY <1>2
  <2>. QED
    BY <1>1, <2>1 DEF StartsWithZeros
<1>4. ~(n < m)
  <2>. SUFFICES ASSUME n < m PROVE FALSE
    OBVIOUS
  <2>1. n < Len(s) /\ n + 1 \in 1..m
    BY <1>2
  <2>. QED
    BY <1>1, <2>1 DEF StartsWithZeros
<1>. QED
  BY <1>2, <1>3, <1>4 DEF m

LEMMA ZerosInFront ==
  ASSUME NEW n \in Nat, NEW u \in Seq(Nat)
  PROVE  /\ Zeros(n) \in Seq(Nat) /\ Len(Zeros(n)) = n
         /\ Zeros(n) \o u \in Seq(Nat) /\ Len(Zeros(n) \o u) = n + Len(u)
         /\ \A k \in 1..n : (Zeros(n) \o u)[k] = 0
         /\ \A k \in 1..Len(u) : (Zeros(n) \o u)[n + k] = u[k]
<1>. DEFINE z == Zeros(n)
<1>1. z \in Seq(Nat) /\ Len(z) = n /\ \A k \in 1..n : z[k] = 0
  BY DEF Zeros
<1>. HIDE DEF z
<1>2. /\ z \o u \in Seq(Nat) /\ Len(z \o u) = n + Len(u)
      /\ \A k \in 1..n : (z \o u)[k] = 0
      /\ \A k \in 1..Len(u) : (z \o u)[n + k] = u[k]
  <2>1. z \o u \in Seq(Nat) /\ Len(z \o u) = n + Len(u) /\ Len(u) \in Nat
    BY <1>1, ConcatElements
  <2>2. \A k \in 1..n + Len(u) :
           (z \o u)[k] = IF k <= n THEN z[k] ELSE u[k - n]
    BY <1>1, ConcatElements
  <2>3. ASSUME NEW k \in 1..n PROVE (z \o u)[k] = 0
    <3>1. k \in 1..n + Len(u) /\ k <= n
      BY <2>1
    <3>. QED
      BY <1>1, <2>2, <3>1
  <2>4. ASSUME NEW k \in 1..Len(u) PROVE (z \o u)[n + k] = u[k]
    <3>1. n + k \in 1..n + Len(u) /\ ~(n + k <= n) /\ (n + k) - n = k
      BY <2>1
    <3>. QED
      BY <2>2, <3>1
  <2>. QED
    BY <2>1, <2>3, <2>4
<1>. QED
  BY <1>1, <1>2 DEF z

\* As many zeros as stand in front, and what follows them.
LEMMA ZerosAndRest ==
  ASSUME NEW s \in Seq(Nat)
  PROVE  \E n \in Nat, u \in Seq(Nat) :
           /\ LeadingZeros(s) = n /\ NoZeroFirst(u) /\ s = Zeros(n) \o u
           /\ Len(s) = n + Len(u) /\ \A k \in 1..Len(u) : u[k] = s[n + k]
<1>. DEFINE n == LeadingZeros(s)
            u == SubSeq(s, n + 1, Len(s))
<1>1. StartsWithZeros(s, n)
  BY LeadingZerosStart
<1>6. LeadingZeros(s) = n
  OBVIOUS
<1>. HIDE DEF n
<1>2. n \in Nat /\ n <= Len(s) /\ Len(s) \in Nat
  BY <1>1 DEF StartsWithZeros
<1>3. /\ u \in Seq(Nat) /\ Len(u) = Len(s) - n
      /\ \A k \in 1..Len(u) : u[k] = s[n + k]
  BY <1>2
<1>. HIDE DEF u
<1>4. NoZeroFirst(u)
  <2>. SUFFICES ASSUME u # << >> PROVE u[1] # 0
    BY DEF NoZeroFirst
  <2>1. n < Len(s) /\ 1 \in 1..Len(u)
    BY <1>2, <1>3
  <2>. QED
    BY <1>1, <1>3, <2>1 DEF StartsWithZeros
<1>5. s = Zeros(n) \o u
  <2>. DEFINE t == Zeros(n) \o u
  <2>1. /\ t \in Seq(Nat) /\ Len(t) = n + Len(u)
        /\ \A k \in 1..n : t[k] = 0
        /\ \A k \in 1..Len(u) : t[n + k] = u[k]
    BY <1>2, <1>3, ZerosInFront
  <2>. HIDE DEF t
  <2>2. ASSUME NEW k \in 1..Len(s) PROVE s[k] = t[k]
    <3>1. CASE k \in 1..n
      BY <1>1, <2>1, <3>1 DEF StartsWithZeros
    <3>2. CASE k \notin 1..n
      <4>1. k - n \in 1..Len(u) /\ n + (k - n) = k
        BY <1>2, <1>3, <3>2
      <4>2. u[k - n] = s[n + (k - n)] /\ t[n + (k - n)] = u[k - n]
        BY <1>3, <2>1, <4>1
      <4>. QED
        BY <4>1, <4>2
    <3>. QED
      BY <3>1, <3>2
  <2>3. Len(t) = Len(s)
    BY <1>2, <1>3, <2>1
  <2>4. s = t
    BY <2>1, <2>2, <2>3, SeqEqual
  <2>. QED
    BY <2>4 DEF t
<1>7. n \in Nat /\ u \in Seq(Nat) /\ Len(s) = n + Len(u)
  BY <1>2, <1>3
<1>. HIDE DEF u
<1>. USE <1>7
<1>. WITNESS n \in Nat, u \in Seq(Nat)
<1>. QED
  BY <1>3, <1>4, <1>5, <1>6, <1>7

LEMMA LeadingZerosOf ==
  ASSUME NEW n \in Nat, NEW u \in Seq(Nat), NoZeroFirst(u)
  PROVE  LeadingZeros(Zeros(n) \o u) = n
<1>. DEFINE t == Zeros(n) \o u
<1>1. /\ t \in Seq(Nat) /\ Len(t) = n + Len(u)
      /\ \A k \in 1..n : t[k] = 0
      /\ \A k \in 1..Len(u) : t[n + k] = u[k]
  BY ZerosInFront
<1>. HIDE DEF t
<1>2. ASSUME n < Len(t) PROVE t[n + 1] # 0
  <2>1. 1 \in 1..Len(u) /\ u # << >>
    BY <1>1, <1>2
  <2>. QED
    BY <1>1, <2>1 DEF NoZeroFirst
<1>3. n \in 0..Len(t)
  BY <1>1
<1>4. StartsWithZeros(t, n)
  BY <1>1, <1>2, <1>3 DEF StartsWithZeros
<1>. QED
  BY <1>1, <1>4, LeadingZerosAre DEF t

\* They add nothing to the number.
LEMMA NumberOfZeros ==
  ASSUME NEW n \in Nat, NEW u \in Seq(Nat), NEW r \in Nat
  PROVE  Number(Zeros(n) \o u, r) = Number(u, r)
<1>. DEFINE Z == { m \in Nat : Number(Zeros(m), r) = 0 }
            S == { m \in Nat : \A t \in Seq(Nat) :
                     Len(t) = m => Number(Zeros(n) \o t, r) = Number(t, r) }
<1>1. 0 \in Z
  <2>1. Zeros(0) = << >>
    BY DEF Zeros
  <2>. QED
    BY <2>1, NumberEmpty
<1>2. ASSUME NEW m \in Z PROVE m + 1 \in Z
  <2>1. m \in Nat /\ Number(Zeros(m), r) = 0
    OBVIOUS
  <2>2. Zeros(m) \in Seq(Nat) /\ Zeros(m + 1) = Append(Zeros(m), 0)
    BY <2>1 DEF Zeros
  <2>3. Number(Zeros(m + 1), r) = 0 * r + 0
    BY <2>1, <2>2, NumberAppend
  <2>. QED
    BY <2>1, <2>3
<1>3. Z = Nat
  <2>. HIDE DEF Z
  <2>1. Z \in SUBSET Nat
    BY DEF Z
  <2>. QED
    BY <1>1, <1>2, <2>1, EveryNatural
<1>4. Number(Zeros(n), r) = 0 /\ Zeros(n) \in Seq(Nat)
  BY <1>3, ZerosInFront
<1>. HIDE DEF Z
<1>5. 0 \in S
  <2>. SUFFICES ASSUME NEW t \in Seq(Nat), Len(t) = 0
                PROVE  Number(Zeros(n) \o t, r) = Number(t, r)
    OBVIOUS
  <2>1. t = << >>
    OBVIOUS
  <2>2. Zeros(n) \o t = Zeros(n)
    BY <1>4, <2>1, ConcatEmptySeq
  <2>. QED
    BY <1>4, <2>1, <2>2, NumberEmpty
<1>6. ASSUME NEW m \in S PROVE m + 1 \in S
  <2>. SUFFICES ASSUME NEW t \in Seq(Nat), Len(t) = m + 1
                PROVE  Number(Zeros(n) \o t, r) = Number(t, r)
    OBVIOUS
  <2>1. m \in Nat
    OBVIOUS
  <2>2. PICK v \in Seq(Nat), d \in Nat : t = Append(v, d) /\ Len(v) = m
    BY <2>1, LastOff
  <2>3. Len(v) = m
    BY <2>2
  <2>4. Number(Zeros(n) \o v, r) = Number(v, r)
    BY <2>3
  <2>5. Zeros(n) \o v \in Seq(Nat)
    BY ZerosInFront
  <2>6. Zeros(n) \o t = Append(Zeros(n) \o v, d)
    BY <1>4, <2>2, ConcatAppend
  <2>7. Number(Zeros(n) \o t, r) = Number(Zeros(n) \o v, r) * r + d
    <3>. DEFINE z == Zeros(n) \o v
    <3>1. z \in Seq(Nat) /\ Zeros(n) \o t = Append(z, d)
      BY <2>5, <2>6
    <3>. HIDE DEF z
    <3>2. Number(Append(z, d), r) = Number(z, r) * r + d
      BY <3>1, NumberAppend
    <3>. QED
      BY <3>1, <3>2 DEF z
  <2>8. Number(t, r) = Number(v, r) * r + d
    BY <2>2, NumberAppend
  <2>. QED
    BY <2>4, <2>7, <2>8
<1>7. S = Nat
  <2>. HIDE DEF S
  <2>1. S \in SUBSET Nat
    BY DEF S
  <2>. QED
    BY <1>5, <1>6, <2>1, EveryNatural
<1>8. Len(u) \in Nat
  OBVIOUS
<1>. QED
  BY <1>7, <1>8

----------------------------------------------------------------------------
\* Recoding into another radix loses nothing: recoding back gives what was there.
LEMMA RecodeBack ==
  ASSUME NEW r \in Nat, r > 1, NEW q \in Nat, q > 1, NEW s \in Seq(Digit(r))
  PROVE  /\ Recode(s, r, q) \in Seq(Digit(q))
         /\ Recode(Recode(s, r, q), q, r) = s
<1>1. Digit(r) \subseteq Nat /\ Digit(q) \subseteq Nat /\ s \in Seq(Nat)
  BY DEF Digit
<1>2. PICK n \in Nat, u \in Seq(Nat) :
             /\ LeadingZeros(s) = n /\ NoZeroFirst(u) /\ s = Zeros(n) \o u
             /\ Len(s) = n + Len(u) /\ \A k \in 1..Len(u) : u[k] = s[n + k]
  BY <1>1, ZerosAndRest
<1>3. u \in Seq(Digit(r))
  <2>1. ASSUME NEW k \in 1..Len(u) PROVE u[k] \in Digit(r)
    <3>1. n + k \in 1..Len(s)
      BY <1>2
    <3>. QED
      BY <1>2, <3>1
  <2>. QED
    BY <1>2, <2>1
<1>. DEFINE v == Number(s, r)
            w == DigitsOf(v, q)
            c == Recode(s, r, q)
<1>4. v = Number(u, r) /\ v \in Nat
  <2>1. v = Number(u, r)
    BY <1>2, NumberOfZeros
  <2>2. v \in Nat
    BY <1>1, NumberAppend
  <2>. QED
    BY <2>1, <2>2
<1>5. c = Zeros(n) \o w
  BY <1>2 DEF Recode
<1>. HIDE DEF v, c
<1>6. w \in Seq(Digit(q)) /\ NoZeroFirst(w) /\ Number(w, q) = v
  BY <1>4, DigitsUnfold, NumberOfDigits
<1>7. w \in Seq(Nat)
  BY <1>1, <1>6
<1>. HIDE DEF w
<1>8. c \in Seq(Digit(q))
  <2>1. Zeros(n) \in Seq(Digit(q))
    <3>1. 0 \in Digit(q)
      BY DEF Digit
    <3>. QED
      BY <3>1 DEF Zeros
  <2>. QED
    BY <1>5, <1>6, <2>1, ConcatProperties
<1>9. LeadingZeros(c) = n
  BY <1>5, <1>6, <1>7, LeadingZerosOf
<1>10. Number(c, q) = v
  BY <1>5, <1>6, <1>7, NumberOfZeros
<1>11. DigitsOf(v, r) = u
  BY <1>2, <1>3, <1>4, DigitsOfNumber
<1>12. Recode(c, q, r) = s
  BY <1>2, <1>9, <1>10, <1>11 DEF Recode
<1>. QED
  BY <1>8, <1>12 DEF c

----------------------------------------------------------------------------
(* The inductive invariant of parse_did.                                   *)

\* A varint that has been continued is past the values of one byte.
Reader ==
  /\ step = "syntax" => pos = 0 /\ count = 0 /\ value = 0 /\ scale = 1
  /\ Reading => /\ count = 0 => value = 0 /\ scale = 1
                /\ count > 0 => scale >= Half

\* A number of one byte was read from one byte.
FromOneByte ==
  /\ step = "code" => pos = count
  /\ step = "length" /\ code < Half => pos = count + 1 /\ raw[1] = code
  /\ step \in { "digest", "returned" } /\ code < Half /\ value < Half =>
       pos = 2 /\ raw[1] = code /\ raw[2] = value

Accepted ==
  step = "returned" =>
    /\ code = SHA2_256_CODE /\ value = V1_DIGEST_LENGTH
    /\ Len(raw) - pos = value /\ digest = SubSeq(raw, pos + 1, Len(raw))

IInv == TypeOK /\ Reader /\ FromOneByte /\ Accepted

----------------------------------------------------------------------------
\* What a byte that is read adds to the varint.
LEMMA NextOctet ==
  ASSUME TypeOK, Reader, Reading, MoreBytes
  PROVE  /\ Octet \in Byte /\ Octet \in Nat /\ Octet % Half \in 0..Half - 1
         /\ Extended \in Nat
         /\ scale * Half \in Nat \ { 0 } /\ scale * Half >= Half
         /\ ~Continues => Octet % Half = Octet
         /\ ~Continues /\ count = 0 => Extended = Octet
         /\ ~Continues /\ ~NonMinimal /\ count > 0 => Extended >= Half
  <1> USE DidAssumption
  <1>1. raw \in Seq(Byte) /\ pos \in Nat /\ pos < Len(raw) /\ value \in Nat
        /\ scale \in Nat /\ scale >= 1 /\ count \in Nat
    BY DEF TypeOK, MoreBytes
  <1>2. Octet \in Byte
    BY <1>1 DEF Octet
  <1>3. Octet \in Nat /\ Octet < 2 * Half
    BY <1>2, Base58Assumption DEF Byte
  <1>4. Octet % Half \in 0..Half - 1
    BY <1>3
  <1>5. ~Continues => Octet % Half = Octet
    BY <1>3 DEF Continues
  <1> HIDE DEF Octet
  <1>6. (Octet % Half) * scale \in Nat
        /\ (Octet % Half >= 1 => (Octet % Half) * scale >= scale)
    BY <1>1, <1>4, Product
  <1>7. Extended \in Nat
    BY <1>1, <1>6 DEF Extended
  <1>8. scale * Half \in Nat /\ scale * Half >= Half
    BY <1>1, Product
  <1>9. ~Continues /\ count = 0 => Extended = Octet
    <2> SUFFICES ASSUME ~Continues, count = 0 PROVE Extended = Octet
      OBVIOUS
    <2>1. value = 0 /\ scale = 1
      BY DEF Reader
    <2> QED BY <1>3, <1>5, <2>1 DEF Extended
  <1>10. ~Continues /\ ~NonMinimal /\ count > 0 => Extended >= Half
    <2> SUFFICES ASSUME ~Continues, ~NonMinimal, count > 0 PROVE Extended >= Half
      OBVIOUS
    <2>1. scale >= Half
      BY DEF Reader
    <2>2. Octet % Half >= 1
      BY <1>3, <1>5 DEF NonMinimal
    <2> QED BY <1>1, <1>6, <2>1, <2>2 DEF Extended
  <1> QED BY <1>2, <1>3, <1>4, <1>5, <1>7, <1>8, <1>9, <1>10

LEMMA InitOK == Init => IInv
  BY DidAssumption DEF Init, IInv, TypeOK, Reader, Reading, FromOneByte, Accepted

LEMMA RaiseKeeps ==
  ASSUME IInv, NEW e \in { "invalidDid", "unsupportedHash" }, Raise(e)
  PROVE  IInv'
  BY DEF IInv, TypeOK, Reader, Reading, FromOneByte, Accepted, Raise

\* What the text of a DID stands for is bytes, and encodes to the text.
LEMMA DecodedBytes ==
  ASSUME did \in Dids, IsSyntax(did)
  PROVE  /\ Base58Decode(did.encoded) \in Seq(Byte)
         /\ Base58Encode(Base58Decode(did.encoded)) = did.encoded
  <1> DEFINE text == did.encoded
  <1>1. text \in Seq(Nat) /\ \A k \in DOMAIN text : text[k] < Base
    BY DidAssumption DEF IsSyntax, IsBase58
  <1> HIDE DEF text
  <1>2. \A k \in 1..Len(text) : text[k] \in Digit(Base)
    BY <1>1, Base58Assumption DEF Digit
  <1>3. text \in Seq(Digit(Base))
    BY <1>1, <1>2
  <1>4. Base \in Nat /\ Base > 1 /\ ByteSize \in Nat /\ ByteSize > 1
    BY Base58Assumption
  <1>5. Recode(text, Base, ByteSize) \in Seq(Digit(ByteSize))
        /\ Recode(Recode(text, Base, ByteSize), ByteSize, Base) = text
    BY <1>3, <1>4, RecodeBack
  <1>6. Byte = Digit(ByteSize)
    BY DEF Byte, Digit
  <1> QED BY <1>5, <1>6 DEF Base58Decode, Base58Encode, text

LEMMA StepKeeps == IInv /\ [Next]_vars => IInv'
  <1> SUFFICES ASSUME IInv, [Next]_vars PROVE IInv'
    OBVIOUS
  <1> USE DidAssumption
  <1>1. CASE RefuseSyntax \/ RefuseVarint \/ RefuseLength \/ RefuseHash
    BY <1>1, RaiseKeeps DEF RefuseSyntax, RefuseVarint, RefuseLength, RefuseHash
  <1>2. CASE DecodeText
    <2>1. raw' \in Seq(Byte)
      BY <1>2, DecodedBytes DEF DecodeText, IInv, TypeOK
    <2>2. pos = 0 /\ count = 0 /\ value = 0 /\ scale = 1
      BY <1>2 DEF DecodeText, IInv, Reader
    <2> QED BY <1>2, <2>1, <2>2 DEF DecodeText, IInv, TypeOK, Reader, Reading, FromOneByte, Accepted
  <1>3. CASE ContinueVarint
    <2>1. Reading /\ MoreBytes /\ TypeOK /\ Reader /\ FromOneByte /\ ~TooLong
      BY <1>3 DEF ContinueVarint, IInv
    <2>2. Extended \in Nat /\ scale * Half \in Nat \ { 0 } /\ scale * Half >= Half
      BY <2>1, NextOctet
    <2>3. /\ pos' = pos + 1 /\ count' = count + 1 /\ value' = Extended
          /\ scale' = scale * Half
          /\ UNCHANGED << did, step, error, raw, code, digest >>
      BY <1>3 DEF ContinueVarint
    <2>4. TypeOK'
      BY <2>1, <2>2, <2>3 DEF TypeOK, MoreBytes, TooLong
    <2>5. Reader'
      BY <2>1, <2>2, <2>3 DEF Reader, Reading, TypeOK
    <2>6. FromOneByte' /\ Accepted'
      BY <2>1, <2>3 DEF FromOneByte, Accepted, TypeOK, Reading
    <2> QED BY <2>4, <2>5, <2>6 DEF IInv
  <1>4. CASE EndVarint
    <2>1. Reading /\ MoreBytes /\ TypeOK /\ Reader /\ FromOneByte /\ ~Continues /\ ~NonMinimal
      BY <1>4 DEF EndVarint, IInv
    <2>2. /\ Extended \in Nat
          /\ count = 0 => Extended = Octet
          /\ count > 0 => Extended >= Half
      BY <2>1, NextOctet
    <2>3. /\ pos' = pos + 1 /\ count' = 0 /\ scale' = 1
          /\ UNCHANGED << did, error, raw, digest >>
      BY <1>4 DEF EndVarint
    <2>4. CASE step = "code"
      <3>1. code' = Extended /\ value' = 0 /\ step' = "length"
        BY <1>4, <2>4 DEF EndVarint
      <3>2. TypeOK'
        <4>1. pos' \in 0..Len(raw') /\ count' \in 0..MAX_VARINT_BYTES
              /\ scale' \in Nat \ { 0 }
          BY <2>1, <2>3 DEF TypeOK, MoreBytes
        <4>2. value' \in Nat /\ code' \in Nat
          BY <2>1, <2>2, <3>1 DEF TypeOK
        <4> QED BY <2>1, <2>3, <2>4, <3>1, <4>1, <4>2 DEF TypeOK
      <3>3. Reader' /\ Accepted'
        BY <2>3, <3>1 DEF Reader, Accepted, Reading
      <3>4. FromOneByte'
        BY <2>1, <2>2, <2>3, <2>4, <3>1 DEF FromOneByte, TypeOK, Octet
      <3> QED BY <3>2, <3>3, <3>4 DEF IInv
    <2>5. CASE step = "length"
      <3>1. code' = code /\ value' = Extended /\ step' = "digest"
        BY <1>4, <2>5 DEF EndVarint
      <3>2. TypeOK'
        <4>1. pos' \in 0..Len(raw') /\ count' \in 0..MAX_VARINT_BYTES
              /\ scale' \in Nat \ { 0 }
          BY <2>1, <2>3 DEF TypeOK, MoreBytes
        <4>2. value' \in Nat /\ code' \in Nat
          BY <2>1, <2>2, <3>1 DEF TypeOK
        <4> QED BY <2>1, <2>3, <2>5, <3>1, <4>1, <4>2 DEF TypeOK
      <3>3. Reader' /\ Accepted'
        BY <2>3, <3>1 DEF Reader, Accepted, Reading
      <3>4. FromOneByte'
        BY <2>1, <2>2, <2>3, <2>5, <3>1 DEF FromOneByte, TypeOK, Octet
      <3> QED BY <3>2, <3>3, <3>4 DEF IInv
    <2> QED BY <2>1, <2>4, <2>5 DEF Reading
  <1>5. CASE ReturnDigest
    <2>1. digest' \in Seq(Byte)
      BY <1>5 DEF ReturnDigest, IInv, TypeOK
    <2> QED BY <1>5, <2>1 DEF ReturnDigest, LengthAgrees, IInv, TypeOK, Reader, Reading, FromOneByte, Accepted
  <1>6. CASE UNCHANGED vars
    BY <1>6 DEF vars, IInv, TypeOK, Reader, Reading, FromOneByte, Accepted
  <1> QED BY <1>1, <1>2, <1>3, <1>4, <1>5, <1>6 DEF Next

LEMMA Invariant == Spec => []IInv
  BY InitOK, StepKeeps, PTL DEF Spec

\* The reader of varints never reads more bytes than there are, nor more than it
\* may, and parse_did raises one of its two codes or none.
THEOREM DidTypeOK == Spec => []TypeOK
  <1>1. IInv => TypeOK
    BY DEF IInv
  <1> QED BY <1>1, Invariant, PTL

LEMMA ReturnedMultihash == IInv => AcceptedIsMultihash
  <1> SUFFICES ASSUME IInv, step = "returned"
               PROVE  raw = MultihashFromDigest(digest) /\ Len(digest) = V1_DIGEST_LENGTH
    BY DEF AcceptedIsMultihash
  <1> USE DidAssumption
  <1>1. raw \in Seq(Byte) /\ code = SHA2_256_CODE /\ value = V1_DIGEST_LENGTH
        /\ Len(raw) = V1_DIGEST_LENGTH + pos /\ digest = SubSeq(raw, pos + 1, Len(raw))
    BY DEF IInv, TypeOK, Accepted
  <1>2. pos = 2 /\ raw[1] = SHA2_256_CODE /\ raw[2] = V1_DIGEST_LENGTH
    BY <1>1 DEF IInv, FromOneByte
  <1>3. /\ digest \in Seq(Byte) /\ Len(digest) = V1_DIGEST_LENGTH
        /\ \A k \in 1..Len(digest) : digest[k] = raw[k + 2]
    BY <1>1, <1>2
  <1>4. raw = << SHA2_256_CODE, V1_DIGEST_LENGTH >> \o digest
    BY <1>1, <1>2, <1>3
  <1> QED BY <1>3, <1>4 DEF MultihashFromDigest

\* What parse_did returns is the digest of a multihash whose code and length stand
\* in one byte each: no longer varint of these numbers is accepted, whatever the
\* cap.
THEOREM DidAcceptedIsMultihash == Spec => []AcceptedIsMultihash
  BY ReturnedMultihash, Invariant, PTL

----------------------------------------------------------------------------
(* One DID for each digest.                                                *)

Digests == [ 1..V1_DIGEST_LENGTH -> Byte ]

\* After the text has been decoded, raw is what it stands for.
Decoded ==
  step \notin { "syntax", "raised" } =>
    IsSyntax(did) /\ raw = Base58Decode(did.encoded)

\* Where the reader is in the multihash of d.
ReadsMultihash(d) ==
  /\ step # "raised"
  /\ step # "syntax" => raw = MultihashFromDigest(d)
  /\ step = "code" => count = 0 /\ pos = 0
  /\ step = "length" => count = 0 /\ pos = 1 /\ code = SHA2_256_CODE
  /\ step = "digest" => pos = 2 /\ code = SHA2_256_CODE /\ value = V1_DIGEST_LENGTH

Genuine == \A d \in Digests : did = DidFromDigest(d) => ReadsMultihash(d)

LEMMA DecodedInvariant == Spec => []Decoded
  <1>1. Init => Decoded
    BY DEF Init, Decoded
  <1>2. Decoded /\ [Next]_vars => Decoded'
    BY DEF Decoded, Next, vars, RefuseSyntax, DecodeText, RefuseVarint, ContinueVarint,
           EndVarint, RefuseLength, RefuseHash, ReturnDigest, Raise, Reading
  <1> QED BY <1>1, <1>2, PTL DEF Spec

\* The multihash of a digest is bytes, and its DID is one that parse_did decodes
\* into it.
LEMMA DidOfDigest ==
  ASSUME NEW d \in Digests
  PROVE  /\ d \in Seq(Byte) /\ Len(d) = V1_DIGEST_LENGTH
         /\ MultihashFromDigest(d) \in Seq(Byte)
         /\ Len(MultihashFromDigest(d)) = V1_DIGEST_LENGTH + 2
         /\ MultihashFromDigest(d)[1] = SHA2_256_CODE
         /\ MultihashFromDigest(d)[2] = V1_DIGEST_LENGTH
         /\ IsSyntax(DidFromDigest(d))
         /\ Base58Decode(DidFromDigest(d).encoded) = MultihashFromDigest(d)
  <1> DEFINE bytes == MultihashFromDigest(d)
             text  == Base58Encode(bytes)
  <1>1. d \in Seq(Byte) /\ Len(d) = V1_DIGEST_LENGTH
    BY DidAssumption DEF Digests
  <1>2. SHA2_256_CODE \in Byte /\ V1_DIGEST_LENGTH \in Byte
    BY DidAssumption, Base58Assumption DEF Byte
  <1>3. /\ bytes \in Seq(Byte) /\ Len(bytes) = V1_DIGEST_LENGTH + 2
        /\ bytes[1] = SHA2_256_CODE /\ bytes[2] = V1_DIGEST_LENGTH
    <2> DEFINE front == << SHA2_256_CODE, V1_DIGEST_LENGTH >>
    <2>1. front \in Seq(Byte) /\ Len(front) = 2
          /\ front[1] = SHA2_256_CODE /\ front[2] = V1_DIGEST_LENGTH
      BY <1>2
    <2> HIDE DEF front
    <2>2. bytes = front \o d
      BY DEF MultihashFromDigest, front
    <2>5. front \o d \in Seq(Byte) /\ Len(front \o d) = Len(front) + Len(d)
          /\ \A k \in 1..Len(front) + Len(d) :
               (front \o d)[k] = IF k <= Len(front) THEN front[k] ELSE d[k - Len(front)]
      BY <1>1, <2>1, ConcatProperties
    <2>3. bytes \in Seq(Byte) /\ Len(bytes) = Len(front) + Len(d)
          /\ bytes[1] = front[1] /\ bytes[2] = front[2]
      <3> HIDE DEF bytes
      <3> QED BY <1>1, <2>1, <2>2, <2>5
    <2>4. V1_DIGEST_LENGTH \in Nat /\ 1 \in 1..2 /\ 2 \in 1..2
      BY DidAssumption
    <2> HIDE DEF bytes
    <2> QED BY <1>1, <2>1, <2>3, <2>4
  <1> HIDE DEF bytes
  <1>4. Byte = Digit(ByteSize) /\ Base \in Nat /\ Base > 1 /\ ByteSize \in Nat /\ ByteSize > 1
    BY Base58Assumption DEF Byte, Digit
  <1>5. text \in Seq(Digit(Base)) /\ Base58Decode(text) = bytes
    BY <1>3, <1>4, RecodeBack DEF Base58Encode, Base58Decode
  <1> HIDE DEF text
  <1>6. text # << >>
    <2> SUFFICES ASSUME text = << >> PROVE FALSE
      OBVIOUS
    <2>1. text \in Seq(Nat) /\ StartsWithZeros(text, 0)
      BY DEF StartsWithZeros
    <2>2. LeadingZeros(text) = 0 /\ Number(text, Base) = 0
      BY <1>4, <2>1, LeadingZerosAre, NumberEmpty
    <2>3. DigitsOf(0, ByteSize) = << >>
      BY <1>4, DigitsUnfold
    <2>4. bytes = Zeros(0) \o << >>
      BY <1>5, <2>2, <2>3 DEF Base58Decode, Recode
    <2>5. Len(Zeros(0) \o << >>) = 0
      BY DEF Zeros
    <2> QED BY <1>3, <2>4, <2>5, DidAssumption
  <1>7. \A k \in DOMAIN text : text[k] < Base
    BY <1>4, <1>5 DEF Digit
  <1>8. DidFromDigest(d) = [ prefix |-> TRUE, multibase |-> TRUE, encoded |-> text ]
    BY DEF DidFromDigest, text, bytes
  <1>9. IsSyntax(DidFromDigest(d)) /\ DidFromDigest(d).encoded = text
    BY <1>6, <1>7, <1>8 DEF IsSyntax, IsBase58
  <1> QED BY <1>1, <1>3, <1>5, <1>9 DEF bytes

LEMMA GenuineInvariant == Spec => []Genuine
  <1> USE DidAssumption
  <1>1. Init => Genuine
    BY DEF Init, Genuine, ReadsMultihash
  <1>2. IInv /\ Decoded /\ Genuine /\ [Next]_vars => Genuine'
    <2> SUFFICES ASSUME IInv, Decoded, Genuine, [Next]_vars,
                        NEW d \in Digests, did' = DidFromDigest(d)
                 PROVE  ReadsMultihash(d)'
      BY DEF Genuine
    <2>1. did = DidFromDigest(d)
      BY DEF Next, vars, RefuseSyntax, DecodeText, RefuseVarint, ContinueVarint,
             EndVarint, RefuseLength, RefuseHash, ReturnDigest, Raise
    <2>2. ReadsMultihash(d)
      BY <2>1 DEF Genuine
    <2> DEFINE bytes == MultihashFromDigest(d)
    <2>3. /\ bytes \in Seq(Byte) /\ Len(bytes) = V1_DIGEST_LENGTH + 2
          /\ bytes[1] = SHA2_256_CODE /\ bytes[2] = V1_DIGEST_LENGTH
          /\ IsSyntax(did) /\ Base58Decode(did.encoded) = bytes
      BY <2>1, DidOfDigest
    <2>4. TypeOK /\ Reader
      BY DEF IInv
    <2>5. ASSUME Reading
          PROVE  /\ MoreBytes /\ ~TooLong /\ ~Continues /\ ~NonMinimal
                 /\ Octet = IF step = "code" THEN SHA2_256_CODE ELSE V1_DIGEST_LENGTH
                 /\ Extended = Octet /\ count = 0
      <3>1. count = 0 /\ raw = bytes /\ pos = IF step = "code" THEN 0 ELSE 1
        BY <2>2, <2>5 DEF ReadsMultihash, Reading
      <3>2. Octet = IF step = "code" THEN SHA2_256_CODE ELSE V1_DIGEST_LENGTH
        BY <2>3, <3>1 DEF Octet
      <3>3. MoreBytes /\ ~TooLong /\ ~NonMinimal
        BY <2>3, <3>1 DEF MoreBytes, TooLong, NonMinimal
      <3>4. ~Continues
        BY <3>2 DEF Continues
      <3>5. Extended = Octet
        BY <2>4, <2>5, <3>1, <3>3, <3>4, NextOctet
      <3> QED BY <3>1, <3>2, <3>3, <3>4, <3>5
    <2>6. CASE RefuseSyntax
      BY <2>3, <2>6 DEF RefuseSyntax
    <2>7. CASE DecodeText
      <3>1. pos = 0 /\ count = 0
        BY <2>4, <2>7 DEF DecodeText, Reader
      <3>2. raw' = bytes /\ step' = "code" /\ pos' = 0 /\ count' = 0
        BY <2>3, <2>7, <3>1 DEF DecodeText
      <3> QED BY <3>2 DEF ReadsMultihash
    <2>8. CASE RefuseVarint
      BY <2>5, <2>8 DEF RefuseVarint
    <2>9. CASE ContinueVarint
      BY <2>5, <2>9 DEF ContinueVarint
    <2>10. CASE EndVarint
      <3>1. Reading
        BY <2>10 DEF EndVarint
      <3>2. CASE step = "code"
        <4>1. Octet = SHA2_256_CODE /\ Extended = Octet /\ pos = 0 /\ raw = bytes
          BY <2>2, <2>5, <3>1, <3>2 DEF ReadsMultihash
        <4>2. /\ step' = "length" /\ count' = 0 /\ code' = SHA2_256_CODE
              /\ pos' = 1 /\ raw' = bytes
          BY <2>10, <3>2, <4>1 DEF EndVarint
        <4> QED BY <4>2 DEF ReadsMultihash
      <3>3. CASE step = "length"
        <4>1. /\ Octet = V1_DIGEST_LENGTH /\ Extended = Octet /\ pos = 1
              /\ raw = bytes /\ code = SHA2_256_CODE
          BY <2>2, <2>5, <3>1, <3>3 DEF ReadsMultihash
        <4>2. /\ step' = "digest" /\ code' = SHA2_256_CODE /\ pos' = 2
              /\ value' = V1_DIGEST_LENGTH /\ raw' = bytes
          BY <2>10, <3>3, <4>1 DEF EndVarint
        <4> QED BY <4>2 DEF ReadsMultihash
      <3> QED BY <3>1, <3>2, <3>3 DEF Reading
    <2>11. CASE RefuseLength \/ RefuseHash
      <3>1. step = "digest"
        BY <2>11 DEF RefuseLength, RefuseHash
      <3>2. /\ raw = bytes /\ pos = 2 /\ code = SHA2_256_CODE
            /\ value = V1_DIGEST_LENGTH
        BY <2>2, <3>1 DEF ReadsMultihash
      <3>3. LengthAgrees
        BY <2>3, <3>2 DEF LengthAgrees
      <3> QED BY <2>11, <3>2, <3>3 DEF RefuseLength, RefuseHash
    <2>12. CASE ReturnDigest
      <3>1. raw = bytes
        BY <2>2, <2>12 DEF ReturnDigest, ReadsMultihash
      <3>2. step' = "returned" /\ raw' = bytes
        BY <2>12, <3>1 DEF ReturnDigest
      <3> QED BY <3>2 DEF ReadsMultihash
    <2>13. CASE UNCHANGED vars
      BY <2>2, <2>13 DEF vars, ReadsMultihash
    <2> QED BY <2>6, <2>7, <2>8, <2>9, <2>10, <2>11, <2>12, <2>13 DEF Next
  <1> QED BY <1>1, <1>2, Invariant, DecodedInvariant, PTL DEF Spec

\* Every digest has exactly one DID: parse_did returns a digest only from the text
\* that did_from_digest makes of it, and never refuses that text.
THEOREM OneDidPerDigest == Spec => []OneSpelling
  <1>1. IInv /\ Decoded /\ Genuine => OneSpelling
    <2> SUFFICES ASSUME IInv, Decoded, Genuine PROVE OneSpelling
      OBVIOUS
    <2>1. ASSUME step = "returned"
          PROVE  did = DidFromDigest(digest) /\ Len(digest) = V1_DIGEST_LENGTH
      <3>1. raw = MultihashFromDigest(digest) /\ Len(digest) = V1_DIGEST_LENGTH
        BY <2>1, ReturnedMultihash DEF AcceptedIsMultihash
      <3>2. did \in Dids /\ IsSyntax(did) /\ raw = Base58Decode(did.encoded)
        BY <2>1 DEF IInv, TypeOK, Decoded
      <3>3. Base58Encode(raw) = did.encoded
        BY <3>2, DecodedBytes
      <3>4. did = [ prefix |-> did.prefix, multibase |-> did.multibase,
                    encoded |-> did.encoded ]
        BY <3>2, DidAssumption
      <3>5. did.prefix = TRUE /\ did.multibase = TRUE
        BY <3>2, DidAssumption DEF IsSyntax
      <3> QED BY <3>1, <3>3, <3>4, <3>5 DEF DidFromDigest
    <2>2. ASSUME step = "raised", NEW d \in Digests PROVE did # DidFromDigest(d)
      BY <2>2 DEF Genuine, ReadsMultihash
    <2> QED BY <2>1, <2>2 DEF OneSpelling, Digests
  <1> QED BY <1>1, Invariant, DecodedInvariant, GenuineInvariant, PTL

----------------------------------------------------------------------------
(* Varints.                                                                *)

\* The bytes after the a-th up to the b-th are a varint that the reader accepts.
IsVarint(bytes, a, b) ==
  /\ a \in Nat /\ b \in Nat /\ a < b /\ b <= Len(bytes)
  /\ \A j \in a + 1..b : bytes[j] >= Half <=> j < b
  /\ b - a > 1 => bytes[b] # 0
  /\ b - a <= MAX_VARINT_BYTES

\* Their groups of digits, the most significant first.
Groups(bytes, a, b) == [ k \in 1..b - a |-> bytes[b + 1 - k] % Half ]

VarintValue(bytes, a, b) == Number(Groups(bytes, a, b), Half)

LEMMA HalfAssumption ==
  /\ Half \in Nat /\ Half > 1 /\ ByteSize = 2 * Half /\ Byte = 0..2 * Half - 1
  /\ MAX_VARINT_BYTES \in Nat
  BY DidAssumption DEF Byte

\* What the lower half of a byte says of it.
LEMMA HalfOfByte ==
  ASSUME NEW x \in Byte
  PROVE  /\ x \in Nat /\ x % Half \in Digit(Half) /\ x % Half \in Nat
         /\ x < Half => x % Half = x
         /\ x >= Half => (x % Half) + Half = x
  <1>1. x \in Nat /\ x < 2 * Half /\ Half \in Nat /\ Half > 1
    BY HalfAssumption
  <1>2. x % Half \in 0..Half - 1
    BY <1>1
  <1>3. ASSUME x < Half PROVE x % Half = x
    <2>1. 0 \in Nat /\ x \in 0..Half - 1 /\ 0 * Half + x = x
      BY <1>1, <1>3
    <2>2. (0 * Half + x) % Half = x
      BY <1>1, <2>1, DivisionIsUnique
    <2> QED BY <2>1, <2>2
  <1>4. ASSUME x >= Half PROVE (x % Half) + Half = x
    <2>1. 1 \in Nat /\ x - Half \in 0..Half - 1 /\ 1 * Half + (x - Half) = x
      BY <1>1, <1>4
    <2>2. (1 * Half + (x - Half)) % Half = x - Half
      BY <1>1, <2>1, DivisionIsUnique
    <2>3. x % Half = x - Half
      BY <2>1, <2>2
    <2> QED BY <1>1, <2>3
  <1> QED BY <1>1, <1>2, <1>3, <1>4 DEF Digit

LEMMA GroupsAre ==
  ASSUME NEW bytes \in Seq(Byte), NEW a \in Nat, NEW b \in Nat, a <= b, b <= Len(bytes)
  PROVE  /\ Groups(bytes, a, b) \in Seq(Digit(Half)) /\ Groups(bytes, a, b) \in Seq(Nat)
         /\ Len(Groups(bytes, a, b)) = b - a
         /\ \A k \in 1..b - a : Groups(bytes, a, b)[k] = bytes[b + 1 - k] % Half
  <1> DEFINE g == Groups(bytes, a, b)
  <1>1. ASSUME NEW k \in 1..b - a
        PROVE  /\ g[k] = bytes[b + 1 - k] % Half
               /\ g[k] \in Digit(Half) /\ g[k] \in Nat
    <2>1. b + 1 - k \in 1..Len(bytes)
      OBVIOUS
    <2>2. bytes[b + 1 - k] \in Byte
      BY <2>1
    <2>3. g[k] = bytes[b + 1 - k] % Half
      BY DEF Groups
    <2> QED BY <2>2, <2>3, HalfOfByte
  <1>2. g = [ k \in 1..b - a |-> g[k] ] /\ b - a \in Nat
    BY DEF Groups
  <1> HIDE DEF g
  <1>3. g \in [ 1..b - a -> Digit(Half) ] /\ g \in [ 1..b - a -> Nat ]
    BY <1>1, <1>2
  <1>4. g \in Seq(Digit(Half)) /\ g \in Seq(Nat) /\ Len(g) = b - a
    BY <1>2, <1>3
  <1> QED BY <1>1, <1>4 DEF g

\* Where a varint begins, only one ends.
LEMMA VarintEnds ==
  ASSUME NEW bytes, NEW a, NEW b, NEW c, IsVarint(bytes, a, b), IsVarint(bytes, a, c)
  PROVE  b = c
  <1>1. a \in Nat /\ b \in Nat /\ c \in Nat /\ a < b /\ a < c
    BY DEF IsVarint
  <1>2. ~(b < c)
    <2> SUFFICES ASSUME b < c PROVE FALSE
      OBVIOUS
    <2>1. b \in a + 1..b /\ b \in a + 1..c
      BY <1>1
    <2> QED BY <1>1, <2>1 DEF IsVarint
  <1>3. ~(c < b)
    <2> SUFFICES ASSUME c < b PROVE FALSE
      OBVIOUS
    <2>1. c \in a + 1..b /\ c \in a + 1..c
      BY <1>1
    <2> QED BY <1>1, <2>1 DEF IsVarint
  <1> QED BY <1>1, <1>2, <1>3

\* The digits of a varint's number, none of them for 0 replaced by one.
VarintDigits(n) == IF n = 0 THEN << 0 >> ELSE DigitsOf(n, Half)

LEMMA VarintDigitsAre ==
  ASSUME NEW n \in Nat
  PROVE  /\ VarintDigits(n) \in Seq(Digit(Half)) /\ VarintDigits(n) # << >>
         /\ Number(VarintDigits(n), Half) = n
         /\ Len(VarintDigits(n)) > 1 => VarintDigits(n)[1] # 0
  <1>1. Half \in Nat /\ Half > 1
    BY HalfAssumption
  <1>2. CASE n = 0
    <2>1. VarintDigits(n) = << 0 >> /\ 0 \in Digit(Half)
      BY <1>1, <1>2 DEF VarintDigits, Digit
    <2>2. << 0 >> = Append(<< >>, 0) /\ << >> \in Seq(Nat) /\ Number(<< >>, Half) = 0
      BY <1>1, NumberEmpty
    <2>3. Number(<< 0 >>, Half) = 0 * Half + 0
      BY <1>1, <2>2, NumberAppend
    <2>4. << 0 >> \in Seq(Digit(Half)) /\ << 0 >> # << >> /\ Len(<< 0 >>) = 1
      BY <2>1
    <2>5. Number(<< 0 >>, Half) = 0
      BY <1>1, <2>3
    <2>6. VarintDigits(n) \in Seq(Digit(Half)) /\ VarintDigits(n) # << >>
      BY <2>1, <2>4
    <2>7. ~(Len(VarintDigits(n)) > 1)
      BY <2>1, <2>4
    <2>8. Number(VarintDigits(n), Half) = n
      BY <1>2, <2>1, <2>5
    <2> QED BY <2>6, <2>7, <2>8
  <1>3. CASE n # 0
    <2>1. VarintDigits(n) = DigitsOf(n, Half)
      BY <1>3 DEF VarintDigits
    <2>2. DigitsOf(n, Half) \in Seq(Digit(Half)) /\ Number(DigitsOf(n, Half), Half) = n
          /\ NoZeroFirst(DigitsOf(n, Half))
      BY <1>1, DigitsUnfold, NumberOfDigits
    <2>3. Number(<< >>, Half) = 0
      BY <1>1, NumberEmpty
    <2>4. DigitsOf(n, Half) # << >>
      BY <1>3, <2>2, <2>3
    <2> QED BY <2>1, <2>2, <2>4 DEF NoZeroFirst
  <1> QED BY <1>2, <1>3

\* A varint, byte by byte.
LEMMA VarintBytes ==
  ASSUME NEW n \in Nat
  PROVE  LET digits == VarintDigits(n)
             length == Len(digits)
         IN
         /\ length \in Nat \ { 0 }
         /\ Varint(n) \in Seq(Byte) /\ Len(Varint(n)) = length
         /\ \A k \in 1..length :
              /\ digits[length + 1 - k] \in Digit(Half)
              /\ Varint(n)[k] = digits[length + 1 - k] + IF k < length THEN Half ELSE 0
  <1> DEFINE digits == VarintDigits(n)
             length == Len(digits)
             groups == IF n = 0 THEN << 0 >> ELSE Reverse(DigitsOf(n, Half))
  <1>1. digits \in Seq(Digit(Half)) /\ length \in Nat \ { 0 }
    BY VarintDigitsAre
  <1>2. n = 0 => digits = << 0 >> /\ groups = << 0 >>
    BY DEF VarintDigits
  <1>3. n # 0 => digits = DigitsOf(n, Half) /\ groups = Reverse(digits)
    BY DEF VarintDigits
  <1>6. Varint(n) = [ k \in DOMAIN groups |-> groups[k] + IF k < Len(groups) THEN Half ELSE 0 ]
    BY DEF Varint
  <1> HIDE DEF groups, digits
  <1>4. ASSUME NEW k \in 1..length PROVE digits[length + 1 - k] \in Digit(Half)
    <2>1. length + 1 - k \in 1..length
      BY <1>1
    <2> QED BY <1>1, <2>1
  <1>5. /\ DOMAIN groups = 1..length /\ Len(groups) = length
        /\ \A k \in 1..length : groups[k] = digits[length + 1 - k]
    <2>1. CASE n = 0
      <3>1. groups = << 0 >> /\ digits = << 0 >> /\ length = 1
        BY <1>2, <2>1
      <3>2. \A k \in 1..1 : k = 1 /\ 1 + 1 - k = 1
        OBVIOUS
      <3> QED BY <3>1, <3>2
    <2>2. CASE n # 0
      <3>1. groups = [ k \in 1..length |-> digits[(length - k) + 1] ]
        BY <1>3, <2>2 DEF Reverse
      <3>2. \A k \in 1..length : (length - k) + 1 = length + 1 - k
        BY <1>1
      <3>3. Len(groups) = length
        BY <1>1, <3>1
      <3> QED BY <3>1, <3>2, <3>3
    <2> QED BY <2>1, <2>2
  <1>7. \A k \in 1..length : Varint(n)[k] = digits[length + 1 - k] + IF k < length THEN Half ELSE 0
    BY <1>5, <1>6
  <1>8. \A k \in 1..length : Varint(n)[k] \in Byte
    <2> TAKE k \in 1..length
    <2>1. digits[length + 1 - k] \in 0..Half - 1
      BY <1>4 DEF Digit
    <2> HIDE DEF length
    <2> QED BY <1>7, <2>1, HalfAssumption
  <1>9. Varint(n) \in Seq(Byte) /\ Len(Varint(n)) = length
    <2>1. Varint(n) = [ k \in 1..length |-> Varint(n)[k] ]
      BY <1>5, <1>6
    <2> HIDE DEF length
    <2>2. Varint(n) \in [ 1..length -> Byte ]
      BY <1>8, <2>1
    <2> QED BY <1>1, <2>2
  <1> QED BY <1>1, <1>4, <1>7, <1>9 DEF digits

LEMMA VarintLength ==
  ASSUME NEW n \in Nat
  PROVE  Len(Varint(n)) \in Nat \ { 0 }
  BY VarintBytes

\* The varint of a number is a varint, of that number.
LEMMA VarintOf ==
  ASSUME NEW bytes \in Seq(Byte), NEW a \in Nat, NEW b \in Nat, NEW n \in Nat,
         a <= b, b <= Len(bytes), SubSeq(bytes, a + 1, b) = Varint(n),
         Len(Varint(n)) <= MAX_VARINT_BYTES
  PROVE  IsVarint(bytes, a, b) /\ VarintValue(bytes, a, b) = n
  <1> DEFINE digits == VarintDigits(n)
             length == Len(digits)
             g == Groups(bytes, a, b)
  <1>1. digits \in Seq(Digit(Half)) /\ digits # << >> /\ Number(digits, Half) = n
        /\ (length > 1 => digits[1] # 0)
    BY VarintDigitsAre
  <1>2. /\ length \in Nat \ { 0 } /\ Len(Varint(n)) = length
        /\ \A k \in 1..length :
             /\ digits[length + 1 - k] \in Digit(Half)
             /\ Varint(n)[k] = digits[length + 1 - k] + IF k < length THEN Half ELSE 0
    BY VarintBytes
  <1>3. Half \in Nat /\ Half > 1
    BY HalfAssumption
  <1> HIDE DEF digits
  <1>4. /\ Len(SubSeq(bytes, a + 1, b)) = b - a
        /\ \A k \in 1..b - a : SubSeq(bytes, a + 1, b)[k] = bytes[a + k]
    OBVIOUS
  <1>5. b - a = length
    BY <1>2, <1>4
  <1>6. ASSUME NEW k \in 1..length
        PROVE  /\ bytes[a + k] \in Byte /\ digits[length + 1 - k] \in 0..Half - 1
               /\ bytes[a + k] = digits[length + 1 - k] + IF k < length THEN Half ELSE 0
    <2>1. a + k \in 1..Len(bytes)
      BY <1>2, <1>5
    <2>2. bytes[a + k] \in Byte
      BY <2>1
    <2>3. bytes[a + k] = Varint(n)[k]
      BY <1>4, <1>5
    <2>4. digits[length + 1 - k] \in 0..Half - 1
          /\ Varint(n)[k] = digits[length + 1 - k] + IF k < length THEN Half ELSE 0
      BY <1>2 DEF Digit
    <2> QED BY <2>2, <2>3, <2>4
  <1>7. ASSUME NEW k \in 1..length
        PROVE  /\ bytes[a + k] >= Half <=> k < length
               /\ bytes[a + k] % Half = digits[length + 1 - k]
    <2> DEFINE x == bytes[a + k]
               d == digits[length + 1 - k]
    <2>1. x \in Byte /\ d \in 0..Half - 1 /\ x = d + IF k < length THEN Half ELSE 0
      BY <1>6
    <2> HIDE DEF x, d
    <2>2. x \in Nat /\ x % Half \in Nat /\ (x < Half => x % Half = x)
          /\ (x >= Half => (x % Half) + Half = x)
      BY <2>1, HalfOfByte
    <2>3. x >= Half <=> k < length
      BY <1>3, <2>1, <2>2
    <2>4. x % Half = d
      <3> DEFINE m == x % Half
      <3>1. m \in Nat /\ (x < Half => m = x) /\ (x >= Half => m + Half = x)
        BY <2>2
      <3> HIDE DEF m
      <3>2. m = d
        BY <1>3, <2>1, <2>2, <2>3, <3>1
      <3> QED BY <3>2 DEF m
    <2> QED BY <2>3, <2>4 DEF x, d
  <1>8. \A j \in a + 1..b : bytes[j] >= Half <=> j < b
    <2> TAKE j \in a + 1..b
    <2>1. j - a \in 1..length /\ a + (j - a) = j /\ (j - a < length <=> j < b)
      BY <1>2, <1>5
    <2> QED BY <1>7, <2>1
  <1>9. b - a > 1 => bytes[b] # 0
    <2> SUFFICES ASSUME b - a > 1 PROVE bytes[b] # 0
      OBVIOUS
    <2>1. length \in 1..length /\ a + length = b /\ length + 1 - length = 1
      BY <1>2, <1>5
    <2>2. bytes[b] % Half = digits[1] /\ digits[1] # 0 /\ ~(bytes[b] >= Half)
          /\ bytes[b] \in Byte
      BY <1>1, <1>5, <1>6, <1>7, <2>1
    <2>3. bytes[b] \in Nat /\ bytes[b] < Half
      <3> DEFINE x == bytes[b]
      <3>1. x \in Byte /\ ~(x >= Half)
        BY <2>2
      <3> HIDE DEF x
      <3>2. x \in Nat
        BY <3>1, HalfOfByte
      <3>3. x < Half
        BY <1>3, <3>1, <3>2
      <3> QED BY <3>2, <3>3 DEF x
    <2>4. bytes[b] % Half = bytes[b]
      BY <2>2, <2>3, HalfOfByte
    <2> QED BY <2>2, <2>4
  <1>10. IsVarint(bytes, a, b)
    BY <1>2, <1>5, <1>8, <1>9 DEF IsVarint
  <1>11. g \in Seq(Digit(Half)) /\ Len(g) = b - a
         /\ \A k \in 1..b - a : g[k] = bytes[b + 1 - k] % Half
    BY GroupsAre
  <1> HIDE DEF g
  <1>12. g = digits
    <2>1. ASSUME NEW k \in 1..Len(g) PROVE g[k] = digits[k]
      <3>1. length + 1 - k \in 1..length /\ a + (length + 1 - k) = b + 1 - k
            /\ length + 1 - (length + 1 - k) = k /\ k \in 1..b - a
        BY <1>2, <1>5, <1>11
      <3>2. bytes[b + 1 - k] % Half = digits[k]
        BY <1>7, <3>1
      <3> QED BY <1>11, <3>1, <3>2
    <2> QED BY <1>1, <1>5, <1>11, <2>1, SeqEqual
  <1> QED BY <1>1, <1>10, <1>12 DEF VarintValue, g

\* A varint is the varint of its number: it has no second spelling.
LEMMA VarintIs ==
  ASSUME NEW bytes \in Seq(Byte), NEW a, NEW b, IsVarint(bytes, a, b)
  PROVE  /\ VarintValue(bytes, a, b) \in Nat
         /\ SubSeq(bytes, a + 1, b) = Varint(VarintValue(bytes, a, b))
         /\ Len(Varint(VarintValue(bytes, a, b))) = b - a
  <1> DEFINE g == Groups(bytes, a, b)
             n == VarintValue(bytes, a, b)
             s == SubSeq(bytes, a + 1, b)
  <1>1. a \in Nat /\ b \in Nat /\ a < b /\ b <= Len(bytes)
        /\ (\A j \in a + 1..b : bytes[j] >= Half <=> j < b)
        /\ (b - a > 1 => bytes[b] # 0)
    BY DEF IsVarint
  <1>2. g \in Seq(Digit(Half)) /\ g \in Seq(Nat) /\ Len(g) = b - a
        /\ \A k \in 1..b - a : g[k] = bytes[b + 1 - k] % Half
    BY <1>1, GroupsAre
  <1>3. n = Number(g, Half)
    BY DEF VarintValue
  <1>4. Half \in Nat /\ Half > 1
    BY HalfAssumption
  <1> HIDE DEF g, n
  <1>5. n \in Nat
    BY <1>2, <1>3, <1>4, NumberAppend
  <1>6. VarintDigits(n) = g
    <2>1. b \in 1..Len(bytes) /\ b \in a + 1..b /\ 1 \in 1..b - a /\ b + 1 - 1 = b
      BY <1>1
    <2>2. bytes[b] \in Byte /\ ~(bytes[b] >= Half)
      BY <1>1, <2>1
    <2>3. bytes[b] % Half = bytes[b]
      BY <1>4, <2>2, HalfOfByte
    <2>4. g[1] = bytes[b]
      BY <1>2, <2>1, <2>3
    <2>5. CASE bytes[b] = 0
      <3>1. b - a = 1
        BY <1>1, <2>5
      <3>2. g = << 0 >>
        <4>1. << 0 >> \in Seq(Nat) /\ Len(<< 0 >>) = 1 /\ << 0 >>[1] = 0
          OBVIOUS
        <4>2. \A k \in 1..Len(g) : g[k] = << 0 >>[k]
          BY <1>2, <2>4, <2>5, <3>1
        <4> QED BY <1>2, <3>1, <4>1, <4>2, SeqEqual
      <3>3. g = Append(<< >>, 0) /\ << >> \in Seq(Nat) /\ Number(<< >>, Half) = 0
        BY <1>4, <3>2, NumberEmpty
      <3>4. n = 0 * Half + 0
        BY <1>3, <1>4, <3>3, NumberAppend
      <3>5. n = 0
        BY <1>4, <3>4
      <3> QED BY <3>2, <3>5 DEF VarintDigits
    <2>6. CASE bytes[b] # 0
      <3>1. g # << >> /\ NoZeroFirst(g)
        BY <1>1, <1>2, <2>4, <2>6 DEF NoZeroFirst
      <3>2. DigitsOf(n, Half) = g
        BY <1>2, <1>3, <1>4, <3>1, DigitsOfNumber
      <3>3. n # 0
        BY <1>4, <3>1, <3>2, DigitsUnfold
      <3> QED BY <3>2, <3>3 DEF VarintDigits
    <2> QED BY <2>5, <2>6
  <1>7. /\ Varint(n) \in Seq(Byte) /\ Len(Varint(n)) = b - a
        /\ \A k \in 1..b - a :
             Varint(n)[k] = g[b - a + 1 - k] + IF k < b - a THEN Half ELSE 0
    BY <1>2, <1>5, <1>6, VarintBytes
  <1>8. s \in Seq(Byte) /\ Len(s) = b - a /\ \A k \in 1..b - a : s[k] = bytes[a + k]
    BY <1>1
  <1> HIDE DEF s
  <1>9. ASSUME NEW k \in 1..b - a PROVE s[k] = Varint(n)[k]
    <2> DEFINE x == bytes[a + k]
               m == x % Half
    <2>1. a + k \in 1..Len(bytes) /\ a + k \in a + 1..b /\ (a + k < b <=> k < b - a)
      BY <1>1
    <2>2. x \in Byte /\ (x >= Half <=> k < b - a)
      BY <1>1, <2>1
    <2>3. b - a + 1 - k \in 1..b - a /\ b + 1 - (b - a + 1 - k) = a + k
      BY <1>1
    <2>4. g[b - a + 1 - k] = m
      BY <1>2, <2>3
    <2>5. x \in Nat /\ m \in Nat /\ (x < Half => m = x) /\ (x >= Half => m + Half = x)
      BY <2>2, HalfOfByte
    <2>6. Varint(n)[k] = m + IF k < b - a THEN Half ELSE 0
      BY <1>7, <2>4
    <2> HIDE DEF m, x
    <2>7. Varint(n)[k] = x
      BY <1>4, <2>2, <2>5, <2>6
    <2> QED BY <1>8, <2>7 DEF x
  <1>10. s = Varint(n)
    BY <1>7, <1>8, <1>9, SeqEqual
  <1> QED BY <1>5, <1>7, <1>10 DEF n, s

\* A multihash is two varints, the second the number of the bytes after it.
LEMMA MultihashIs ==
  ASSUME NEW bytes \in Seq(Byte)
  PROVE  IsMultihash(bytes) <=>
           \E a \in Nat, b \in Nat :
             /\ IsVarint(bytes, 0, a) /\ IsVarint(bytes, a, b)
             /\ VarintValue(bytes, a, b) = Len(bytes) - b
  <1>1. ASSUME IsMultihash(bytes)
        PROVE  \E a \in Nat, b \in Nat :
                 /\ IsVarint(bytes, 0, a) /\ IsVarint(bytes, a, b)
                 /\ VarintValue(bytes, a, b) = Len(bytes) - b
    <2>1. PICK b \in 1..Len(bytes) :
            LET length == Varint(Len(bytes) - b)
                prefix == SubSeq(bytes, 1, b - Len(length))
            IN
            /\ Len(length) < b
            /\ SubSeq(bytes, b - Len(length) + 1, b) = length
            /\ \A j \in DOMAIN prefix : prefix[j] >= Half <=> j < Len(prefix)
            /\ Len(prefix) > 1 => Last(prefix) # 0
            /\ Len(prefix) <= MAX_VARINT_BYTES /\ Len(length) <= MAX_VARINT_BYTES
      BY <1>1 DEF IsMultihash
    <2> DEFINE n == Len(bytes) - b
               length == Varint(n)
               a == b - Len(length)
               prefix == SubSeq(bytes, 1, a)
    <2>2. n \in Nat /\ b \in Nat /\ b <= Len(bytes)
      OBVIOUS
    <2>3. Len(length) \in Nat /\ Len(length) > 0
      <3> HIDE DEF n
      <3>1. Len(Varint(n)) \in Nat \ { 0 }
        BY <2>2, VarintLength
      <3> QED BY <3>1
    <2>4. /\ Len(length) < b /\ SubSeq(bytes, a + 1, b) = length
          /\ \A j \in DOMAIN prefix : prefix[j] >= Half <=> j < Len(prefix)
          /\ Len(prefix) > 1 => Last(prefix) # 0
          /\ Len(prefix) <= MAX_VARINT_BYTES /\ Len(length) <= MAX_VARINT_BYTES
      BY <2>1
    <2> HIDE DEF n, length
    <2>5. a \in Nat /\ 0 < a /\ a < b /\ a <= Len(bytes)
      BY <2>2, <2>3, <2>4
    <2> HIDE DEF a
    <2>6. IsVarint(bytes, a, b) /\ VarintValue(bytes, a, b) = n
      BY <2>2, <2>4, <2>5, VarintOf DEF length
    <2>7. Len(prefix) = a /\ DOMAIN prefix = 1..a /\ \A j \in 1..a : prefix[j] = bytes[j]
      BY <2>5
    <2> HIDE DEF prefix
    <2>8. IsVarint(bytes, 0, a)
      <3>1. \A j \in 0 + 1..a : bytes[j] >= Half <=> j < a
        BY <2>4, <2>7
      <3>2. a - 0 > 1 => bytes[a] # 0
        BY <2>4, <2>5, <2>7 DEF Last
      <3>3. a - 0 <= MAX_VARINT_BYTES
        BY <2>4, <2>5, <2>7
      <3> QED BY <2>5, <3>1, <3>2, <3>3 DEF IsVarint
    <2> QED BY <2>2, <2>5, <2>6, <2>8 DEF n
  <1>2. ASSUME NEW a \in Nat, NEW b \in Nat,
               IsVarint(bytes, 0, a), IsVarint(bytes, a, b),
               VarintValue(bytes, a, b) = Len(bytes) - b
        PROVE  IsMultihash(bytes)
    <2> DEFINE length == Varint(Len(bytes) - b)
               c == b - Len(length)
               prefix == SubSeq(bytes, 1, a)
    <2>1. SubSeq(bytes, a + 1, b) = length /\ Len(length) = b - a
      <3>1. /\ SubSeq(bytes, a + 1, b) = Varint(VarintValue(bytes, a, b))
            /\ Len(Varint(VarintValue(bytes, a, b))) = b - a
        BY <1>2, VarintIs
      <3> QED BY <1>2, <3>1
    <2> HIDE DEF length
    <2>2. /\ 0 < a /\ a < b /\ b <= Len(bytes)
          /\ \A j \in 1..a : bytes[j] >= Half <=> j < a
          /\ a > 1 => bytes[a] # 0
          /\ a <= MAX_VARINT_BYTES /\ b - a <= MAX_VARINT_BYTES
      BY <1>2 DEF IsVarint
    <2>3. c = a /\ b \in 1..Len(bytes) /\ Len(length) < b
      BY <2>1, <2>2
    <2>4. Len(prefix) = a /\ DOMAIN prefix = 1..a /\ \A j \in 1..a : prefix[j] = bytes[j]
      BY <2>2
    <2> HIDE DEF prefix, c
    <2>5. /\ \A j \in DOMAIN prefix : prefix[j] >= Half <=> j < Len(prefix)
          /\ Len(prefix) > 1 => Last(prefix) # 0
          /\ Len(prefix) <= MAX_VARINT_BYTES /\ Len(length) <= MAX_VARINT_BYTES
      BY <2>1, <2>2, <2>4 DEF Last
    <2>6. prefix = SubSeq(bytes, 1, c) /\ SubSeq(bytes, c + 1, b) = length
      BY <2>1, <2>3 DEF prefix
    <2> QED BY <2>3, <2>5, <2>6 DEF IsMultihash, length, c
  <1> QED BY <1>1, <1>2

----------------------------------------------------------------------------
(* What the reader of varints has read.                                    *)

\* The weight of the n-th digit from the right.
Weight(n, r) == Number(Append(<< >>, 1) \o Zeros(n), r)

LEMMA Weights ==
  ASSUME NEW n \in Nat, NEW r \in Nat
  PROVE  /\ Weight(n, r) \in Nat /\ Weight(0, r) = 1
         /\ Weight(n + 1, r) = Weight(n, r) * r
  <1> DEFINE one == Append(<< >>, 1)
             zeros == Zeros(n)
             s == one \o zeros
  <1>1. one \in Seq(Nat) /\ Number(one, r) = 1
    <2>1. << >> \in Seq(Nat) /\ Number(<< >>, r) = 0
      BY NumberEmpty
    <2>2. Number(one, r) = 0 * r + 1
      BY <2>1, NumberAppend
    <2> QED BY <2>2
  <1>2. zeros \in Seq(Nat) /\ Zeros(n + 1) = Append(zeros, 0)
    BY DEF Zeros
  <1> HIDE DEF one, zeros
  <1>3. s \in Seq(Nat) /\ one \o Zeros(n + 1) = Append(s, 0)
    <2>1. s \in Seq(Nat)
      BY <1>1, <1>2
    <2>2. one \o Append(zeros, 0) = Append(one \o zeros, 0)
      BY <1>1, <1>2
    <2> QED BY <1>2, <2>1, <2>2
  <1> HIDE DEF s
  <1>4. Number(s, r) \in Nat /\ Number(Append(s, 0), r) = Number(s, r) * r + 0
    BY <1>3, NumberAppend
  <1>5. Number(s, r) * r + 0 = Number(s, r) * r
    BY <1>4, Product
  <1>6. Weight(0, r) = 1
    <2>1. Zeros(0) = << >>
      BY DEF Zeros
    <2>2. one \o << >> = one
      BY <1>1, ConcatEmptySeq
    <2> QED BY <1>1, <2>1, <2>2 DEF Weight, one
  <1>7. Weight(n, r) = Number(s, r) /\ Weight(n + 1, r) = Number(Append(s, 0), r)
    BY <1>3 DEF Weight, one, s, zeros
  <1> QED BY <1>4, <1>5, <1>6, <1>7

LEMMA Distribute ==
  ASSUME NEW d \in Nat, NEW w \in Nat, NEW m \in Nat, NEW r \in Nat, NEW e \in Nat
  PROVE  (d * w + m) * r + e = d * (w * r) + (m * r + e)
  <1>1. (d * w + m) * r = (d * w) * r + m * r
    OBVIOUS
  <1>2. (d * w) * r = d * (w * r)
    OBVIOUS
  <1>3. d * w \in Nat /\ (d * w) * r \in Nat /\ m * r \in Nat /\ d * (w * r) \in Nat
    BY Product
  <1> QED BY <1>1, <1>2, <1>3

\* A digit in front counts with the weight of its place.
LEMMA NumberOfFirst ==
  ASSUME NEW r \in Nat, NEW d \in Nat, NEW s \in Seq(Nat)
  PROVE  Number(Append(<< >>, d) \o s, r) = d * Weight(Len(s), r) + Number(s, r)
  <1> DEFINE one == Append(<< >>, d)
             S == { n \in Nat : \A t \in Seq(Nat) : Len(t) = n =>
                      Number(one \o t, r) = d * Weight(n, r) + Number(t, r) }
  <1>1. one \in Seq(Nat) /\ Number(one, r) = d
    <2>1. << >> \in Seq(Nat) /\ Number(<< >>, r) = 0
      BY NumberEmpty
    <2>2. Number(one, r) = 0 * r + d
      BY <2>1, NumberAppend
    <2> QED BY <2>2
  <1> HIDE DEF one
  <1>2. 0 \in S
    <2> SUFFICES ASSUME NEW t \in Seq(Nat), Len(t) = 0
                 PROVE  Number(one \o t, r) = d * Weight(0, r) + Number(t, r)
      OBVIOUS
    <2>1. t = << >>
      OBVIOUS
    <2>2. one \o t = one
      BY <1>1, <2>1, ConcatEmptySeq
    <2>3. Number(t, r) = 0 /\ Weight(0, r) = 1
      BY <2>1, NumberEmpty, Weights
    <2> QED BY <1>1, <2>2, <2>3
  <1>3. ASSUME NEW n \in S PROVE n + 1 \in S
    <2> SUFFICES ASSUME NEW t \in Seq(Nat), Len(t) = n + 1
                 PROVE  Number(one \o t, r) = d * Weight(n + 1, r) + Number(t, r)
      OBVIOUS
    <2>1. n \in Nat
      OBVIOUS
    <2>2. PICK v \in Seq(Nat), e \in Nat : t = Append(v, e) /\ Len(v) = n
      BY <2>1, LastOff
    <2>3. Len(v) = n
      BY <2>2
    <2>4. Number(one \o v, r) = d * Weight(n, r) + Number(v, r)
      BY <2>3
    <2> HIDE DEF S
    <2> DEFINE c == one \o v
               w == Weight(n, r)
               m == Number(v, r)
    <2>5. c \in Seq(Nat) /\ one \o t = Append(c, e)
      BY <1>1, <2>2, ConcatAppend
    <2>6. w \in Nat /\ Weight(n + 1, r) = w * r
      BY <2>1, Weights
    <2>7. m \in Nat /\ Number(t, r) = m * r + e
      BY <2>2, NumberAppend
    <2>10. Number(c, r) = d * w + m
      BY <2>4
    <2> HIDE DEF c, w, m
    <2>8. Number(Append(c, e), r) = (d * w + m) * r + e
      BY <2>5, <2>10, NumberAppend
    <2>9. (d * w + m) * r + e = d * (w * r) + (m * r + e)
      BY <2>6, <2>7, Distribute
    <2> QED BY <2>5, <2>6, <2>7, <2>8, <2>9
  <1>4. S = Nat
    <2> HIDE DEF S
    <2>1. S \in SUBSET Nat
      BY DEF S
    <2> QED BY <1>2, <1>3, <2>1, EveryNatural
  <1>5. Len(s) \in Nat
    OBVIOUS
  <1> QED BY <1>4, <1>5 DEF one

\* The group of a byte more counts with the weight of its place.
LEMMA OneByteMore ==
  ASSUME NEW bytes \in Seq(Byte), NEW a \in Nat, NEW b \in Nat, a <= b, b < Len(bytes)
  PROVE  VarintValue(bytes, a, b + 1)
           = VarintValue(bytes, a, b) + (bytes[b + 1] % Half) * Weight(b - a, Half)
  <1> DEFINE g == Groups(bytes, a, b)
             h == Groups(bytes, a, b + 1)
             d == bytes[b + 1] % Half
             one == Append(<< >>, d)
  <1>10. b <= Len(bytes) /\ b + 1 \in Nat /\ a <= b + 1 /\ b + 1 <= Len(bytes)
    OBVIOUS
  <1>1. g \in Seq(Nat) /\ Len(g) = b - a /\ \A k \in 1..b - a : g[k] = bytes[b + 1 - k] % Half
    BY <1>10, GroupsAre
  <1>2. /\ h \in Seq(Nat) /\ Len(h) = b + 1 - a
        /\ \A k \in 1..b + 1 - a : h[k] = bytes[b + 1 + 1 - k] % Half
    <2> DEFINE c == b + 1
    <2>1. c \in Nat /\ a <= c /\ c <= Len(bytes)
      BY <1>10
    <2> HIDE DEF c
    <2>2. /\ Groups(bytes, a, c) \in Seq(Nat) /\ Len(Groups(bytes, a, c)) = c - a
          /\ \A k \in 1..c - a : Groups(bytes, a, c)[k] = bytes[c + 1 - k] % Half
      BY <2>1, GroupsAre
    <2> QED BY <2>2 DEF c
  <1>3. d \in Nat
    <2>1. b + 1 \in 1..Len(bytes)
      OBVIOUS
    <2>2. bytes[b + 1] \in Byte
      BY <2>1
    <2> QED BY <2>2, HalfOfByte
  <1> HIDE DEF g, h
  <1>4. one \in Seq(Nat) /\ Len(one) = 1 /\ one[1] = d
    BY <1>3
  <1>7. d = bytes[b + 1] % Half
    OBVIOUS
  <1> HIDE DEF one, d
  <1>5. h = one \o g
    <2>1. /\ one \o g \in Seq(Nat) /\ Len(one \o g) = Len(one) + Len(g)
          /\ \A k \in 1..Len(one) + Len(g) :
               (one \o g)[k] = IF k <= Len(one) THEN one[k] ELSE g[k - Len(one)]
      BY <1>1, <1>4, ConcatProperties
    <2>2. Len(one \o g) = Len(h)
      BY <1>1, <1>2, <1>4, <2>1
    <2>3. ASSUME NEW k \in 1..Len(h) PROVE h[k] = (one \o g)[k]
      <3>1. CASE k = 1
        <4>1. b + 1 + 1 - k = b + 1 /\ k \in 1..b + 1 - a
          BY <1>2, <3>1
        <4> QED BY <1>2, <1>4, <1>7, <2>1, <2>2, <3>1, <4>1
      <3>2. CASE k # 1
        <4>1. k - 1 \in 1..b - a /\ b + 1 - (k - 1) = b + 1 + 1 - k /\ ~(k <= 1)
              /\ k \in 1..b + 1 - a
          BY <1>2, <3>2
        <4>2. (one \o g)[k] = g[k - 1]
          BY <1>4, <2>1, <2>2, <4>1
        <4> QED BY <1>1, <1>2, <4>1, <4>2
      <3> QED BY <3>1, <3>2
    <2> QED BY <1>2, <2>1, <2>2, <2>3, SeqEqual
  <1>6. Number(h, Half) = d * Weight(Len(g), Half) + Number(g, Half)
    BY <1>1, <1>3, <1>5, HalfAssumption, NumberOfFirst DEF one
  <1>8. Number(g, Half) \in Nat /\ d * Weight(b - a, Half) \in Nat
    <2>1. b - a \in Nat /\ Half \in Nat
      BY HalfAssumption
    <2> QED BY <1>1, <1>3, <2>1, NumberAppend, Weights, Product
  <1>9. Number(h, Half) = Number(g, Half) + d * Weight(b - a, Half)
    BY <1>1, <1>6, <1>8
  <1> QED BY <1>7, <1>9 DEF VarintValue, g, h

----------------------------------------------------------------------------
(* Unsupported hashes.                                                     *)

\* The bytes counted so far all continue; value and scale are what they make.
\* Behind them stand complete varints only.
ReadsVarints ==
  /\ Reading => /\ count <= pos
                /\ \A j \in pos - count + 1..pos : raw[j] >= Half
                /\ value = VarintValue(raw, pos - count, pos)
                /\ scale = Weight(count, Half)
  /\ step = "code" => pos - count = 0
  /\ step = "length" => IsVarint(raw, 0, pos - count)
  /\ step = "digest" => \E a \in Nat : /\ IsVarint(raw, 0, a) /\ IsVarint(raw, a, pos)
                                       /\ value = VarintValue(raw, a, pos)

VarintInv == ReadsVarints /\ UnsupportedOnlyIfSound

LEMMA NothingRead ==
  ASSUME NEW bytes \in Seq(Byte), NEW a \in 0..Len(bytes)
  PROVE  VarintValue(bytes, a, a) = 0 /\ Weight(0, Half) = 1
  <1>1. Groups(bytes, a, a) = << >>
    <2>1. a \in Nat /\ a <= Len(bytes) /\ a <= a /\ a - a = 0
      OBVIOUS
    <2>2. Groups(bytes, a, a) \in Seq(Nat) /\ Len(Groups(bytes, a, a)) = 0
      BY <2>1, GroupsAre
    <2> QED BY <2>2, EmptySeq
  <1> QED BY <1>1, NumberEmpty, Weights, HalfAssumption DEF VarintValue

\* What the reader makes of its next byte is the number of one byte more.
LEMMA ExtendedIs ==
  ASSUME TypeOK, ReadsVarints, Reading, MoreBytes
  PROVE  Extended = VarintValue(raw, pos - count, pos + 1)
  <1> DEFINE a == pos - count
  <1>1. raw \in Seq(Byte) /\ pos \in Nat /\ pos < Len(raw) /\ count \in Nat /\ count <= pos
    BY HalfAssumption DEF TypeOK, MoreBytes, ReadsVarints
  <1>2. a \in Nat /\ a <= pos /\ pos - a = count
    BY <1>1
  <1>3. value = VarintValue(raw, a, pos) /\ scale = Weight(count, Half)
    BY DEF ReadsVarints
  <1> HIDE DEF a
  <1>4. VarintValue(raw, a, pos + 1)
          = VarintValue(raw, a, pos) + (raw[pos + 1] % Half) * Weight(pos - a, Half)
    BY <1>1, <1>2, OneByteMore
  <1>5. Extended = value + (raw[pos + 1] % Half) * scale
    BY DEF Extended, Octet
  <1> QED BY <1>2, <1>3, <1>4, <1>5 DEF a

\* A varint that is refused is none.
LEMMA RefusedIsNone ==
  ASSUME TypeOK, ReadsVarints, RefuseVarint, NEW b
  PROVE  ~IsVarint(raw, pos - count, b)
  <1> DEFINE a == pos - count
  <1>1. /\ raw \in Seq(Byte) /\ pos \in Nat /\ pos <= Len(raw) /\ count \in Nat /\ count <= pos
        /\ \A j \in a + 1..pos : raw[j] >= Half
    BY HalfAssumption DEF TypeOK, ReadsVarints, RefuseVarint
  <1> SUFFICES ASSUME IsVarint(raw, a, b) PROVE FALSE
    OBVIOUS
  <1>2. a \in Nat /\ pos = a + count
    BY <1>1
  <1> HIDE DEF a
  <1>3. /\ b \in Nat /\ a < b /\ b <= Len(raw) /\ b - a <= MAX_VARINT_BYTES
        /\ \A j \in a + 1..b : raw[j] >= Half <=> j < b
        /\ b - a > 1 => raw[b] # 0
    BY DEF IsVarint
  <1>4. pos < b
    <2> SUFFICES ASSUME b <= pos PROVE FALSE
      BY <1>1, <1>3
    <2>1. b \in a + 1..pos /\ b \in a + 1..b
      BY <1>1, <1>2, <1>3
    <2> QED BY <1>1, <1>3, <2>1
  <1>5. MoreBytes
    BY <1>1, <1>3, <1>4 DEF MoreBytes
  <1>6. ~TooLong
    BY <1>1, <1>2, <1>3, <1>4, HalfAssumption DEF TooLong
  <1>7. ~Continues /\ NonMinimal
    BY <1>5, <1>6 DEF RefuseVarint
  <1>8. pos + 1 \in a + 1..b /\ ~(raw[pos + 1] >= Half) /\ count > 0 /\ raw[pos + 1] = 0
    BY <1>1, <1>2, <1>3, <1>4, <1>7 DEF Continues, NonMinimal, Octet
  <1>9. b = pos + 1
    BY <1>1, <1>3, <1>4, <1>8
  <1> QED BY <1>1, <1>2, <1>3, <1>8, <1>9

\* One that ends is one.
LEMMA EndedIsVarint ==
  ASSUME TypeOK, ReadsVarints, EndVarint
  PROVE  IsVarint(raw, pos - count, pos + 1)
  <1> DEFINE a == pos - count
  <1>1. /\ Reading /\ ~TooLong /\ ~Continues /\ ~NonMinimal
        /\ raw \in Seq(Byte) /\ pos \in Nat /\ pos < Len(raw) /\ count \in Nat /\ count <= pos
        /\ \A j \in a + 1..pos : raw[j] >= Half
    BY HalfAssumption DEF TypeOK, ReadsVarints, EndVarint, MoreBytes
  <1>2. a \in Nat /\ pos = a + count
    BY <1>1
  <1> HIDE DEF a
  <1>3. \A j \in a + 1..pos + 1 : raw[j] >= Half <=> j < pos + 1
    <2> TAKE j \in a + 1..pos + 1
    <2>1. CASE j = pos + 1
      BY <1>1, <2>1 DEF Continues, Octet
    <2>2. CASE j # pos + 1
      <3>1. j \in a + 1..pos /\ j < pos + 1
        BY <1>1, <1>2, <2>2
      <3> QED BY <1>1, <3>1
    <2> QED BY <2>1, <2>2
  <1>4. (pos + 1) - a > 1 => raw[pos + 1] # 0
    BY <1>1, <1>2 DEF NonMinimal, Octet
  <1>5. (pos + 1) - a <= MAX_VARINT_BYTES
    BY <1>1, <1>2, HalfAssumption DEF TooLong
  <1>6. pos + 1 \in Nat /\ a < pos + 1 /\ pos + 1 <= Len(raw)
    BY <1>1, <1>2
  <1>7. IsVarint(raw, a, pos + 1)
    BY <1>2, <1>3, <1>4, <1>5, <1>6 DEF IsVarint
  <1> QED BY <1>7 DEF a

LEMMA VarintStep == IInv /\ Decoded /\ VarintInv /\ [Next]_vars => VarintInv'
  <1> SUFFICES ASSUME IInv, Decoded, VarintInv, [Next]_vars PROVE VarintInv'
    OBVIOUS
  <1>1. TypeOK /\ Reader /\ FromOneByte /\ ReadsVarints /\ UnsupportedOnlyIfSound
    BY DEF IInv, VarintInv
  <1>2. raw \in Seq(Byte) /\ pos \in 0..Len(raw) /\ count \in Nat
    BY <1>1, HalfAssumption DEF TypeOK
  \* How two varints of raw are a multihash.
  <1>3. IsMultihash(raw) <=> \E a \in Nat, b \in Nat :
          /\ IsVarint(raw, 0, a) /\ IsVarint(raw, a, b)
          /\ VarintValue(raw, a, b) = Len(raw) - b
    BY <1>2, MultihashIs
  \* A refusal leaves the bytes alone.
  <1>4. ASSUME NEW e, Raise(e),
               e = "unsupportedHash" => IsSyntax(did) /\ IsMultihash(raw),
               e = "invalidDid" /\ IsSyntax(did) => ~IsMultihash(raw)
        PROVE  VarintInv'
    <2>1. step' = "raised" /\ error' = e /\ did' = did /\ raw' = raw
      BY <1>4 DEF Raise
    <2>2. ReadsVarints'
      BY <2>1 DEF ReadsVarints, Reading
    <2>3. (IsSyntax(did))' <=> IsSyntax(did)
      BY <2>1
    <2>4. (IsMultihash(raw))' <=> IsMultihash(raw)
      BY <2>1
    <2>5. UnsupportedOnlyIfSound'
      BY <1>4, <2>1, <2>3, <2>4 DEF UnsupportedOnlyIfSound
    <2> QED BY <2>2, <2>5 DEF VarintInv
  \* Where nothing is raised the verdicts are void.
  <1>5. ASSUME step' # "raised", ReadsVarints' PROVE VarintInv'
    <2>1. TypeOK'
      BY StepKeeps DEF IInv
    <2>2. error' = "noError"
      BY <1>5, <2>1 DEF TypeOK
    <2> QED BY <1>5, <2>2 DEF VarintInv, UnsupportedOnlyIfSound
  <1>6. CASE RefuseSyntax
    BY <1>4, <1>6 DEF RefuseSyntax
  <1>7. CASE DecodeText
    <2>1. pos = 0 /\ count = 0 /\ value = 0 /\ scale = 1
      BY <1>1, <1>7 DEF DecodeText, Reader
    <2>2. /\ step' = "code" /\ pos' = 0 /\ count' = 0 /\ value' = 0 /\ scale' = 1
      BY <1>7, <2>1 DEF DecodeText
    <2>3. raw' \in Seq(Byte) /\ 0 \in 0..Len(raw')
      BY <1>1, <1>7, DecodedBytes DEF DecodeText, TypeOK
    <2>4. VarintValue(raw', 0, 0) = 0 /\ Weight(0, Half) = 1
      BY <2>3, NothingRead
    <2>5. ReadsVarints'
      BY <2>2, <2>4 DEF ReadsVarints, Reading
    <2> QED BY <1>5, <2>2, <2>5
  <1>8. CASE RefuseVarint
    <2>1. ~IsMultihash(raw)
      <3> SUFFICES ASSUME NEW a \in Nat, NEW b \in Nat,
                          IsVarint(raw, 0, a), IsVarint(raw, a, b)
                   PROVE  FALSE
        BY <1>3
      <3>1. ~IsVarint(raw, pos - count, a) /\ ~IsVarint(raw, pos - count, b)
        BY <1>1, <1>8, RefusedIsNone
      <3>2. CASE step = "code"
        BY <1>1, <3>1, <3>2 DEF ReadsVarints
      <3>3. CASE step = "length"
        <4>1. IsVarint(raw, 0, pos - count)
          BY <1>1, <3>3 DEF ReadsVarints
        <4>2. a = pos - count
          BY <4>1, VarintEnds
        <4> QED BY <3>1, <4>2
      <3> QED BY <1>8, <3>2, <3>3 DEF RefuseVarint, Reading
    <2> QED BY <1>4, <1>8, <2>1 DEF RefuseVarint
  <1>9. CASE ContinueVarint
    <2>1. /\ Reading /\ MoreBytes /\ Continues
          /\ pos' = pos + 1 /\ count' = count + 1 /\ value' = Extended
          /\ scale' = scale * Half /\ raw' = raw /\ step' = step
      BY <1>9 DEF ContinueVarint
    <2>2. Extended = VarintValue(raw, pos - count, pos + 1)
      BY <1>1, <2>1, ExtendedIs
    <2>3. scale * Half = Weight(count + 1, Half)
      BY <1>1, <1>2, <2>1, Weights, HalfAssumption DEF ReadsVarints
    <2>4. pos' - count' = pos - count /\ count' <= pos'
      BY <1>1, <1>2, <2>1 DEF ReadsVarints
    <2>5. \A j \in pos - count + 1..pos + 1 : raw[j] >= Half
      <3> TAKE j \in pos - count + 1..pos + 1
      <3>1. CASE j = pos + 1
        BY <2>1, <3>1 DEF Continues, Octet
      <3>2. CASE j # pos + 1
        <4>1. j \in pos - count + 1..pos
          BY <1>2, <3>2
        <4> QED BY <1>1, <2>1, <4>1 DEF ReadsVarints
      <3> QED BY <3>1, <3>2
    <2>6. ReadsVarints'
      <3>1. Reading' => /\ count' <= pos'
                        /\ \A j \in pos' - count' + 1..pos' : raw'[j] >= Half
                        /\ value' = VarintValue(raw', pos' - count', pos')
                        /\ scale' = Weight(count', Half)
        BY <2>1, <2>2, <2>3, <2>4, <2>5
      <3>2. step' = "code" => pos' - count' = 0
        BY <1>1, <2>1, <2>4 DEF ReadsVarints
      <3>3. step' = "length" => IsVarint(raw', 0, pos' - count')
        BY <1>1, <2>1, <2>4 DEF ReadsVarints
      <3>4. step' # "digest"
        BY <2>1 DEF Reading
      <3> QED BY <3>1, <3>2, <3>3, <3>4 DEF ReadsVarints, IsVarint
    <2>7. step' # "raised"
      BY <2>1 DEF Reading
    <2> QED BY <1>5, <2>6, <2>7
  <1>10. CASE EndVarint
    <2>1. /\ Reading /\ MoreBytes
          /\ pos' = pos + 1 /\ count' = 0 /\ scale' = 1 /\ raw' = raw
      BY <1>10 DEF EndVarint
    <2>2. IsVarint(raw, pos - count, pos + 1)
      BY <1>1, <1>10, EndedIsVarint
    <2>3. CASE step = "code"
      <3>1. step' = "length" /\ value' = 0
        BY <1>10, <2>3 DEF EndVarint
      <3>2. IsVarint(raw, 0, pos + 1)
        BY <1>1, <2>2, <2>3 DEF ReadsVarints
      <3>3. VarintValue(raw, pos + 1, pos + 1) = 0 /\ Weight(0, Half) = 1
        <4>1. pos + 1 \in 0..Len(raw)
          BY <1>2, <2>1 DEF MoreBytes
        <4> QED BY <1>2, <4>1, NothingRead
      <3>4. pos' - count' = pos + 1 /\ count' <= pos' /\ pos' = pos + 1
            /\ \A j \in pos' - count' + 1..pos' : FALSE
        BY <1>2, <2>1
      <3>5. ReadsVarints'
        <4>1. /\ value' = VarintValue(raw', pos' - count', pos')
              /\ scale' = Weight(count', Half)
          BY <2>1, <3>1, <3>3, <3>4
        <4>2. IsVarint(raw', 0, pos' - count')
          BY <2>1, <3>2, <3>4
        <4> QED BY <3>1, <3>4, <4>1, <4>2 DEF ReadsVarints
      <3> QED BY <1>5, <3>1, <3>5
    <2>4. CASE step = "length"
      <3>1. step' = "digest" /\ value' = Extended
        BY <1>10, <2>4 DEF EndVarint
      <3>2. Extended = VarintValue(raw, pos - count, pos + 1)
        BY <1>1, <2>1, ExtendedIs
      <3>3. IsVarint(raw, 0, pos - count) /\ pos - count \in Nat
        BY <1>1, <1>2, <2>1, <2>4 DEF ReadsVarints
      <3>4. ReadsVarints'
        <4>1. \E a \in Nat : /\ IsVarint(raw', 0, a) /\ IsVarint(raw', a, pos')
                            /\ value' = VarintValue(raw', a, pos')
          BY <2>1, <2>2, <3>1, <3>2, <3>3
        <4> QED BY <3>1, <4>1 DEF ReadsVarints, Reading
      <3> QED BY <1>5, <3>1, <3>4
    <2> QED BY <2>1, <2>3, <2>4 DEF Reading
  <1>11. ASSUME step = "digest"
         PROVE  IsMultihash(raw) <=> LengthAgrees
    <2>1. PICK a \in Nat : /\ IsVarint(raw, 0, a) /\ IsVarint(raw, a, pos)
                           /\ value = VarintValue(raw, a, pos)
      BY <1>1, <1>11 DEF ReadsVarints
    <2>2. \A c \in Nat, b \in Nat :
            IsVarint(raw, 0, c) /\ IsVarint(raw, c, b) => c = a /\ b = pos
      BY <2>1, VarintEnds
    <2> QED BY <1>2, <1>3, <2>1, <2>2 DEF LengthAgrees
  <1>12. CASE RefuseLength
    BY <1>4, <1>11, <1>12 DEF RefuseLength
  <1>13. CASE RefuseHash
    <2>1. IsSyntax(did)
      BY <1>13 DEF RefuseHash, Decoded
    <2> QED BY <1>4, <1>11, <1>13, <2>1 DEF RefuseHash
  <1>14. CASE ReturnDigest
    <2>1. step' = "returned"
      BY <1>14 DEF ReturnDigest
    <2> QED BY <1>5, <2>1 DEF ReadsVarints, Reading
  <1>15. CASE UNCHANGED vars
    <2>1. ReadsVarints'
      BY <1>1, <1>15 DEF vars, ReadsVarints, Reading
    <2>2. UnsupportedOnlyIfSound'
      BY <1>1, <1>15 DEF vars, UnsupportedOnlyIfSound
    <2> QED BY <2>1, <2>2 DEF VarintInv
  <1> QED BY <1>6, <1>7, <1>8, <1>9, <1>10, <1>12, <1>13, <1>14, <1>15 DEF Next

\* A hash is called unsupported only when the DID is sound in structure, and no
\* sound one is called invalid: the varints that the reader accepts are exactly
\* the shortest spellings within the cap.
THEOREM UnsupportedIsSound == Spec => []UnsupportedOnlyIfSound
  <1>1. Init => VarintInv
    BY DEF Init, VarintInv, ReadsVarints, Reading, UnsupportedOnlyIfSound
  <1>2. VarintInv => UnsupportedOnlyIfSound
    BY DEF VarintInv
  <1> QED BY <1>1, <1>2, VarintStep, Invariant, DecodedInvariant, PTL DEF Spec
=============================================================================
