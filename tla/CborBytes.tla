------------------------------ MODULE CborBytes ------------------------------
(***************************************************************************)
(* What the encoder and the decoder of followee_model/detcbor.py share:    *)
(* bytes, the arguments of initial bytes, their order, and UTF-8; and the  *)
(* encoder.                                                                *)
(*                                                                         *)
(* An argument is the sequence of its base-256 digits without leading      *)
(* zeros, most significant first: 64-bit arguments keep every digit.       *)
(*                                                                         *)
(* A decoded value is a pair << type, content >>: "uint" and "nint" with   *)
(* an argument, "bytes" and "text" with bytes, "array" with its items,     *)
(* "map" with its keys and values in turn, "simple" with a number.  False, *)
(* True and None are the simple values 20, 21 and 22.                      *)
(***************************************************************************)
EXTENDS Integers, FiniteSets, Sequences, SequencesExt

Byte == 0..255

\* Lengths and counts of this size and above are all alike: no input of the
\* model is that long.
COUNT_CAP == 65536

\* _AI_SIZE, and _MIN_FOR_AI as the length of the shortest argument allowed: one
\* digit too long for the size below, or a single digit the initial byte cannot
\* hold.
ArgumentSize(ai) == CASE ai = 24 -> 1 [] ai = 25 -> 2 [] ai = 26 -> 4 [] ai = 27 -> 8

LeadingZeros(digits) == { k \in DOMAIN digits : \A j \in 1..k : digits[j] = 0 }

Significant(digits) ==
  SubSeq(digits, Cardinality(LeadingZeros(digits)) + 1, Len(digits))

\* Variant: 23 is let through in the two-byte form.
ShortestOff(ai, argument) ==
  CASE ai = 24 -> Len(argument) = 1 /\ argument[1] >= 23
    [] ai = 25 -> Len(argument) = 2
    [] ai = 26 -> Len(argument) > 2
    [] ai = 27 -> Len(argument) > 4

Shortest(ai, argument) ==
  CASE ai = 24 -> Len(argument) = 1 /\ argument[1] >= 24
    [] ai = 25 -> Len(argument) = 2
    [] ai = 26 -> Len(argument) > 2
    [] ai = 27 -> Len(argument) > 4

Digit(n) == IF n = 0 THEN << >> ELSE << n >>

Count(argument) ==
  CASE Len(argument) = 0 -> 0
    [] Len(argument) = 1 -> argument[1]
    [] Len(argument) = 2 -> 256 * argument[1] + argument[2]
    [] OTHER             -> COUNT_CAP

\* Python compares byte strings left to right, a proper prefix first.
LexLess(a, b) ==
  \/ IsStrictPrefix(a, b)
  \/ \E k \in DOMAIN a \cap DOMAIN b :
       /\ \A j \in 1..(k - 1) : a[j] = b[j]
       /\ a[k] < b[k]

\* The bytes of a code point that starts with b, 0 if none does.
Utf8Width(b) ==
  CASE b \in 0..127   -> 1
    [] b \in 194..223 -> 2
    [] b \in 224..239 -> 3
    [] b \in 240..244 -> 4
    [] OTHER          -> 0

\* The second byte may not make an overlong form, a surrogate or a code point
\* past U+10FFFF.
SecondByte(b) ==
  CASE b = 224 -> 160..191 [] b = 237 -> 128..159
    [] b = 240 -> 144..191 [] b = 244 -> 128..143 [] OTHER -> 128..191

\* bytes.decode("utf-8", errors="strict") succeeds.
IsUtf8(s) ==
  \A k \in DOMAIN s :
    \/ /\ Utf8Width(s[k]) > 0
       /\ k + Utf8Width(s[k]) - 1 <= Len(s)
       /\ \A j \in 1..(Utf8Width(s[k]) - 1) :
            s[k + j] \in IF j = 1 THEN SecondByte(s[k]) ELSE 128..191
    \/ /\ s[k] \in 128..191
       /\ \E j \in 1..(k - 1) : Utf8Width(s[j]) > k - j

IsContainer(value) == value[1] \in { "array", "map" }

\* Python takes False for 0 and True for 1 as the key of a dict.
DictKey(value) ==
  IF value = << "simple", 20 >> THEN << "uint", << >> >>
  ELSE IF value = << "simple", 21 >> THEN << "uint", << 1 >> >>
  ELSE value

\* The keys of a map.
Keys(map) == { map[2][k] : k \in { j \in DOMAIN map[2] : j % 2 = 1 } }

\* What is read from a position on: where it ends, and what it says.
IllFormed == [ end |-> 0, term |-> << "none", << >> >> ]
Fails(item) == item.end = 0
Item(end, term) == [ end |-> end, term |-> term ]

\* The argument of the head at position p, whatever its form, and where the
\* head ends; IllFormed if the bytes run out.
ArgumentAt(d, p) ==
  LET ai   == d[p] % 32
      size == IF ai < 24 THEN 0 ELSE ArgumentSize(ai)
  IN
  IF p + size > Len(d) THEN IllFormed
  ELSE Item(p + size, IF ai < 24 THEN Digit(ai)
                      ELSE Significant(SubSeq(d, p + 1, p + size)))

----------------------------------------------------------------------------
(* encode.                                                                 *)

Padded(digits, size) == [ k \in 1..(size - Len(digits)) |-> 0 ] \o digits

\* _encode_head: the argument in the smallest of the five forms.
EncodeHead(major, digits) ==
  LET form(ai, rest) == << 32 * major + ai >> \o rest IN
  CASE Len(digits) = 0                      -> form(0, << >>)
    [] Len(digits) = 1 /\ digits[1] < 24    -> form(digits[1], << >>)
    [] Len(digits) = 1 /\ digits[1] >= 24   -> form(24, digits)
    [] Len(digits) = 2                      -> form(25, digits)
    [] Len(digits) \in 3..4                 -> form(26, Padded(digits, 4))
    [] Len(digits) \in 5..8                 -> form(27, Padded(digits, 8))

\* A length below COUNT_CAP as an argument.
LengthDigits(n) == IF n < 256 THEN Digit(n) ELSE << n \div 256, n % 256 >>

\* The entries of a map in the order of their encoded keys, equal keys as they
\* came; an entry is a pair of byte strings.
Rank(entries, k) ==
  Cardinality({ j \in DOMAIN entries : \/ LexLess(entries[j][1], entries[k][1])
                                       \/ entries[j][1] = entries[k][1] /\ j <= k })

SortedEntries(entries) ==
  [ n \in DOMAIN entries |->
      entries[CHOOSE k \in DOMAIN entries : Rank(entries, k) = n] ]

\* _encode_item; encoded has the encodings of the items of a container.
EncodeItem(v, encoded) ==
  LET content == v[2] IN
  CASE v[1] = "simple" -> IF content < 24 THEN << 224 + content >> ELSE << 248, content >>
    [] v[1] = "uint"   -> EncodeHead(0, content)
    [] v[1] = "nint"   -> EncodeHead(1, content)
    [] v[1] = "bytes"  -> EncodeHead(2, LengthDigits(Len(content))) \o content
    [] v[1] = "text"   -> EncodeHead(3, LengthDigits(Len(content))) \o content
    [] v[1] = "array"  ->
         EncodeHead(4, LengthDigits(Len(content)))
           \o FlattenSeq([ k \in DOMAIN content |-> encoded[content[k]] ])
    [] v[1] = "map"    ->
         LET entries == [ k \in 1..(Len(content) \div 2) |->
                            << encoded[content[2 * k - 1]], encoded[content[2 * k]] >> ]
             sorted  == SortedEntries(entries)
         IN EncodeHead(5, LengthDigits(Len(entries)))
              \o FlattenSeq([ k \in DOMAIN sorted |-> sorted[k][1] \o sorted[k][2] ])

\* Values whose items are in S.
ValuesOf(S) ==
  ({ "uint", "nint" } \X { digits \in Seq(Byte) : Len(digits) <= 8 })
    \cup ({ "bytes", "text" } \X Seq(Byte))
    \cup ({ "simple" } \X Byte)
    \cup ({ "array", "map" } \X Seq(S))

\* encode, as a function on the values that nest at most so many levels deep.
EncodeTo[levels \in Nat] ==
  IF levels = 0 THEN [ v \in {} |-> << >> ]
  ELSE [ v \in ValuesOf(DOMAIN EncodeTo[levels - 1]) |->
           EncodeItem(v, EncodeTo[levels - 1]) ]
=============================================================================
