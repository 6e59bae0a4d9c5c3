---------------------------- MODULE CborReference ----------------------------
(***************************************************************************)
(* CBOR as RFC 8949 has it, and the three layers of validation that the    *)
(* docstring of followee_model/detcbor.py lists, each stated on the whole  *)
(* item and without regard to the order in which a decoder meets a fault.  *)
(***************************************************************************)
EXTENDS CborBytes

\* Every item that RFC 8949 allows has an end and a term; terms have two types
\* that decoded values do not: << "tag", term >> and << "float", bytes >>.
\* ItemAt(d, p) is the item that starts at position p of d, ItemsAt(d, p, n) the
\* n items from there, ItemsToBreak(d, p, types) those up to the break code, all
\* of the given types; their terms are sequences.
RECURSIVE ItemAt(_, _), ItemsAt(_, _, _), ItemsToBreak(_, _, _)

DefiniteAt(d, p) ==
  LET head  == ArgumentAt(d, p)
      n     == Count(head.term)
      next  == head.end + 1
      major == d[p] \div 32
      Container(type, content) ==
        IF Fails(content) THEN IllFormed
        ELSE Item(content.end, << type, content.term >>)
  IN
  IF Fails(head) THEN IllFormed
  ELSE CASE major = 0 -> Item(head.end, << "uint", head.term >>)
         [] major = 1 -> Item(head.end, << "nint", head.term >>)
         [] major \in 2..3 ->
              IF head.end + n > Len(d) THEN IllFormed
              ELSE Item(head.end + n, << IF major = 2 THEN "bytes" ELSE "text",
                                         SubSeq(d, next, head.end + n) >>)
         [] major = 4 -> Container("array", ItemsAt(d, next, n))
         [] major = 5 -> Container("map", ItemsAt(d, next, 2 * n))
         [] major = 6 -> Container("tag", ItemAt(d, next))

\* Chunks of a string are definite strings of its own type.
IndefiniteAt(d, p) ==
  LET major == d[p] \div 32
      type  == << "bytes", "text", "array", "map" >>[major - 1]
      inner == ItemsToBreak(d, p + 1, IF major \in 2..3 THEN { type } ELSE {})
  IN
  IF Fails(inner) \/ (major = 5 /\ Len(inner.term) % 2 = 1) THEN IllFormed
  ELSE Item(inner.end,
            << type, IF major \in 2..3
                     THEN FlattenSeq([ k \in DOMAIN inner.term |-> inner.term[k][2] ])
                     ELSE inner.term >>)

SimpleAt(d, p) ==
  LET ai   == d[p] % 32
      size == IF ai < 24 THEN 0 ELSE ArgumentSize(ai)
  IN
  IF p + size > Len(d) THEN IllFormed
  ELSE CASE ai < 24 -> Item(p, << "simple", ai >>)
         [] ai = 24 -> IF d[p + 1] < 32 THEN IllFormed
                       ELSE Item(p + 1, << "simple", d[p + 1] >>)
         [] ai \in 25..27 -> Item(p + size, << "float", SubSeq(d, p + 1, p + size) >>)

ItemAt(d, p) ==
  IF p > Len(d) THEN IllFormed
  ELSE CASE d[p] % 32 \in 28..30                    -> IllFormed
         [] d[p] % 32 = 31 /\ d[p] \div 32 \in 2..5 -> IndefiniteAt(d, p)
         [] d[p] % 32 = 31 /\ d[p] \div 32 \notin 2..5 -> IllFormed
         [] d[p] % 32 < 28 /\ d[p] \div 32 = 7      -> SimpleAt(d, p)
         [] d[p] % 32 < 28 /\ d[p] \div 32 < 7      -> DefiniteAt(d, p)

ItemsAt(d, p, n) ==
  IF n = 0 THEN Item(p - 1, << >>)
  ELSE LET first == ItemAt(d, p)
           rest  == ItemsAt(d, first.end + 1, n - 1)
       IN IF Fails(first) THEN IllFormed
          ELSE IF Fails(rest) THEN IllFormed
          ELSE Item(rest.end, << first.term >> \o rest.term)

ItemsToBreak(d, p, types) ==
  IF p > Len(d) THEN IllFormed
  ELSE IF d[p] = 255 THEN Item(p, << >>)
  ELSE LET first == ItemAt(d, p)
           rest  == ItemsToBreak(d, first.end + 1, types)
       IN IF Fails(first) THEN IllFormed
          ELSE IF types # {} /\ (first.term[1] \notin types \/ d[p] % 32 = 31)
               THEN IllFormed
          ELSE IF Fails(rest) THEN IllFormed
          ELSE Item(rest.end, << first.term >> \o rest.term)

\* Exactly one item, nothing after it.
WellFormed(d) == LET i == ItemAt(d, 1) IN ~Fails(i) /\ i.end = Len(d)
Term(d)       == ItemAt(d, 1).term

----------------------------------------------------------------------------
(* The layers.                                                             *)

Children(t) ==
  CASE t[1] \in { "array", "map" } -> t[2]
    [] t[1] = "tag"                -> << t[2] >>
    [] OTHER                       -> << >>

Distinct(t) ==
  \A j, k \in DOMAIN t[2] : j < k /\ j % 2 = 1 /\ k % 2 = 1 => t[2][j] # t[2][k]

\* t and everything inside it.
RECURSIVE Within(_)
Within(t) ==
  {t} \cup UNION { Within(Children(t)[k]) : k \in DOMAIN Children(t) }

\* Containers on the longest way into t, and members of all of them.
RECURSIVE Depth(_), Members(_)
Depth(t) ==
  LET inner == { Depth(Children(t)[k]) : k \in DOMAIN Children(t) } IN
  Max(inner \cup {0}) + IF IsContainer(t) THEN 1 ELSE 0

Members(t) ==
  MapThenSumSet(LAMBDA k : Members(Children(t)[k]), DOMAIN Children(t))
    + CASE t[1] = "array" -> Len(t[2])
        [] t[1] = "map"   -> Len(t[2]) \div 2
        [] OTHER          -> 0

\* encode of a term, however deep.
Encode(t) == EncodeTo[Depth(t) + 1][t]

BasicallyValid(t) ==
  \A u \in Within(t) : /\ u[1] = "text" => IsUtf8(u[2])
                       /\ u[1] = "map"  => Distinct(u)

\* Nothing forbidden, and everything in the one form the encoder gives it.
Deterministic(d, t) ==
  /\ \A u \in Within(t) : u[1] \notin { "tag", "float" } /\ u # << "simple", 23 >>
  /\ Encode(t) = d

\* The keys of a dict: no containers, and no two that Python takes for one.
DictKeys(t) ==
  \A u \in Within(t) :
    u[1] = "map" => /\ \A k \in Keys(u) : ~IsContainer(k)
                    /\ \A j, k \in Keys(u) : DictKey(j) = DictKey(k) => j = k

WithinBounds(t, depth, count) == Depth(t) <= depth /\ Members(t) <= count

\* The codes of the layers that a well-formed d fails.
LayerFaults(d, depth, count) ==
  LET t == Term(d) IN
       (IF BasicallyValid(t) THEN {} ELSE { "invalidCbor" })
  \cup (IF Deterministic(d, t) THEN {} ELSE { "nonDeterministicCbor" })
  \cup (IF DictKeys(t) /\ WithinBounds(t, depth, count)
        THEN {} ELSE { "schemaViolation" })
=============================================================================
