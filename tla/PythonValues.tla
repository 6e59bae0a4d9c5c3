----------------------------- MODULE PythonValues -----------------------------
(***************************************************************************)
(* Decoded values as the validators of followee_model look at them.        *)
(*                                                                         *)
(* A value is << type, content >>: "int" with a number, "bool" with 0 or 1 *)
(* (that is how Python compares it with numbers), "none" and "simple" with *)
(* a number, "bytes" with its length, "text" with its name, "list" with a  *)
(* sequence and "map" with a set of pairs.  What a text is like is said by *)
(* the constants.                                                          *)
(***************************************************************************)
EXTENDS Integers, Sequences, FiniteSets

CONSTANTS
  Texts,         \* the names of texts
  Utf8Length,    \* text -> the bytes of its UTF-8
  Grammar        \* text -> the grammars it matches: "uri", "serviceId",
                 \* "mediaType", "language", "relToken", "did"

ASSUME TextsAssumption ==
  /\ Utf8Length \in [Texts -> Nat]
  /\ Grammar \in [Texts -> SUBSET { "uri", "serviceId", "mediaType", "language",
                                    "relToken", "did" }]

AnInt(n)  == << "int", n >>
AText(t)  == << "text", t >>
AList(s)  == << "list", s >>
AMap(s)   == << "map", s >>
False     == << "bool", 0 >>
True      == << "bool", 1 >>
None      == << "none", 0 >>

\* type(v) is int
IsInt(v)   == v[1] = "int"
IsText(v)  == v[1] = "text"
IsBytes(v) == v[1] = "bytes"
IsList(v)  == v[1] = "list"
IsMap(v)   == v[1] = "map"

Keys(m)     == { pair[1] : pair \in m[2] }
MapValues(m) == { pair[2] : pair \in m[2] }

\* Two keys of a dict are one if they compare equal; the decoder lets no two
\* such keys into one map.
AsKey(v) == IF v[1] = "bool" THEN AnInt(v[2]) ELSE v

\* label in m, m[label]
Has(m, label) == \E k \in Keys(m) : AsKey(k) = AnInt(label)
At(m, label)  == (CHOOSE pair \in m[2] : AsKey(pair[1]) = AnInt(label))[2]

\* Every label has the type int and is one of those known.
HasLabelsIn(m, known) == \A k \in Keys(m) : IsInt(k) /\ k[2] \in known

\* set(m.keys()) == labels, and labels <= set(m.keys())
LabelsAre(m, labels)     == { AsKey(k) : k \in Keys(m) } = { AnInt(n) : n \in labels }
LabelsInclude(m, labels) == \A n \in labels : Has(m, n)

Matches(v, grammar) == IsText(v) /\ grammar \in Grammar[v[2]]
IsShortText(v, limit) == IsText(v) /\ Utf8Length[v[2]] <= limit
=============================================================================
