----------------------------- MODULE MCDetCbor -----------------------------
(***************************************************************************)
(* The decoder on every byte string of up to MCLength bytes of an alphabet *)
(* with one byte on each side of every boundary, and on longer ones that   *)
(* bring two keys, four-byte and eight-byte arguments and UTF-8 together.  *)
(***************************************************************************)
EXTENDS DetCborLayers

CONSTANT MCLength

\* Both sides of the short form; each argument size; every major type; reserved
\* and indefinite forms; each simple value with a meaning, a float, a break.
Alphabet ==
  { 0, 1, 23, 24, 25, 28, 32, 64, 65, 95, 97, 128, 129, 130, 159, 160, 161, 162,
    192, 224, 244, 245, 246, 247, 248, 249, 255 }

Short == UNION { [ 1..n -> Alphabet ] : n \in 0..MCLength }

\* Items of one and two bytes to be keys and values: integers in short and long
\* form, booleans, a text, containers.
Pieces ==
  { << 0 >>, << 1 >>, << 24, 0 >>, << 24, 23 >>, << 24, 24 >>, << 32 >>, << 97, 65 >>,
    << 97, 255 >>, << 128 >>, << 129, 0 >>, << 160 >>, << 244 >>, << 245 >>, << 247 >>,
    << 248, 31 >>, << 248, 32 >>, << 249, 0 >> }

Pairs ==
  { << 162 >> \o k \o << 0 >> \o l \o << 1 >> : k, l \in Pieces }
    \cup { << 130 >> \o k \o l : k, l \in Pieces }
    \cup { << 162 >> \o k \o v \o << 245 >> : k \in Pieces, v \in Pieces }
    \cup { << 131 >> \o k \o l : k, l \in Pieces }
    \cup { << 191 >> \o k \o l \o << 255 >> : k, l \in Pieces }
    \cup { << 129, 161 >> \o k \o l : k, l \in Pieces }
    \cup { << 130, 129 >> \o k \o << 129 >> \o l : k, l \in Pieces }

\* Arguments of two, four and eight bytes, at the boundary and one below it, of
\* integers, strings and containers.
LongHeads ==
  LET arguments ==
        { << 25, 0, 255 >>, << 25, 1, 0 >>,
          << 26, 0, 0, 255, 255 >>, << 26, 0, 1, 0, 0 >>,
          << 27, 0, 0, 0, 0, 255, 255, 255, 255 >>,
          << 27, 0, 0, 0, 1, 0, 0, 0, 0 >> }
      headed == { [ a EXCEPT ![1] = 32 * m + @ ] : a \in arguments, m \in 0..7 }
  IN headed \cup { h \o << 0 >> : h \in headed } \cup { Front(h) : h \in headed }

\* Texts around each boundary of UTF-8.
Texts ==
  { << 98, 194, 128 >>, << 98, 193, 191 >>, << 98, 195, 40 >>, << 98, 65, 128 >>,
    << 99, 224, 160, 128 >>, << 99, 224, 159, 191 >>, << 99, 237, 159, 191 >>,
    << 99, 237, 160, 128 >>, << 99, 226, 130, 172 >>, << 98, 226, 130 >>,
    << 100, 240, 144, 128, 128 >>, << 100, 240, 143, 191, 191 >>,
    << 100, 244, 143, 191, 191 >>, << 100, 244, 144, 128, 128 >>,
    << 100, 245, 128, 128, 128 >>, << 100, 194, 128, 194, 128 >> }

\* Depths one around the limit, and members in one container and in several.
Nested ==
  { << 129, 129, 128 >>, << 129, 129, 0 >>, << 129, 129, 129, 0 >>, << 161, 0, 161, 0, 160 >>,
    << 131, 0, 0, 0 >>, << 132, 0, 0, 0, 0 >>, << 130, 130, 0, 0, 0 >>, << 129, 130, 0, 0 >>,
    << 163, 0, 0, 1, 0, 32, 0 >>, << 164, 0, 0, 1, 0, 32, 0, 244, 0 >>,
    << 95, 65, 0, 97, 0, 255 >>, << 95, 65, 0, 65, 0, 255 >>, << 95, 95, 255, 255 >> }

MCInputs == Short \cup Pairs \cup LongHeads \cup Texts \cup Nested
=============================================================================
