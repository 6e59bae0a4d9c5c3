---------------------------- MODULE FieldGrammars ----------------------------
(***************************************************************************)
(* The larger regular expressions of followee_model/syntax.py and a        *)
(* matcher for them.  A word is a sequence of symbols: for URIs characters *)
(* or kinds of characters, for IPv6 addresses groups and colons, for       *)
(* language tags kinds of subtags, which hyphens separate.                 *)
(***************************************************************************)
EXTENDS Integers, Sequences, FiniteSets

Groups == { "h", "4" }     \* the symbols of IPv6 addresses that are groups

----------------------------------------------------------------------------
(* Regular expressions, and where a match that starts at a position of     *)
(* froms may end.  re.fullmatch tries every way to match.                  *)

Sym(symbols)      == << "sym", symbols >>
Cat(rs)           == << "cat", rs >>
Alt(rs)           == << "alt", rs >>
Rep(r, low, high) == << "rep", r, low, high >>

Many     == 99      \* more than any word is long
Star(r)  == Rep(r, 0, Many)
Plus(r)  == Rep(r, 1, Many)
Opt(r)   == Rep(r, 0, 1)
Epsilon  == Cat(<< >>)

RECURSIVE Ends(_, _, _), CatEnds(_, _, _), RepEnds(_, _, _, _, _)

CatEnds(rs, w, froms) ==
  IF rs = << >> THEN froms ELSE CatEnds(Tail(rs), w, Ends(Head(rs), w, froms))

RepEnds(r, w, froms, low, high) ==
  IF high = 0 \/ froms = {} THEN froms
  ELSE (IF low = 0 THEN froms ELSE {})
         \cup RepEnds(r, w, Ends(r, w, froms), IF low = 0 THEN 0 ELSE low - 1, high - 1)

Ends(r, w, froms) ==
  CASE r[1] = "sym" -> { p + 1 : p \in { q \in froms : q <= Len(w) /\ w[q] \in r[2] } }
    [] r[1] = "cat" -> CatEnds(r[2], w, froms)
    [] r[1] = "alt" -> UNION { Ends(r[2][n], w, froms) : n \in DOMAIN r[2] }
    [] r[1] = "rep" -> RepEnds(r[2], w, froms, r[3], r[4])

FullMatch(r, w) == Len(w) + 1 \in Ends(r, w, {1})

----------------------------------------------------------------------------
(* URIs.  "a" is a letter that is a hexadecimal digit, "z" one that is     *)
(* not, "1" a digit, "!" a sub-delimiter no scheme may have, "L" all of an *)
(* address in brackets, and " " anything no URI has.                       *)

UriSymbols == { "a", "z", "1", "!", "%", ":", "@", "/", "?", "#", "L", " " }

HEXDIG     == { "a", "1" }
UNRESERVED == { "a", "z", "1" }
SUB_DELIMS == { "!" }
PCT        == Cat(<< Sym({ "%" }), Sym(HEXDIG), Sym(HEXDIG) >>)
UnreservedPctSubDelims == Alt(<< Sym(UNRESERVED), PCT, Sym(SUB_DELIMS) >>)
PCHAR      == Alt(<< UnreservedPctSubDelims, Sym({ ":", "@" }) >>)
SCHEME     == Cat(<< Sym({ "a", "z" }), Star(Sym({ "a", "z", "1" })) >>)
USERINFO   == Star(Alt(<< UnreservedPctSubDelims, Sym({ ":" }) >>))
REG_NAME   == Star(UnreservedPctSubDelims)
HOST       == Alt(<< Sym({ "L" }), REG_NAME >>)
AUTHORITY  == Cat(<< Opt(Cat(<< USERINFO, Sym({ "@" }) >>)), HOST,
                     Opt(Cat(<< Sym({ ":" }), Star(Sym({ "1" })) >>)) >>)
SEGMENT    == Star(PCHAR)
SEGMENT_NZ == Plus(PCHAR)
PATH_ABEMPTY  == Star(Cat(<< Sym({ "/" }), SEGMENT >>))
PATH_ROOTLESS == Cat(<< SEGMENT_NZ, PATH_ABEMPTY >>)

\* Variant: segments may all be empty.
PATH_ABSOLUTE_ANY == Cat(<< Sym({ "/" }), Opt(Cat(<< SEGMENT, PATH_ABEMPTY >>)) >>)

PATH_ABSOLUTE == Cat(<< Sym({ "/" }), Opt(PATH_ROOTLESS) >>)

HIER_PART == Alt(<< Cat(<< Sym({ "/" }), Sym({ "/" }), AUTHORITY, PATH_ABEMPTY >>),
                    PATH_ABSOLUTE, PATH_ROOTLESS, Epsilon >>)
QUERY     == Star(Alt(<< PCHAR, Sym({ "/", "?" }) >>))
FRAGMENT  == QUERY
URI       == Cat(<< SCHEME, Sym({ ":" }), HIER_PART,
                    Opt(Cat(<< Sym({ "?" }), QUERY >>)),
                    Opt(Cat(<< Sym({ "#" }), FRAGMENT >>)) >>)

----------------------------------------------------------------------------
(* IPv6 addresses: "h" is a group of one to four hexadecimal digits, "4" a *)
(* dotted quad, and two of these in a row are not told from one.           *)

Ipv6Symbols == { "h", "4", ":" }

H16    == Sym({ "h" })
IPV4   == Sym({ "4" })
Colon  == Sym({ ":" })
H16s(low, high) == Rep(Cat(<< H16, Colon >>), low, high)
LS32   == Alt(<< Cat(<< H16, Colon, H16 >>), IPV4 >>)
Elided == Cat(<< Colon, Colon >>)

\* Variant: as many groups before the elision in each alternative as in the last.
LeadingLoose(n) == Opt(Cat(<< H16s(0, 6), H16 >>))

\* Up to n groups and one more, or nothing, before the elision.
Leading(n) == Opt(Cat(<< H16s(0, n), H16 >>))

IPV6 == Alt(<< Cat(<< H16s(6, 6), LS32 >>),
               Cat(<< Elided, H16s(5, 5), LS32 >>),
               Cat(<< Opt(H16), Elided, H16s(4, 4), LS32 >>),
               Cat(<< Leading(1), Elided, H16s(3, 3), LS32 >>),
               Cat(<< Leading(2), Elided, H16s(2, 2), LS32 >>),
               Cat(<< Leading(3), Elided, H16, Colon, LS32 >>),
               Cat(<< Leading(4), Elided, LS32 >>),
               Cat(<< Leading(5), Elided, H16 >>),
               Cat(<< Leading(6), Elided >>) >>)

----------------------------------------------------------------------------
(* Language tags.  Subtags of one character are "s", but "x" is itself;    *)
(* letters alone are "a2" to "a4" and "a8" for five to eight; three digits *)
(* are "n3"; "v" is a variant that is not letters alone; "m" is any other  *)
(* of two to eight characters, and "long" one of more.  "irregular" is all *)
(* of a grandfathered tag that is no langtag, and stands alone.            *)

LanguageSymbols ==
  { "s", "x", "a2", "a3", "a4", "a8", "n3", "v", "m", "long", "irregular" }

TwoToEight == { "a2", "a3", "a4", "a8", "n3", "v", "m" }

EXTLANG    == Rep(Sym({ "a3" }), 1, 3)
LANGUAGE   == Alt(<< Cat(<< Sym({ "a2", "a3" }), Opt(EXTLANG) >>), Sym({ "a4" }),
                     Sym({ "a8" }) >>)
SCRIPT     == Sym({ "a4" })
REGION     == Sym({ "a2", "n3" })
VARIANT    == Sym({ "a8", "v" })
SINGLETON  == Sym({ "s" })

\* Variant: what follows a singleton may be missing.
EXTENSION_EMPTY == Cat(<< SINGLETON, Star(Sym(TwoToEight)) >>)

EXTENSION  == Cat(<< SINGLETON, Plus(Sym(TwoToEight)) >>)
PRIVATEUSE == Cat(<< Sym({ "x" }), Plus(Sym(TwoToEight \cup { "s", "x" })) >>)
LANGTAG    == Cat(<< LANGUAGE, Opt(SCRIPT), Opt(REGION), Star(VARIANT),
                     Star(EXTENSION), Opt(PRIVATEUSE) >>)
LANGUAGE_TAG == Alt(<< LANGTAG, PRIVATEUSE, Sym({ "irregular" }) >>)

----------------------------------------------------------------------------
(* The standards, each said without its grammar.                           *)

First(w, symbols) ==
  LET at == { p \in DOMAIN w : w[p] \in symbols } IN
  IF at = {} THEN Len(w) + 1 ELSE CHOOSE p \in at : \A q \in at : p <= q

Before(w, p) == SubSeq(w, 1, p - 1)
After(w, p)  == SubSeq(w, p + 1, Len(w))

\* w has only these symbols and "%" with two digits after it.
Of(w, symbols) ==
  \A p \in DOMAIN w :
    \/ w[p] \in symbols
    \/ /\ w[p] = "%" /\ p + 2 <= Len(w)
       /\ w[p + 1] \in { "a", "1" } /\ w[p + 2] \in { "a", "1" }

Letters == { "a", "z", "1", "!" }

IsAuthority(w) ==
  LET at       == First(w, { "@" })
      hostPort == IF at > Len(w) THEN w ELSE After(w, at)
      colon    == First(hostPort, { ":" })
      host     == Before(hostPort, colon)
  IN /\ at <= Len(w) => Of(Before(w, at), Letters \cup { ":" })
     /\ host = << "L" >> \/ Of(host, Letters)
     /\ \A p \in DOMAIN After(hostPort, colon) : After(hostPort, colon)[p] = "1"

\* RFC 3986, Appendix B: the first delimiters cut a URI into its five parts.
IsUriByParts(w) ==
  LET colon     == First(w, { ":", "/", "?", "#" })
      rest      == After(w, colon)
      hash      == First(rest, { "#" })
      question  == First(Before(rest, hash), { "?" })
      hier      == Before(rest, IF question < hash THEN question ELSE hash)
      local     == SubSeq(hier, 3, Len(hier))
      authority == Before(local, First(local, { "/" }))
      rooted    == Len(hier) >= 2 /\ hier[1] = "/" /\ hier[2] = "/"
      path      == IF rooted THEN SubSeq(local, Len(authority) + 1, Len(local)) ELSE hier
      Rest      == Letters \cup { ":", "@", "/" }
  IN /\ colon \in 2..Len(w) /\ w[colon] = ":" /\ w[1] \in { "a", "z" }
     /\ \A p \in 1..(colon - 1) : w[p] \in { "a", "z", "1" }
     /\ rooted => IsAuthority(authority)
     /\ Of(path, Rest)
     /\ Of(SubSeq(rest, question + 1, hash - 1), Rest \cup { "?" })
     /\ Of(After(rest, hash), Rest \cup { "?" })

\* Eight groups of sixteen bits, a dotted quad at the end being two; once at most
\* "::" stands for one or more of them.
IsEightGroups(w) ==
  LET elisions == { p \in 1..(Len(w) - 1) : w[p] = ":" /\ w[p + 1] = ":" }
      groups   == Cardinality({ p \in DOMAIN w : w[p] \in Groups })
                    + Cardinality({ p \in DOMAIN w : w[p] = "4" })
  IN /\ \A p \in DOMAIN w : w[p] = "4" => p = Len(w)
     /\ w # << >> /\ w[1] = ":" => 1 \in elisions
     /\ w # << >> /\ w[Len(w)] = ":" => Len(w) - 1 \in elisions
     /\ \/ elisions = {} /\ groups = 8
        \/ Cardinality(elisions) = 1 /\ groups <= 7

\* RFC 5646, Section 2.1: what comes after the language goes up in rank, each rank
\* as often as it may; what a singleton or "x" introduces is not empty.
Rank(symbol) ==
  CASE symbol = "a3"           -> 1
    [] symbol = "a4"           -> 2
    [] symbol \in { "a2", "n3" } -> 3
    [] symbol \in { "a8", "v" }  -> 4
    [] OTHER                   -> 5

IsOrderedTag(w) ==
  LET private == First(w, { "x" })
      public  == Before(w, private)
      single  == First(public, { "s" })
      AtRank(n) == { p \in 2..(single - 1) : Rank(w[p]) = n }
      MostAt  == << IF w[1] \in { "a2", "a3" } THEN 3 ELSE 0, 1, 1, Len(w), 0 >>
  IN /\ w # << >>
     /\ private <= Len(w) => /\ private < Len(w)
                             /\ \A p \in private..Len(w) : w[p] \notin { "long", "irregular" }
     /\ \A p \in single..Len(public) :
          /\ w[p] \notin { "long", "irregular" }
          /\ w[p] = "s" => p < Len(public) /\ w[p + 1] # "s"
     /\ private # 1 =>
          /\ w[1] \in { "a2", "a3", "a4", "a8" }
          /\ \A p, q \in 2..(single - 1) : p < q => Rank(w[p]) <= Rank(w[q])
          /\ \A n \in 1..5 : Cardinality(AtRank(n)) <= MostAt[n]
=============================================================================
