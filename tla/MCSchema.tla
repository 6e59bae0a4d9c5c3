------------------------------ MODULE MCSchema ------------------------------
(***************************************************************************)
(* Values for the validators: each is legal but for at most two fields.  A *)
(* field is a sequence of choices, a choice the pairs it puts into the     *)
(* map; the first choice is a legal one.  Texts stand for strings of the   *)
(* length and grammars given here.  Words are all of a few symbols, and    *)
(* all that go on from a scheme, from the start of an authority or a port, *)
(* or from a language tag that has most parts.                             *)
(***************************************************************************)
EXTENDS SchemaConformance

\* Maps that take the first choice of every field but two.
MapsOf(fields) ==
  UNION { { AMap(UNION { fields[k][IF k = i THEN a ELSE IF k = j THEN b ELSE 1]
                         : k \in DOMAIN fields })
            : a \in DOMAIN fields[i], b \in DOMAIN fields[j] }
          : i, j \in DOMAIN fields }

Legal(fields) == AMap(UNION { fields[k][1] : k \in DOMAIN fields })

\* The choices of a label: a legal value, other values, no such label, and the
\* legal value at the key that compares equal though it is no integer.
At0(label, v) == { << AnInt(label), v >> }
Choices(label, vs) == [ n \in 1..(Len(vs) + 1) |->
                          IF n <= Len(vs) THEN At0(label, vs[n]) ELSE {} ]
Choices01(label, vs) == Append(Choices(label, vs),
                               { << IF label = 0 THEN False ELSE True, vs[1] >> })

\* Labels nobody knows, and none.
Strangers == << {}, At0(9, AText("hello")), At0(-1, None),
                { << AText("hello"), AnInt(0) >> }, { << None, AnInt(0) >> } >>

TextTable ==
  { << "hello", 5, { "serviceId", "language", "relToken" } >>,
    << "id-b", 4, { "serviceId", "relToken" } >>,
    << "id-c", 4, { "serviceId", "relToken" } >>,
    << "", 0, {} >>,
    << "Website", 7, { "serviceId", "language" } >>,
    << "spaced out", 10, {} >>,
    << "name256", 256, {} >>, << "name257", 257, {} >>,
    << "summary2048", 2048, {} >>, << "summary2049", 2049, {} >>,
    << "urn:x", 5, { "uri" } >>,
    << "uri256", 256, { "uri" } >>, << "uri257", 257, { "uri" } >>,
    << "uri2048", 2048, { "uri" } >>, << "uri2049", 2049, { "uri" } >>,
    << "id256", 256, { "serviceId", "relToken" } >>, << "rel257", 257, { "relToken" } >>,
    << "text/plain", 10, { "mediaType" } >>,
    << "lang64", 64, { "language", "serviceId", "relToken" } >>,
    << "lang65", 65, { "language", "serviceId", "relToken" } >>,
    << "did:a", 55, { "uri", "did" } >>, << "did:b", 55, { "uri", "did" } >>,
    << "Feed", 4, { "serviceId", "language" } >>, << "Profile", 7, { "serviceId", "language" } >>,
    << "ActivityPub", 11, { "serviceId" } >>, << "Messaging", 9, { "serviceId" } >>,
    << "Repository", 10, { "serviceId" } >>, << "Payment", 7, { "serviceId", "language" } >>,
    << "Other", 5, { "serviceId", "language" } >> }

TextNames   == { row[1] : row \in TextTable }
RowOf(t)    == CHOOSE row \in TextTable : row[1] = t
TextUtf8    == [ t \in TextNames |-> RowOf(t)[2] ]
TextGrammar == [ t \in TextNames |-> RowOf(t)[3] ]

Bytes(n) == << "bytes", n >>
SimpleValue(n) == << "simple", n >>
OwnDid   == AText("did:a")

----------------------------------------------------------------------------
(* Keys, descriptors and bodies.                                           *)

KeyFields ==
  << Choices01(0, << AnInt(-19), AnInt(-8), AnInt(0), True, AText("hello"), Bytes(32) >>),
     Choices01(1, << Bytes(32), Bytes(31), Bytes(33), Bytes(0), AText("hello"), None >>),
     Strangers, << {}, At0(2, AnInt(0)) >> >>

PublicKeys == MapsOf(KeyFields) \cup { AnInt(0), AList(<< >>), Bytes(32) }
LegalKey   == Legal(KeyFields)

KeyChoices ==
  << LegalKey, AMap({}), AnInt(1) >>
    \o [ a \in 1..6 |-> AMap(KeyFields[1][a] \cup KeyFields[2][1]) ]
    \o [ b \in 1..6 |-> AMap(KeyFields[1][1] \cup KeyFields[2][b]) ]
    \o [ b \in 1..6 |-> AMap(KeyFields[1][2] \cup KeyFields[2][b]) ]

DescriptorFields ==
  << Choices01(0, << AnInt(1), True, AnInt(2), AText("hello"), Bytes(1) >>),
     Choices01(1, KeyChoices),
     Choices(2, << Bytes(32), Bytes(31), Bytes(33), AText("id256"), LegalKey >>),
     Strangers >>

Descriptors == MapsOf(DescriptorFields) \cup { None, AList(<< AnInt(1) >>) }

Times == << AnInt(0), AnInt(UINT64_MAX), AnInt(UINT64_MAX + 1), AnInt(-1), False,
            AText("hello"), None >>
Wrong == << AnInt(0), True, AList(<< >>), AText("urn:x"), None >>

BodyFields ==
  << Choices01(0, << AnInt(1), True, AnInt(2), Bytes(1) >>),
     Choices01(1, << OwnDid, AText("hello"), AnInt(5), Bytes(5) >>),
     Choices(2, Times),
     Choices(3, << AnInt(0), AnInt(1), AnInt(2), False, True, AText("hello") >>),
     Choices(4, << MakeDescriptor, AMap({}) >> \o Wrong),
     << {} >> \o Choices(5, << LegalKey, AMap({}) >> \o Wrong),
     << {} >> \o Choices(6, Times),
     Choices(7, << AMap({}) >> \o Wrong),
     << {} >> \o Choices(8, << AMap({}) >> \o Wrong),
     Strangers >>

Bodies == MapsOf(BodyFields) \cup { AnInt(0), AList(<< >>) }

----------------------------------------------------------------------------
(* Contacts.                                                               *)

WrongTexts == << AnInt(0), True, Bytes(5), None, AText("spaced out"), AText("") >>

EntryFields ==
  << Choices01(0, << AText("hello"), AText("id256"), AText("rel257") >> \o WrongTexts),
     Choices01(1, << AText("Website"), AText("urn:x"), AText("uri2048"),
                     AText("uri2049"), AText("hello") >> \o WrongTexts),
     Choices(2, << AText("urn:x"), AText("uri2048"), AText("uri2049"),
                   AText("Website") >> \o WrongTexts),
     << {} >> \o Choices(3, << AText("text/plain"), AText("name257") >> \o WrongTexts),
     << {} >> \o Choices(4, << AText("name256"), AText("name257") >> \o WrongTexts),
     << {} >> \o Choices(5, << AText("hello"), AText("lang64"), AText("lang65") >>
                            \o WrongTexts),
     << {} >> \o Choices(6, << AText("hello"), AText("id256"), AText("rel257"),
                               AText("uri256"), AText("uri257"), AText("Website") >>
                            \o WrongTexts),
     Strangers >>

Entry(id) == AMap(At0(0, AText(id)) \cup At0(1, AText("Website")) \cup At0(2, AText("urn:x")))
BadEntry  == AMap(At0(0, AText("hello")))

Migrations ==
  << AMap(At0(0, AText("did:b"))), AMap(At0(1, AText("did:b"))),
     AMap(At0(0, AText("did:b")) \cup At0(1, AText("did:b"))),
     AMap(At0(0, OwnDid)), AMap(At0(0, AText("did:b")) \cup At0(1, OwnDid)), AMap({}),
     AMap(At0(0, AText("urn:x"))), AMap(At0(1, Bytes(5))), AMap(At0(2, AText("did:b"))),
     AMap({ << False, AText("did:b") >> }), AMap({ << True, AText("did:b") >> }),
     AText("did:b"), None >>

\* Extension values, nested ones included, and maps of them.
Nested(v) == { v, AList(<< None, v >>), AMap({ << AText("hello"), v >> }),
               AList(<< AMap({ << AnInt(-1), AList(<< v >>) >> }) >>) }

Extensible ==
  UNION { Nested(v) : v \in
    { AnInt(UINT64_MAX), AnInt(UINT64_MAX + 1), AnInt(-UINT64_MAX - 1), AnInt(-UINT64_MAX - 2),
      True, None, Bytes(0), AText(""), SimpleValue(0), SimpleValue(32),
      AMap({ << False, AnInt(0) >> }), AMap({ << None, AnInt(0) >> }),
      AMap({ << Bytes(1), AnInt(0) >> }), AMap({ << AText(""), AnInt(0) >> }) } }

Extensions ==
  { AMap({ << AText("urn:x"), v >> }) : v \in Extensible }
    \cup { AMap({ << k, AnInt(0) >> }) :
             k \in { AText("uri256"), AText("uri257"), AText("hello"), AnInt(0), None,
                     True, Bytes(5) } }
    \cup { AMap({}), AnInt(0), AList(<< >>) }

Uris(n) == AList([ k \in 1..n |-> AText("urn:x") ])

ContactFields ==
  << << {} >> \o Choices01(0, << AText("name256"), AText("name257") >> \o WrongTexts),
     << {} >> \o Choices01(1, << AText("summary2048"), AText("summary2049") >> \o WrongTexts),
     << {} >> \o Choices(2, << AText("urn:x"), AText("uri2048"), AText("uri2049") >>
                            \o WrongTexts),
     << {} >> \o Choices(3, << AList(<< >>), Uris(MAX_ALSO_KNOWN_AS),
                               Uris(MAX_ALSO_KNOWN_AS + 1),
                               AList(<< AText("urn:x"), AText("hello") >>),
                               AList(<< AText("urn:x"), AText("uri2049") >>),
                               AText("urn:x"), AMap({}) >>),
     << {} >> \o Choices(4, << AList(<< >>), AList(<< Entry("hello"), BadEntry >>),
                               AList(<< AnInt(0) >>), AMap({}), None >>),
     << {} >> \o Choices(5, Migrations),
     << {} >> \o Choices(6, << AMap({}), AMap(At0(0, None)),
                               AMap({ << AText("urn:x"), SimpleValue(32) >> }) >>),
     Strangers >>

ServiceLists ==
  UNION { [ 1..n -> { Entry("hello"), Entry("id-b"), Entry("id-c"), BadEntry } ]
          : n \in 2..(MAX_SERVICES + 1) }

Contacts ==
  MapsOf(ContactFields)
    \cup { AMap(At0(4, AList(<< e >>))) : e \in MapsOf(EntryFields) }
    \cup { AMap(At0(4, AList(es))) : es \in ServiceLists }
    \cup { AMap(At0(6, x)) : x \in Extensions }
    \cup { AnInt(0), AList(<< >>) }

\* A contact whose extension alone makes it n bytes.
ContactOf(n) == AMap(At0(6, AMap({ << AText("urn:x"), Bytes(n - 12) >> })))

----------------------------------------------------------------------------

\* What would not be read as these two symbols.
TakenForOne(one, next) ==
  { one, next } \subseteq Groups \/ "irregular" \in { one, next }

\* The words to start from, and how many symbols more there may be.
WordCalls(function, starts, room) ==
  { [ function |-> function, value |-> w, own_did |-> OwnDid, size |-> room ] : w \in starts }

AllWordCalls ==
  WordCalls("is_uri", { << >>, << "a", ":" >>, << "a", ":", "/" >>, << "z", ":", "/", "/" >>,
                        << "z", ":", "/", "/", "1", ":" >> }, 4)
    \cup WordCalls("is_ipv6", { << >> }, 16)
    \cup WordCalls("is_language_tag",
                   { << >>, << "a2", "a3", "a3" >>, << "a3", "a4", "n3", "v" >> }, 4)

----------------------------------------------------------------------------

Plain(function, v, size) ==
  [ function |-> function, value |-> v, own_did |-> OwnDid, size |-> size ]

Built(authority, revocationKey, timestamp, validUntil, contact, extensions) ==
  [ function |-> "build", value |-> None, own_did |-> OwnDid, size |-> 0,
    authority |-> authority, revocationKey |-> revocationKey, did |-> OwnDid,
    timestamp_ms |-> timestamp, contact |-> contact,
    validUntil_ms |-> validUntil, extensions |-> extensions ]

Clock == { 0, UINT64_MAX, UINT64_MAX + 1 }

CallsDef ==
  AllWordCalls
    \cup { Plain("body", v, 0) : v \in Bodies }
    \cup { Plain("descriptor", v, 0) : v \in Descriptors }
    \cup { Plain("revocationKey", v, 0) : v \in PublicKeys }
    \cup { Plain("contact", v, 0) : v \in Contacts }
    \cup { Plain("recordExtensions", v, 0) : v \in Extensions }
    \cup { Plain("contact", ContactOf(n), n) : n \in { MAX_CONTACT_BYTES, MAX_CONTACT_BYTES + 1 } }
    \cup { Built(a, key, t, until, c, x) :
             a \in { -1, 0, 1, 2 }, key \in { None, LegalKey }, t \in Clock,
             until \in { None } \cup { AnInt(u) : u \in Clock },
             c \in { AMap({}), Legal(Tail(ContactFields)) },
             x \in { None, AMap({}), AMap({ << AText("urn:x"), True >> }) } }

\* The next call of a function on words: one symbol more.
SymbolsOf == [ is_uri |-> UriSymbols, is_ipv6 |-> Ipv6Symbols,
               is_language_tag |-> LanguageSymbols ]

CallOnLongerWord ==
  /\ step \in { "raised", "returned" }
  /\ call.function \in DOMAIN SymbolsOf /\ call.size > 0
  /\ \E symbol \in SymbolsOf[call.function] :
       /\ value # << >> => ~TakenForOne(value[Len(value)], symbol)
       /\ value' = Append(value, symbol)
  /\ call' = [ call EXCEPT !.value = value', !.size = @ - 1 ]
  /\ step' = call.function /\ error' = NoError
  /\ UNCHANGED << index, seen_ids >>

MCSpec == Init /\ [][Next \/ CallOnLongerWord]_vars
=============================================================================
