----------------------------- MODULE RecordSchema -----------------------------
(***************************************************************************)
(* The validators of followee_model/record.py and descriptor.py and the    *)
(* constructor of record bodies in signing.py, one call at a time.  In     *)
(* what these look at, the grammars of syntax.py and parse_did are         *)
(* properties of texts; is_uri and is_language_tag are calls of their own, *)
(* whose argument is a word of FieldGrammars.                              *)
(***************************************************************************)
EXTENDS PythonValues, FieldGrammars

CONSTANTS
  UINT64_MAX,          \* 2^64 - 1 in the code
  MAX_CONTACT_BYTES,   \* 12288
  MAX_ALSO_KNOWN_AS,   \* 32
  MAX_SERVICES,        \* 64
  Calls                \* what is called: [function, value, and its arguments]

\* Limits on texts, and the length of keys and digests.
MAX_DISPLAY_NAME_BYTES  == 256
MAX_SUMMARY_BYTES       == 2048
MAX_URI_BYTES           == 2048
MAX_SERVICE_LABEL_BYTES == 256
MAX_MEDIA_TYPE_BYTES    == 256
MAX_LANGUAGE_BYTES      == 64
MAX_REL_BYTES           == 256
MAX_EXTENSION_KEY_BYTES == 256
KEY_BYTES               == 32

SERVICE_TYPE_TOKENS == { "Website", "Feed", "Profile", "ActivityPub", "Messaging",
                         "Repository", "Payment", "Other" }

SUITE_ED25519 == -19
AUTHORITY_ROOT == 0
AUTHORITY_ROOT_REVOKED == 1

NoError == "noError"
Unless(condition, code) == IF condition THEN NoError ELSE code

----------------------------------------------------------------------------
(* Parts of the schemas.                                                   *)

IsUint64(v) == IsInt(v) /\ v[2] \in 0..UINT64_MAX

\* _validate_uri_field
IsUriField(v) == IsShortText(v, MAX_URI_BYTES) /\ Matches(v, "uri")

\* validate_extension_value
RECURSIVE IsExtensionValue(_)
IsExtensionValue(v) ==
  \/ v[1] \in { "none", "bool", "bytes", "text" }
  \/ IsInt(v) /\ v[2] \in (-UINT64_MAX - 1)..UINT64_MAX
  \/ IsList(v) /\ \A k \in DOMAIN v[2] : IsExtensionValue(v[2][k])
  \/ /\ IsMap(v)
     /\ \A k \in Keys(v) : IsInt(k) \/ IsText(k)
     /\ \A x \in MapValues(v) : IsExtensionValue(x)

\* validate_extension_map
IsExtensionMap(v) ==
  /\ IsMap(v)
  /\ \A k \in Keys(v) : IsShortText(k, MAX_EXTENSION_KEY_BYTES) /\ Matches(k, "uri")
  /\ \A x \in MapValues(v) : IsExtensionValue(x)

\* What detcbor.encode can encode: it raises on any integer beyond 64 bits.
RECURSIVE IsEncodable(_)
IsEncodable(v) ==
  /\ IsInt(v)  => v[2] \in (-UINT64_MAX - 1)..UINT64_MAX
  /\ IsList(v) => \A k \in DOMAIN v[2] : IsEncodable(v[2][k])
  /\ IsMap(v)  => \A u \in Keys(v) \cup MapValues(v) : IsEncodable(u)

IsOptional(m, label, Accepts(_)) == Has(m, label) => Accepts(At(m, label))

\* validate_record_body: the outer level of a body only.
IsRecordBody(body) ==
  /\ IsMap(body)
  /\ HasLabelsIn(body, 0..8)
  /\ LabelsInclude(body, { 0, 1, 2, 3, 4, 7 })
  /\ IsInt(At(body, 0)) /\ At(body, 0)[2] = 1
  /\ IsText(At(body, 1))
  /\ IsUint64(At(body, 2))
  /\ IsInt(At(body, 3)) /\ At(body, 3)[2] \in { AUTHORITY_ROOT, AUTHORITY_ROOT_REVOKED }
  /\ IsMap(At(body, 4))
  /\ IsOptional(body, 5, IsMap)
  /\ IsOptional(body, 6, IsUint64)
  /\ IsMap(At(body, 7))
  /\ IsOptional(body, 8, IsMap)

\* Variant: the suite is looked at last.
PublicKeyErrorSuiteLast(obj, suiteError, sizeError) ==
  IF ~(/\ IsMap(obj) /\ (\A k \in Keys(obj) : IsInt(k)) /\ LabelsAre(obj, { 0, 1 })
       /\ IsInt(At(obj, 0)) /\ IsBytes(At(obj, 1)))
  THEN "schemaViolation"
  ELSE IF At(obj, 1)[2] # KEY_BYTES THEN sizeError
  ELSE Unless(At(obj, 0)[2] = SUITE_ED25519, suiteError)

\* validate_public_key, with the codes its caller wants for a foreign suite and
\* for a key of another size.
PublicKeyError(obj, suiteError, sizeError) ==
  IF ~(/\ IsMap(obj) /\ (\A k \in Keys(obj) : IsInt(k)) /\ LabelsAre(obj, { 0, 1 })
       /\ IsInt(At(obj, 0)))
  THEN "schemaViolation"
  ELSE IF At(obj, 0)[2] # SUITE_ED25519 THEN suiteError
  ELSE IF ~IsBytes(At(obj, 1)) THEN "schemaViolation"
  ELSE Unless(At(obj, 1)[2] = KEY_BYTES, sizeError)

\* validate_descriptor
DescriptorError(obj) ==
  IF ~(/\ IsMap(obj) /\ (\A k \in Keys(obj) : IsInt(k)) /\ LabelsAre(obj, { 0, 1, 2 })
       /\ IsInt(At(obj, 0)) /\ At(obj, 0)[2] = 1)
  THEN "schemaViolation"
  ELSE LET rootKey == PublicKeyError(At(obj, 1), "unsupportedSuite", "schemaViolation") IN
       IF rootKey # NoError THEN rootKey
       ELSE Unless(At(obj, 2) = << "bytes", KEY_BYTES >>, "schemaViolation")

\* make_public_key and make_descriptor of keys and digests of the right size.
MakePublicKey  == AMap({ << AnInt(0), AnInt(SUITE_ED25519) >>,
                        << AnInt(1), << "bytes", KEY_BYTES >> >> })
MakeDescriptor == AMap({ << AnInt(0), AnInt(1) >>, << AnInt(1), MakePublicKey >>,
                        << AnInt(2), << "bytes", KEY_BYTES >> >> })

\* What build_record_body requires of a revocation key: present exactly when the
\* authority value says so; any other authority value is an error too.
KeyFitsAuthority(a) ==
  \/ a.authority = AUTHORITY_ROOT_REVOKED /\ a.revocationKey # None
  \/ a.authority = AUTHORITY_ROOT /\ a.revocationKey = None

\* Variant: an empty map is left out like None.
GivenTruthy(label, v) ==
  IF v \in { None, AnInt(0), AMap({}) } THEN {} ELSE { << AnInt(label), v >> }

Given(label, v) == IF v = None THEN {} ELSE { << AnInt(label), v >> }

BuildRecordBody(a) ==
  AMap({ << AnInt(0), AnInt(1) >>, << AnInt(1), a.did >>, << AnInt(2), AnInt(a.timestamp_ms) >>,
        << AnInt(3), AnInt(a.authority) >>, << AnInt(4), MakeDescriptor >>,
        << AnInt(7), a.contact >> }
      \cup Given(5, a.revocationKey) \cup Given(6, a.validUntil_ms)
      \cup Given(8, a.extensions))

----------------------------------------------------------------------------
(* The calls.                                                              *)

VARIABLES
  call,        \* the function called and its arguments
  value,       \* the value it looks at
  step,        \* what runs next, "raised" or "returned"
  index,       \* the service entry about to be looked at
  seen_ids,    \* the ids of the entries before it
  error        \* the code raised, or NoError

vars == << call, value, step, index, seen_ids, error >>

Init ==
  /\ call \in Calls
  /\ value = call.value
  /\ step = call.function
  /\ index = 1 /\ seen_ids = {} /\ error = NoError

Check(s, verdict, next) ==
  /\ step = s
  /\ error' = verdict
  /\ step' = IF verdict = NoError THEN next ELSE "raised"

Require(s, condition, next) ==
  /\ Check(s, Unless(condition, "schemaViolation"), next)
  /\ UNCHANGED << call, value, index, seen_ids >>

ValidateRecordBody == Require("body", IsRecordBody(value), "returned")

ValidateDescriptor ==
  /\ Check("descriptor", DescriptorError(value), "returned")
  /\ UNCHANGED << call, value, index, seen_ids >>

\* The way verify.py calls validate_public_key for a revealed key.
ValidateRevocationKey ==
  /\ Check("revocationKey",
           PublicKeyError(value, "invalidRevocationKey", "invalidRevocationKey"),
           "returned")
  /\ UNCHANGED << call, value, index, seen_ids >>

\* A body that was built is looked at the way a verifier will.
BuildBody ==
  /\ Check("build", Unless(KeyFitsAuthority(call), "ValueError"), "body")
  /\ value' = IF KeyFitsAuthority(call) THEN BuildRecordBody(call) ELSE value
  /\ UNCHANGED << call, index, seen_ids >>

\* validate_contact
ContactLabels ==
  Require("contact", IsMap(value) /\ HasLabelsIn(value, 0..6), "size")

\* The size is that of the encoding, and what cannot be encoded raises here.
ContactSize ==
  /\ Check("size",
           IF IsEncodable(value)
           THEN Unless(call.size <= MAX_CONTACT_BYTES, "schemaViolation")
           ELSE "ValueError",
           "names")
  /\ UNCHANGED << call, value, index, seen_ids >>

ContactNames ==
  Require("names",
          /\ IsOptional(value, 0, LAMBDA v : IsShortText(v, MAX_DISPLAY_NAME_BYTES))
          /\ IsOptional(value, 1, LAMBDA v : IsShortText(v, MAX_SUMMARY_BYTES))
          /\ IsOptional(value, 2, IsUriField),
          "alsoKnownAs")

ContactAlsoKnownAs ==
  Require("alsoKnownAs",
          IsOptional(value, 3, LAMBDA v :
            /\ IsList(v) /\ Len(v[2]) <= MAX_ALSO_KNOWN_AS
            /\ \A k \in DOMAIN v[2] : IsUriField(v[2][k])),
          "services")

Services == IF Has(value, 4) THEN At(value, 4)[2] ELSE << >>

ContactServices ==
  Require("services",
          IsOptional(value, 4, LAMBDA v : IsList(v) /\ Len(v[2]) <= MAX_SERVICES),
          "entry")

\* The labels 0 to 2 of a service entry, and its optional ones.
IsEntry(entry) ==
  /\ IsMap(entry) /\ HasLabelsIn(entry, 0..6) /\ LabelsInclude(entry, { 0, 1, 2 })
  /\ Matches(At(entry, 0), "serviceId")
  /\ IsText(At(entry, 1))
  /\ At(entry, 1)[2] \in SERVICE_TYPE_TOKENS \/ IsUriField(At(entry, 1))
  /\ IsUriField(At(entry, 2))
  /\ IsOptional(entry, 3, LAMBDA v :
       IsShortText(v, MAX_MEDIA_TYPE_BYTES) /\ Matches(v, "mediaType"))
  /\ IsOptional(entry, 4, LAMBDA v : IsShortText(v, MAX_SERVICE_LABEL_BYTES))
  /\ IsOptional(entry, 5, LAMBDA v :
       IsShortText(v, MAX_LANGUAGE_BYTES) /\ Matches(v, "language"))
  /\ IsOptional(entry, 6, LAMBDA v :
       IsShortText(v, MAX_REL_BYTES) /\ (Matches(v, "relToken") \/ Matches(v, "uri")))

\* Variant: each entry starts with no id seen.
SeenAfterAlone(entry) == { At(entry, 0) }

SeenAfter(entry) == seen_ids \cup { At(entry, 0) }

\* validate_service_entry, once per entry.
ServiceEntry ==
  /\ step = "entry" /\ index <= Len(Services)
  /\ LET entry == Services[index]
         sound == IsEntry(entry) /\ At(entry, 0) \notin seen_ids
     IN
     /\ Check("entry", Unless(sound, "schemaViolation"), "entry")
     /\ seen_ids' = IF sound THEN SeenAfter(entry) ELSE seen_ids
  /\ index' = index + 1
  /\ UNCHANGED << call, value >>

ServicesDone ==
  /\ step = "entry" /\ index > Len(Services)
  /\ Require("entry", TRUE, "migration")

\* validate_migration
IsMigration(v, own_did) ==
  /\ IsMap(v) /\ HasLabelsIn(v, { 0, 1 }) /\ v[2] # {}
  /\ \A label \in { 0, 1 } :
       IsOptional(v, label, LAMBDA did : Matches(did, "did") /\ did # own_did)

ContactMigration ==
  Require("migration",
          IsOptional(value, 5, LAMBDA v : IsMigration(v, call.own_did)), "extensions")

ContactExtensions ==
  Require("extensions", IsOptional(value, 6, IsExtensionMap), "returned")

\* verify.py looks at the extensions of the record itself in the same way.
RecordExtensions == Require("recordExtensions", IsExtensionMap(value), "returned")

\* is_uri, its part for addresses in brackets, and is_language_tag; "raised" is
\* False, for which all their callers raise.
GrammarOf == [ is_uri |-> URI, is_ipv6 |-> IPV6, is_language_tag |-> LANGUAGE_TAG ]

MatchWord ==
  /\ step \in DOMAIN GrammarOf
  /\ Require(step, FullMatch(GrammarOf[step], value), "returned")

Next ==
  \/ ValidateRecordBody \/ ValidateDescriptor \/ ValidateRevocationKey \/ BuildBody
  \/ ContactLabels \/ ContactSize \/ ContactNames \/ ContactAlsoKnownAs
  \/ ContactServices \/ ServiceEntry \/ ServicesDone \/ ContactMigration
  \/ ContactExtensions \/ RecordExtensions \/ MatchWord

Spec == Init /\ [][Next]_vars
=============================================================================
