-------------------------- MODULE SchemaConformance --------------------------
(***************************************************************************)
(* The validators against the schemas of Appendix A, with the limits and   *)
(* rules of Sections 5.1, 7 and 15.1 that the schemas cannot express.  A   *)
(* schema of a map is a set of fields, each a label, whether it must be    *)
(* there and a type; its labels are integers, never booleans.              *)
(***************************************************************************)
EXTENDS RecordSchema

Required(label, type) == [ label |-> label, required |-> TRUE,  type |-> type ]
Optional(label, type) == [ label |-> label, required |-> FALSE, type |-> type ]

\* A map of body.contact or body.descriptor is only a map until its own turn.
RecordBodySchema ==
  { Required(0, "one"), Required(1, "text"), Required(2, "uint"),
    Required(3, "authority"), Required(4, "map"), Optional(5, "map"),
    Optional(6, "uint"), Required(7, "map"), Optional(8, "map") }

PublicKeySchema  == { Required(0, "suite"), Required(1, "key") }
DescriptorSchema == { Required(0, "one"), Required(1, "publicKey"), Required(2, "key") }

ContactSchema ==
  { Optional(0, "name"), Optional(1, "summary"), Optional(2, "uri"),
    Optional(3, "uris"), Optional(4, "services"), Optional(5, "migration"),
    Optional(6, "extensions") }

ServiceSchema ==
  { Required(0, "serviceId"), Required(1, "serviceType"), Required(2, "uri"),
    Optional(3, "mediaType"), Optional(4, "name"), Optional(5, "language"),
    Optional(6, "rel") }

MigrationSchema == { Optional(0, "otherDid"), Optional(1, "otherDid") }

\* The values found at a label, with the key in its one proper form.
ValuesAt(m, label) == { pair[2] : pair \in { p \in m[2] : p[1] = << "int", label >> } }

TextOf(v, limit, grammars) ==
  v[1] = "text" /\ Utf8Length[v[2]] <= limit
    /\ (grammars = {} \/ Grammar[v[2]] \cap grammars # {})

\* v and everything inside it.
RECURSIVE Inside(_)
Inside(v) ==
  {v} \cup CASE v[1] = "list" -> UNION { Inside(v[2][k]) : k \in DOMAIN v[2] }
             [] v[1] = "map"  -> UNION { Inside(x) : x \in MapValues(v) }
             [] OTHER         -> {}

IsExtension(v) ==
  \A u \in Inside(v) :
    /\ u[1] \in { "int", "bool", "none", "bytes", "text", "list", "map" }
    /\ u[1] = "int" => u[2] \in (-UINT64_MAX - 1)..UINT64_MAX
    /\ u[1] = "map" => \A k \in Keys(u) : k[1] \in { "int", "text" }

RECURSIVE Is(_, _), Conforms(_, _)

Is(v, type) ==
  CASE type = "map"         -> v[1] = "map"
    [] type = "text"        -> v[1] = "text"
    [] type = "one"         -> v = << "int", 1 >>
    [] type = "uint"        -> v[1] = "int" /\ v[2] \in 0..UINT64_MAX
    [] type = "authority"   -> v \in { << "int", 0 >>, << "int", 1 >> }
    [] type = "suite"       -> v = << "int", -19 >>
    [] type = "key"         -> v = << "bytes", 32 >>
    [] type = "publicKey"   -> Conforms(v, PublicKeySchema)
    [] type = "name"        -> TextOf(v, 256, {})
    [] type = "summary"     -> TextOf(v, 2048, {})
    [] type = "uri"         -> TextOf(v, 2048, { "uri" })
    [] type = "serviceId"   -> TextOf(v, 256, { "serviceId" })
    [] type = "mediaType"   -> TextOf(v, 256, { "mediaType" })
    [] type = "language"    -> TextOf(v, 64, { "language" })
    [] type = "rel"         -> TextOf(v, 256, { "uri", "relToken" })
    [] type = "serviceType" -> v \in { AText(t) : t \in SERVICE_TYPE_TOKENS } \/ Is(v, "uri")
    [] type = "uris"        -> /\ v[1] = "list" /\ Len(v[2]) <= MAX_ALSO_KNOWN_AS
                               /\ \A k \in DOMAIN v[2] : Is(v[2][k], "uri")
    [] type = "services"    -> /\ v[1] = "list" /\ Len(v[2]) <= MAX_SERVICES
                               /\ \A k \in DOMAIN v[2] : Conforms(v[2][k], ServiceSchema)
                               /\ \A j, k \in DOMAIN v[2] :
                                    j # k => ValuesAt(v[2][j], 0) # ValuesAt(v[2][k], 0)
    [] type = "otherDid"    -> TextOf(v, 2048, { "did" }) /\ v # call.own_did
    [] type = "migration"   -> Conforms(v, MigrationSchema) /\ v[2] # {}
    [] type = "extensions"  -> /\ v[1] = "map"
                               /\ \A k \in Keys(v) : TextOf(k, 256, { "uri" })
                               /\ \A x \in MapValues(v) : IsExtension(x)

Conforms(v, schema) ==
  /\ v[1] = "map"
  /\ \A k \in Keys(v) : \E field \in schema : k = << "int", field.label >>
  /\ \A field \in schema :
       /\ field.required => ValuesAt(v, field.label) # {}
       /\ \A x \in ValuesAt(v, field.label) : Is(x, field.type)

----------------------------------------------------------------------------
(* Properties.                                                             *)

Ended(function) == call.function = function /\ step \in { "raised", "returned" }

\* What each validator should accept.
IsLegal(function) ==
  CASE function = "body"             -> Conforms(value, RecordBodySchema)
    [] function = "contact"          -> /\ Conforms(value, ContactSchema)
                                        /\ call.size <= MAX_CONTACT_BYTES
    [] function = "descriptor"       -> Conforms(value, DescriptorSchema)
    [] function = "revocationKey"    -> Conforms(value, PublicKeySchema)
    [] function = "recordExtensions" -> Is(value, "extensions")

\* The validators accept exactly what Appendix A and Sections 5.1, 7 and 15.1 allow:
\* validate_record_body to the depth it looks, validate_contact entry by entry and
\* label by label (ids are unique over the whole array, however far apart two
\* entries stand), validate_descriptor, validate_public_key and
\* validate_extension_map.  No boolean passes for a label or a number, nothing
\* unknown is let in and nothing legal is refused.
ValidatorsConform ==
  \A function \in { "body", "contact", "descriptor", "revocationKey", "recordExtensions" } :
    Ended(function) => (error = NoError <=> IsLegal(function))

\* Public keys of sound shape with a foreign suite, or a key of another length.
HasLabels(v, labels) == v[1] = "map" /\ Keys(v) = { << "int", n >> : n \in labels }

ForeignSuite(key) ==
  /\ HasLabels(key, { 0, 1 })
  /\ \A v \in ValuesAt(key, 0) : v[1] = "int" /\ v # << "int", -19 >>

ForeignSize(key) ==
  /\ HasLabels(key, { 0, 1 })
  /\ ValuesAt(key, 0) = { << "int", -19 >> }
  /\ \A v \in ValuesAt(key, 1) : v[1] = "bytes" /\ v # << "bytes", 32 >>

\* A descriptor is reported as of an unsupported suite exactly if that is what the
\* key in it has, and a revealed key as invalid exactly for its suite or its
\* length: the suite decides before the key bytes, so that a suite with keys of
\* another form is not taken for a malformed key, and malformed keys for neither.
KeyCodesTellWhatIsWrong ==
  /\ Ended("descriptor") =>
       (error = "unsupportedSuite" <=>
          /\ HasLabels(value, 0..2) /\ ValuesAt(value, 0) = { << "int", 1 >> }
          /\ \E key \in ValuesAt(value, 1) : ForeignSuite(key))
  /\ Ended("revocationKey") =>
       (error = "invalidRevocationKey" <=> ForeignSuite(value) \/ ForeignSize(value))

\* build_record_body raises exactly if the revocation key does not go with the
\* authority value.  What it builds carries every argument that was given, an empty
\* map or a zero too, and no other; and verifiers accept it if the times fit.
BuiltBodiesConform ==
  Ended("build") =>
    /\ (error = "ValueError" <=>
          \/ call.authority \notin { 0, 1 }
          \/ ~(call.authority = 1 <=> call.revocationKey # None))
    /\ error # "ValueError" =>
         /\ ValuesAt(value, 5) = { call.revocationKey } \ { None }
         /\ ValuesAt(value, 6) = { call.validUntil_ms } \ { None }
         /\ ValuesAt(value, 8) = { call.extensions } \ { None }
         /\ (error = NoError <=> Conforms(value, RecordBodySchema))
    /\ error = "schemaViolation" =>
         \E t \in { AnInt(call.timestamp_ms), call.validUntil_ms } : ~Is(t, "uint") /\ t # None

\* is_uri accepts a text exactly if its five parts are well-formed: the alternatives
\* of hier-part leave no text out, and let none in by reading "//" as a path.
UriIsItsParts == Ended("is_uri") => (error = NoError <=> IsUriByParts(value))

\* The nine alternatives for an address in brackets count their groups to eight,
\* with an elision to at most seven.
Ipv6HasEightGroups == Ended("is_ipv6") => (error = NoError <=> IsEightGroups(value))

\* is_language_tag accepts exactly the tags whose subtags are in order, though the
\* same subtag may be a language, an extlang, a script, a region or a variant.
LanguageTagsAreOrdered ==
  Ended("is_language_tag") =>
    (error = NoError <=> value = << "irregular" >> \/ IsOrderedTag(value))
=============================================================================
