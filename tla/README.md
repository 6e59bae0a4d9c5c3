# Followee Python model: TLA+ verification

`src/tools/python-model/followee_model` is a pure library that decides which
Identity Record is current for a `did:flw` identifier. This directory states
what the library promises, models how it does it, checks the models with TLC
and proves the most important results with TLAPS.

Nothing in the library is concurrent, keeps state between calls or does I/O: a
caller passes byte strings, a clock and one bit of carried state, and gets a
value or a `FolloweeError`. What is hard is not scheduling. It is the order in
which a call looks at its inputs (checks that rely on earlier checks, a list
folded in arrival order, three passes over parallel lists that must agree), the
boundaries (clock skew, horizons, sizes, shortest forms, encodings with two
spellings), and what one call may assume of another: on the same envelope with
another clock, order or target, and over time, between devices that stamp
records and a recipient that resolves what reaches it.

## Inventory

| Component | Source | State in a call | Operations |
| --- | --- | --- | --- |
| Candidate selection | `selection.py` | `verified`, `errors`, `root_revoked`, `winner`, `outcomes`, `winner_assigned` | `select_current` |
| Full-record verification | `verify.py` | the decoded body, the selected key | `verify_full_record`, `is_premature` |
| Deterministic CBOR | `detcbor.py` | position, member count, depth | `decode`, `encode` |
| COSE envelope | `cose.py` | the decoded array | `parse_envelope`, `sig_structure`, `build_envelope` |
| Descriptor, public keys | `descriptor.py` | none | `validate_descriptor`, `validate_public_key`, digests |
| DID, multihash, base58 | `did.py`, `base58.py` | position, shift | `parse_did`, `did_from_digest`, `encode`, `decode` |
| Record and contact schemas | `record.py` | the service ids seen | `validate_record_body`, `validate_contact`, ... |
| Field grammars | `syntax.py` | none | `is_uri`, `is_language_tag`, `is_media_type`, `is_service_id`, `is_rel_token` |
| Ed25519 | `ed25519.py` | the decoded points | `sign`, `public_key_from_seed`, `verify_strict` |
| Signer | `signing.py` | none (the caller keeps the last timestamp) | `build_record_body`, `sign_record_body`, `next_timestamp` |
| Error codes | `errors.py` | none | `ErrorCode`, `FolloweeError` |

Interactions: `select_current` calls `verify_full_record` once per candidate and
turns a raised error into the candidate's code. `verify_full_record` calls the
envelope parser, the decoder (and the encoder, to compare the bytes), the
schemas, the DID parser, the descriptor and the signature check, in that order,
and returns or raises the first failure. The caller carries
`SelectionResult.root_revoked` into its next call; the library keeps nothing.
At the other end a signer passes the greatest timestamp it knows, unless that
leads its clock, to `next_timestamp`, builds the body, signs and wraps it. What
connects the two (who publishes, how records travel, what a recipient keeps) is
not in the repository; `Publication` marks it external.

What makes each component correct:

- **Selection**: the winner is the best eligible record, whatever the order and
  the repetition of the candidates; the sticky state is never lost and is entered
  only on a timely revoked record, stale or not; the loop that picks the winner
  and the loop that classifies agree; a bad candidate disturbs nothing but its
  own outcome.
- **Verification**: a record is returned exactly if it has no fault; the code
  raised is that of the first of its faults in the order of the checks; no check runs on an input that an earlier
  check should have refused; the signature is by the key the target commits to.
- **Resolution**, the two together: only the two keys of the target DID decide
  the result.
- **Deterministic CBOR**: what decodes re-encodes to the same bytes; a failure
  has the code of its layer; limits are inclusive.
- **Envelope**: one accepted form, that of `build_envelope`; a code that fits what
  is wrong. **DID**: a digest has one DID. **Schemas**: a value is accepted exactly
  if it is legal, booleans never pass for numbers, and what the signer builds is
  accepted. **Grammars**: each expression matches what its standard describes.
- **Ed25519**: a message, a key and an R have one signature, in one encoding, and
  nothing of small or mixed order passes.
- **Signer and recipient**: a timestamp is later than those its signer knew of;
  a recipient never goes back, from revocation or from a better record it holds,
  and recipients agree in the end.

## Modules

| Module | Contents |
| --- | --- |
| `Basics` | error codes, authority states, `is_premature`, the staleness rule |
| `Records` | candidates, `VerifiedRecord`, `_beats` |
| `SelectionRules` | what `select_current` promises, as functions of its arguments |
| `SelectionContract` | a call of it as its caller sees it: arguments, then the result in one step |
| `Selection` | `select_current`, one action per branch of each loop; invariants; implements `SelectionContract` |
| `SelectionTwice` | two calls on the same envelopes in two arrangements |
| `VerificationRules` | the symbolic record and the rules it must satisfy, without an order |
| `VerificationContract` | a call of `verify_full_record` as its caller sees it |
| `Verification` | `verify_full_record`, one action per step; invariants; implements `VerificationContract` |
| `VerificationTwice` | two calls on one envelope with another target or clock |
| `CborBytes` | bytes, arguments, their shortest forms, byte order, UTF-8; `encode`, as functions of the values of each depth |
| `DetCbor` | `decode`, one action per head read or refused, member counted, item delivered; `TypeOK`, `WithinLimits`, `BytesAccountedFor` |
| `CborReference` | CBOR as RFC 8949 has it and the three layers of validation, stated on whole items |
| `DetCborLayers` | the decoder against the layers |
| `Resolution` | `Selection` with the verdicts that `VerificationRules` allows |
| `Signer` | `next_timestamp` and every history its callers can make with it |
| `Publication` | `Signer` at one end and `SelectionRules` at the other: devices, delivery, a recipient that stores, forgets and resolves |
| `CoseEnvelope` | `parse_envelope`, one action per check, over any decoder that returns what encodes to its input; `build_envelope` |
| `CoseFaults` | the decoder by its layers, and what can be wrong with an envelope taken as one item |
| `Base58`, `Did` | the base58 codec; `parse_did` with the loop of the varint reader, `did_from_digest` |
| `PythonValues`, `RecordSchema` | decoded values; the validators of `record.py` and `descriptor.py`, `build_record_body`, `is_uri`, `is_language_tag` |
| `FieldGrammars` | the regular expressions of `syntax.py`, a matcher, and what the standards say |
| `SchemaConformance` | the validators against Appendix A, written as data |
| `Ed25519` | curve arithmetic, `sign` and `verify_strict` over any field and curve of its shape |
| `...Proofs` | the TLAPS proofs of `Selection` and `SelectionTwice`, `Verification` and `VerificationTwice`, `Resolution`, `DetCbor`, `CoseEnvelope`, `Publication` (with `Signer`), `Did` and `Base58` |
| `NaturalsAndSequences` | induction over the natural numbers, as facts about sets of them; slices, concatenations and flattened sequences |
| `MC...` | the data and the entry points of the runs |

Definitions marked *Variant* are never used by a specification. Each is the
definition below it with one plausible mistake; putting it in that definition's
place makes one of the properties fail (`mutants` in `PROJECT.json`).

### Correspondence with the code

`Selection`: `pc` is the loop being executed and `i` its position. The first
loop is `VerifyCandidate` (the `try`) and `RejectCandidate` (the `except`).
`UpdateAuthorityState` is the `any(...)` over the whole list. The second loop is
`TakeWinner`, `KeepWinner` and `PassOver`, the third one `Classify...` action
per branch, in the code's order of the conditions. `None` is `NoRecord` for a
record and `NoError` for a code. `CandidateOutcome.envelope` repeats the
argument and is left out.

`Verification`: `step` names the check about to run; `Check` is a step that
either raises a code or goes on. A parser the function calls is the verdict
(`NoError` or a code) that the input carries for it: `envelope.profile`
(`cose.parse_envelope`), `envelope.encoding` (`detcbor.decode` and the round
trip), `body.schema`, `target.form` (`parse_did`), `body.descriptor.schema`,
`body.revocationKey.schema` and `.profile`, `body.contact`, `body.extensions`.
The comparisons that `verify.py` makes itself are modelled on the data: ids,
digests, keys, commitments, signer, times and the size. The assertion of step 13
compares two constants of the source that are equal; it is part of
`RequireCommitment`'s lines and adds no branch.

`DetCbor`: the recursion of `decode_item` is `stack`, one frame per array or map
being filled, with the loop counter (`left`) and the locals of the map loop
(`start` is `key_start`, `previous` is `previous_key_bytes`; `wantsKey` says
whether line 223 or line 243 waits for the item). `built` holds `items` and
`result`. `depth` is the number of frames plus one. `pc` is "item" when
`decode_item` is entered, "member" at the top of a loop, "deliver" when an item is
returned to the container that asked for it. What is raised is `verdict`; the
decoder object is dropped with the exception. The bytes of the input are what
the decoder compares, so nothing of the input is abstracted. Two things are
smaller than in Python: lengths and counts from 65536 on are one value (`COUNT_CAP`; no input is
that long), and an argument is its base-256 digits, which keeps all 64 bits.
`raw.decode("utf-8", errors="strict")` is `IsUtf8`, and the `dict` membership test
is `DictKey`, which identifies `False` with 0 and `True` with 1.

`Signer`: `history` is a ghost of all calls for one identity, by whatever device:
the clock it passed, the earlier calls it knew of (any of them), and what came
back. `previous_ms` is not free: it is what the docstring asks of the caller, the
greatest known timestamp that does not lead the clock (`IsPrevious`).

`Publication`: every `Publish` is a call of `next_timestamp` and, if it returns, a
body with that timestamp; `held` is what the recipient keeps, in the order of
arrival; `ResolveHeld` is one call of `select_current`, by its contract `Select`,
which `SelectionProofs` shows it computes. `sticky` is the `root_revoked` handed on.

`CoseEnvelope`: `step` is the next check. The decoder is the parameter `Decodings`, of
which `EnvelopeAssumption` says that a value it returns nests within the limit and
encodes to its input (`DetCborProofs!EnvelopeContractHolds`). In the run it is
`ReferenceDecodings` (the value, or any code of a layer that fails), so the
envelope is checked for whatever `decode` may report; with the header's own
limits for the second decoding of an unexpected protected header, whose codes
all become `schemaViolation`.

`EncodeTo[n]` is `encode` on the values that nest less than `n` levels deep, built level
by level: a recursive function, so that it can be reasoned about. `encode` itself
recurses without a limit, but `decode` returns nothing deeper than `max_depth`.

`Did`: one step per byte of the two varints; `scale` is `1 << shift`. `Base58`: the
digits of a number, leading zeros apart. The base, the size of a byte, the code
and the length of the digest are parameters.

`RecordSchema`: `step` is the next part of `validate_contact`, whose loop over the
services takes one entry a step and carries `seen_ids`; the other validators are
one step each, since they read one value and stop at the first fault with one
code. `Has` and `At` look a key up as a Python dict does: `True` finds 1
(`AsKey`). `ValidateDescriptor` and `ValidateRevocationKey` are the two callers of
`validate_public_key` with their own codes. `MatchWord` is a call of `is_uri`, of the
part of its expression for addresses in brackets, or of `is_language_tag`; where
it returns False its callers raise.

`Ed25519`: the formulas of `_pt_add`, `_decompress` and `_compress` with `% P`, one
action per check of `verify_strict`. The hash may be any number below L, and is the
same for the same bytes.

`CborReference` is not the code: it is the generic CBOR parser (tags, floats,
indefinite lengths, long arguments and all) that gives "well-formed" and "basically
valid" their meaning. `DetCborLayers` compares the decoder with it.

### Data abstraction

In selection, verification, resolution and publication a key is a model value,
and a record its fields; the decoder and the envelope work on bytes.

SHA-256 is injective: a descriptor digest *is* its pair of keys, a commitment
*is* the key, a body digest stands for a body. A signature
names the key that made it and says whether the payload is the signed one;
forging one and the arithmetic behind it are outside the model. Body digests are
numbers since `_beats` compares equal-length byte strings in unsigned order. Clock
values and timestamps are natural numbers without a width: Python's do not
overflow, and the 64-bit bound on label 2 is the schema's. `next_timestamp` does
compare with the greatest 64-bit value; there the width is `UINT64_MAX`.

In the schemas a value is a pair of its Python type and its content; byte strings
are their lengths, texts their UTF-8 length and the grammars they match. In the
grammars a word is a sequence of classes of characters (for language tags, of
subtags) that the expressions cannot tell apart. Scaled down: base58 to base 4
with bytes of six values, and the curve to the field of 29 elements. `DidAssumption` and
`CurveAssumption` name what the originals share with these and the code relies
on: half the bytes continue a varint and the code and the length need one;
`P % 8 = 5` (one square root or the other), `8 * L` above the largest clamped scalar, D
not a square.

## Runs

| Run | Question | Bounds | Distinct states |
| --- | --- | --- | --- |
| `selection` | does `select_current` compute `Select(candidates, now, sticky)`, and mark one winner? | lists of up to 4 of 7 envelopes, clocks 1 and 3, skew 1, both sticky states | 173,672 |
| `selection_twice` | what may depend on arrival order or repetition? | all pairs of lists of up to 3 with one range | 153,920 |
| `selection_order` | does arrival order never affect the winner? (violated) | lists of up to 2 | - |
| `verification` | does `verify_full_record` return exactly the fault-free records? | 5 targets, every combination of ids, descriptors, authority, revealed key and signer over two identities and a mixture, and the two valid records with up to two faults; clocks 1, 2, 4, 5 | 105,840 |
| `verification_twice` | what may the verdict depend on besides the envelope? | the same inputs, every second target and clock | 2,222,640 |
| `resolution` | whose signatures decide the result? | lists of up to 3 of 9 envelopes, clocks 1 and 4 | 41,416 |
| `decoder` | what does `decode` accept, and with which code does it refuse? | every string of up to 3 of 27 bytes, and 2,100 longer ones: two keys or values of 17 kinds in maps and arrays, arguments of two, four and eight bytes at and below their boundary, UTF-8 boundaries, nesting; `max_depth` 2, `max_members` 3 | 80,406 |
| `publication` | do timestamps replace what their signer knew, is a record usable whatever the other devices' clocks, does the recipient never go back, and does it settle? | 3 calls of `next_timestamp` with clocks 0 to 2, `UINT64_MAX` 2, skew 1; a root body for every timestamp, at 1 another and a revoked one | 134,979 |
| `cose` | what does `parse_envelope` accept, and with which code does it refuse? | heads, arrays, headers, payloads, signatures and ends, of which at most two are unsound | 5,348 |
| `did` | does every digest have one DID, and is the code right? | every text of up to 7 digits of base 4, up to 4 with a foreign one; bytes of six values, code 2, length 1, varints of up to 2 bytes | 116,798 |
| `schema` | what do the validators and the grammars accept? | maps with at most two unsound fields, lists of up to 4 services; words of 4 symbols after 8 beginnings, addresses of up to 16 symbols | 674,591 |
| `ed25519` | which signatures does `verify_strict` accept, and in which encoding? | every key, R and S up to 11 on a curve of 40 points, L = 5 | 217,878 |

Why the bounds are enough. In selection, the seven envelopes have every relation
the code can tell apart: a record ahead of the clock, on the bound and behind it,
a tie in time, one body in two envelopes, both authority states, a stale and a
premature revoked record, and a failing candidate. Every branch compares at most
the current candidate, the winner so far and a later copy, so lists of four hold
each pattern with a bystander; the proofs remove the bound. In verification a
run follows one input through a fixed sequence of checks; two simultaneous faults
are enough to see any check run before or after any other. Clocks lie one before,
on and after the future bound and the horizon.

The alphabet of the decoder has a byte on each side of the comparisons that
`detcbor.py` makes on an initial byte or a one-byte argument, and the longer inputs
bring the ones that need two keys, a longer argument or several bytes of text. Three bytes hold a container with two items, a container
in a container, a truncation of each and a trailing byte after each. Depth 2 and 3
members are reached and exceeded, in one container and over several.

What `ClassifiesByLayer` says is weaker than the docstring's "successive layers" on
purpose: an input with faults of several layers gets the code of one of them, as
the docstring (lines 48-53) and Section 6.1.3 of `inputs/v0.8.1` allow. It is stated for
well-formed inputs. An input that is cut short after the head of a forbidden item
(`f9`, `c0`, `5f`) is refused for the item, `nonDeterministicCbor`, before the end
is looked for; it has both faults.

`publication`: three calls are the fewest that let a timestamp repeat (the third in
one millisecond) and that leave a record to go back to when a better one arrives;
the timestamps and the two ties give every order of three bodies, by time and by
digest, and a revoked record before and after root ones. The last timestamp is
reached and exceeded. Clocks out of range are left to `PublicationProofs`, as
are larger histories.

`cose`, `schema`: a validator looks at one part after another and stops at the
first that fails, so two faults are enough to see that no part hides another and
which code wins. Every limit has a value at it and one above it. `did`: seven digits
of base 4 are up to five bytes of six values, so that a digest with one byte more or
less, varints of two bytes, one too long, one not minimal and one cut off, and
leading zeros all occur. `ed25519`:
the curve has all the kinds of points the real one has (the identity, small,
mixed and prime order, x = 0, encodings above P), and S goes beyond 2L.

Words of the grammars grow symbol by symbol (`CallOnLongerWord` in `MCSchema`: the next
call has one symbol more), and start after beginnings that reach the later parts
of an expression. Two symbols that the code would read as one never stand together.

The symbolic data were compared with the library: for every input of `cose`,
every call of `schema` and every word of the grammars, written out as bytes,
dictionaries or text, the Python code gives the answer the model gives; and on the
curve of `ed25519`, with the constants of `ed25519.py` replaced, it accepts the same
set.

Deadlock is not checked where a call that has returned takes no further step. It
is checked in `publication`: the recipient can always resolve.

`selection_order` is the one violated run. `selection.py:4-6` says that the
candidate arrival order never affects the winner. The code keeps the *first* of
two envelopes with one body (`_beats` is strict), and `SelectionResult.winner`
carries that envelope, so the order decides which signature is handed on. The
body, the sticky state and the classification do not depend on it
(`selection_twice`), which is what selection needs.

### Fairness

Only `Publication` assumes fairness, for `Converges`. The calls themselves are sequential
code over finite inputs that waits for nothing, so no run asks whether they return.

`Publication!FairSpec` is about the environment, which the code does not control:
what is published and not held is received (`WF(Deliver)`), time goes on
(`WF(Tick)`), and the recipient resolves again and again (`[]<>answered`: its
answer is infinitely often one for what it holds and its clock now; when these
settle, weak fairness of `ResolveHeld` gives that). `Converges` adds its own
hypothesis, `Settled`: from some time on nothing is forgotten and the clock is not
corrected back. It says nothing of recipients for whom this is not so; the safety
properties need no fairness.

## Proofs

All proofs hold for every value of the constants under the named assumptions,
which say only that constants have their types (`SkewAssumption`,
`RecordsAssumption`, `CallAssumption`, `VerificationAssumption`,
`SignerAssumption`, `Base58Assumption`), that a varint of one
byte holds the code and the length (`DidAssumption`), that inputs and `max_members` stay below `COUNT_CAP`, where the model
stops telling lengths apart (`DecoderAssumption`; `verify_full_record` refuses more than 16 KiB before it decodes,
and no caller allows more than 256 members), that the envelope's decoder
returns what encodes to its input (`EnvelopeAssumption`), that the recipient's
candidates are verified records (`PublicationAssumption`) and, in `Resolution`, that verdicts and record fields come from the envelope's content
(`ResolutionAssumption`, which is what `VerificationProofs!Refinement` proves of
a call). TLC evaluates each of them in a run.

- `SelectionProofs`: `SelectionInv` is inductive. The correctness of the result is
  not inductive, since the result is built in three passes: the invariant says
  what each pass has established for the candidates behind position `i`
  (`VerifiedInv`, `RevokedInv`, `WinnerInv`, `OutcomesInv`). The step that needs an
  argument is the second loop: the winner so far is the *first best* of the
  eligible records looked at, which needs that `_beats` is a strict total order on
  records with different bodies, and that a body determines its timestamp. From the
  invariant: types, `OneWinnerOutcome`, `NoErrorOnlyForWinner`, and that
  `Selection` implements `SelectionContract`.
  For `SelectionTwice`: since both results are those of `Select`, order
  independence is a fact about `Select`. The eligible *records* of two lists with
  one range are the same, and their best has one body; the classification follows
  because the code of a record is a function of the record, the sticky state and
  the winner's body.
- `VerificationProofs`: `VerificationInv` says that each step runs only on inputs
  that passed the steps before it, that a raised code is in `Faults` and is
  `FirstFault`, and that the returned record is the promised one. `Authorised` and
  the refinement of `VerificationContract` follow. The layered lemmas
  (`OuterFaults`, `InnerFaults`, `BodyFaultCodes`, `NoFaultLeft`) connect each check
  with the unordered rules. That a code is *one* of the faults does not say what a
  second call answers; that it is the first one does (`VerdictIsFirstFault`), and the
  three properties of `VerificationTwice` are then about `FirstFault` with another
  target or clock: no check reads the clock, so it decides the two flags only.
- `ResolutionProofs`: a fault-free envelope is signed by the key its authority
  state calls for; `SelectionInv` carries that through the loops to the winner and
  to the sticky state. `StrangersIgnored`: the candidates signed by another key
  are never timely records, so a list without them has the same timely records at
  other positions, in the same order (`InOrder` is the increasing numbering of the
  positions that stay), and `Select` finds the same first best among them.
- `DetCborProofs`: `TypeOK` and `WithinLimits` are inductive together, with `Lists`
  (the lists being filled are sequences over some set, since decoded values have no
  bound on their nesting). `HeadFacts` is what a head that passes establishes: its
  argument is a sequence of bytes, its length a natural number, and it lies within
  the input. Every refusal is one lemma, since all leave through `Raise`.
- `DetCborProofs`, every byte accounted for: `BytesAccountedFor` is a fact about
  the whole stack, and not inductive. What a container announced when it was opened
  must still be what its items and the ones left add up to, which needs the place of
  each frame in its loop (`Loops`) and bounds its count by `max_members`. Then
  `Accounting` says of every open container that its items have an
  encoding at the depth that is left to it, that its current key starts where the
  bytes before it end, that the previous key is the encoding of the last key, and
  that the keys increase. A closed map is therefore already in the order
  `SortedEntries` would put it (`SortedAlready`, from the order of byte strings being
  total and transitive), so that its items as they came are its encoding; that is the only step at which the comparison with the previous
  key alone (detcbor.py:225) is enough. A head read is the one the encoder writes
  (`HeadIsEncoded`: five forms, shortest only), and an encoding at one depth is the same
  at every greater one (`LevelsExtend`). So the encoder makes the input of whatever `decode`
  returns (`ReturnedValueIsEncoded`), which is also what `CoseEnvelope` assumes
  (`EnvelopeContractHolds`).
- `DetCborProofs`, decode against a definition: `Valid(d)` are the values that the
  profile allows (`Sound`, with everything in them) and that nest at most d containers. Nothing
  about it mentions a stack or a position: it is the union of the families in which a
  container's items lie one level down, so no recursion is needed. What is returned
  is valid (`ReturnedValueIsValid`: the items of every open container are valid so
  far, `Validity`). And every valid value is returned from its encoding
  (`ValidIsReturned`), the harder direction, since nothing may be refused: `Path` leads
  from the value, through the items that the open containers are waiting for, to the one
  being read. What is left of the input then begins with that item's encoding
  (`PathAhead`, `NextAhead`), whose head is read as the argument it was made of (`HeadAhead`),
  so each action but one can only go along the path (`ItemFollows`,
  `MemberFollows`, `DeliveryFollows`); no key is refused (`KeyAccepted`) and no byte
  is left over (`AllRead`). The exception is the refusal at `max_members`, which the
  theorem names. Both directions hold for all inputs shorter than `COUNT_CAP` and all limits.
- `EnvelopeProofs`: each check adds one fact about the array to those before it
  (`EnvelopeInv`); at the end they fix all four elements but the payload and the
  signature, and so the bytes.
- `PublicationProofs`, the signers: `TypeOK` and the three properties are inductive
  together: a call
  appends an entry whose relation to those it knows is decided by `NextTimestamp`,
  and earlier entries do not change. They hold for every width, all clocks (out of
  range too) and histories of any length. `NeverRunsAhead` has no run of its own: what
  it is for, `UsableAtOnce`, has.
- `PublicationProofs`, the recipient: the three action properties. The invariant (`PublicationInv`)
  joins the signers' with two parts: a body bears the
  timestamp of its call (`BodiesInv`), and the current record is one of the
  authority that the sticky state calls for (`RecipientInv`). What a call answers is
  `SelectAnswers`: a newest eligible record exists since timely timestamps are
  bounded by the clock (`NewestExists`, from the well-foundedness of the natural
  numbers). `NoRollback` needs that the call which first sees a revocation also has a
  record to answer with; `NoReturnToPredecessor` is `LaterThanKnown` and
  `SelectAnswers` together. `UsableAtOnce` is `NeverRunsAhead` and an
  invariant of its own (`AnsweredInv`): until what the recipient holds or its clock
  changes, its current record is still the newest it can use. `PublicationAssumption`
  says that a candidate is a verified record in one envelope.
- `DidProofs`, base 58: `Number` and `DigitsOf` are recursive functions, and the
  library's theorem on these has an operator for a parameter. So the table of their
  values is built by induction (`PrefixNumbersExist`, `DigitTableExists`), shown to
  be what the definition chooses (`NumberIs`, `DigitsAre`) and to be unique. From
  the equations that follow (`NumberAppend`, `DigitsUnfold`) the two are inverses on
  sequences without a zero in front, zeros in front add nothing to a number, and
  `RecodeBack` puts the two together: for all radixes and lengths recoding
  loses nothing, in either direction. Induction is over sets of naturals
  (`EveryNatural` in `NaturalsAndSequences`).
- `DidProofs`, `parse_did`: `TypeOK`, and `AcceptedIsMultihash` from an invariant that
  relates `value`, `scale` and `count` to the bytes read: a varint that ends below
  `Half` with a last byte that is not zero has one byte. `OneSpelling` adds where the
  reader is in the multihash of a digest (`Genuine`) and, with `RecodeBack`, that the
  text is the encoding of what it decodes to. `UnsupportedOnlyIfSound` needs the
  meaning of the reader's variables: `value` is the number whose digits to the base
  `Half` are the lower halves of the bytes counted, least significant first, and `scale`
  the weight of the next (`ReadsVarints`). A varint the reader ends is the shortest
  spelling of its number (`VarintIs`, `VarintOf`), and one it refuses is no varint
  at all (`RefusedIsNone`), so its verdict decides `IsMultihash`. All of this is for every
  base, size of a byte, cap, code and length.

The type invariants of `Selection`, `DetCbor`, `Signer` and `Did` are proved; runs that
check the invariants built on them do not list them again.

Only model-checked: `Converges` (liveness); which code the decoder and
the envelope parser refuse with, and that the decoder's verdict is that of the reference
reading of RFC 8949 in `CborReference` (`ClassifiesByLayer`, `ReportsAFault`,
`AcceptsExactlyTheProfile`: what is accepted is proved against `Valid` instead); the
validators, the grammars and the curve. The definitions these compare the code with
are `RECURSIVE` operators, on which the prover has no hold.

## Observations

None of these contradicts a statement of the repository; they are where its
guarantees end.

- `next_timestamp`: a caller that excludes a timestamp leading its clock, as it
  must, can be given that timestamp again: at the third record within one
  millisecond by one device, or after its clock was corrected back. The two records
  then tie in time and the digest decides. `LaterThanKnown` states the exact
  condition.
- `next_timestamp` cannot see whether its caller has excluded the timestamps that
  lead its clock. The calls of `Signer` are those of callers that have. What it
  is for is `UsableAtOnce`: with a caller that has not (variant `UsableOfAll`) a device
  with a correct clock stamps a record just after that of a fast one, and if that one
  leads by the skew, a recipient with a correct clock passes it over as premature. Such a caller also takes
  over the last timestamp from a fast device and can stamp no more
  (`ExhaustedOnlyAtTheEnd`).
- A recipient that does not hand `root_revoked` on goes back to root records once
  the record that revoked is gone or premature (variant `ResolveForgetful`).
- `verify_strict`: the test of R for the subgroup is implied by the others, since
  the equation is exact and A is in the subgroup; leaving it out changes no verdict
  (leaving out that of A does).
- `validate_contact` ends with the `ValueError` of `detcbor.encode`, not with a
  `FolloweeError`, when given an integer beyond 64 bits; `decode` never makes one.

## Not modelled

- `syntax.py`: IPvFuture addresses (part of one symbol), media types, relation types
  and service ids: each is one class of characters with a length, and a model would
  repeat the expression. Schemas use them as properties of a text.
- `sig_structure`, `sign_record_body`: wrappers that chain calls modelled elsewhere; a
  signature is over a payload.
- The digests of `descriptor.py`: injective functions in `Verification`.
- The ValueErrors of `encode` and `SimpleValue` on values that `decode` never returns.
- `__init__.py`: re-exports.
- The cryptographic strength of Ed25519 and SHA-256, and what the repository itself
  puts out of scope (HTTP, relays, persistence).
