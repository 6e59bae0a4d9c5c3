------------------------------- MODULE DetCbor -------------------------------
(***************************************************************************)
(* decode of followee_model/detcbor.py.  The recursion of decode_item is a *)
(* stack with one frame per array or map being filled; an action is one    *)
(* head that is read or refused, one member counted, one item delivered to *)
(* the container that asked for it.                                        *)
(***************************************************************************)
EXTENDS CborBytes

CONSTANTS
  Inputs,       \* the byte strings a caller may pass
  max_depth,    \* the limits a caller passes
  max_members

\* What verify.py decodes is no longer than MAX_RECORD_BYTES, and no caller allows
\* more than MAX_RECORD_BODY_MEMBERS members: both are below COUNT_CAP.
ASSUME DecoderAssumption ==
  /\ Inputs \subseteq Seq(Byte)
  /\ \A input \in Inputs : Len(input) < COUNT_CAP
  /\ max_depth \in Nat
  /\ max_members \in Nat /\ max_members < COUNT_CAP

VARIABLES
  data,      \* the argument data
  pos,       \* bytes read so far
  members,   \* the members counted so far, in all containers
  stack,     \* the containers being filled, outermost first
  built,     \* their items so far, keys and values of a map in turn
  pc,        \* what runs next
  value,     \* the value decode_item returned last
  verdict    \* the code raised, or "none"

vars == << data, pos, members, stack, built, pc, value, verdict >>

NoValue == << "none", << >> >>

\* left members to come; for a map, whether the next item is a key, where the
\* key starts and the bytes of the key before it.
Frames == [ kind : { "array", "map" }, left : Nat, wantsKey : BOOLEAN,
            start : Nat, previous : Seq(Byte) ]

Init ==
  /\ data \in Inputs
  /\ pos = 0
  /\ members = 0
  /\ stack = << >>
  /\ built = << >>
  /\ pc = "item"
  /\ value = NoValue
  /\ verdict = "none"

\* The decoder is dropped with the exception: the last values of its counters
\* are never seen.
Raise(code) ==
  /\ verdict' = code
  /\ pc' = "done"
  /\ UNCHANGED << data, pos, members, stack, built, value >>

\* decode_item returns v, having read up to position n.
Deliver(v, n) ==
  /\ value' = v
  /\ pos' = n
  /\ pc' = "deliver"
  /\ UNCHANGED << data, members, stack, built, verdict >>

----------------------------------------------------------------------------
(* decode_item up to its contents.                                         *)

Has(n)  == pos + n <= Len(data)   \* _need(n) does not raise
initial == data[pos + 1]
major   == initial \div 32
ai      == initial % 32

\* _decode_major7 returns a simple value.
IsSimple ==
  \/ ai <= 22
  \/ ai = 24 /\ Has(2) /\ data[pos + 2] >= 32

Major7Refusal ==
  CASE ai = 23           -> "nonDeterministicCbor"
    [] ai = 24           -> "invalidCbor"
    [] ai \in 25..27     -> "nonDeterministicCbor"
    [] ai \in 28..31     -> "invalidCbor"

\* An argument follows: the head names a size or holds the argument itself.
argument ==
  IF ai < 24 THEN Digit(ai)
  ELSE Significant(SubSeq(data, pos + 2, pos + 1 + ArgumentSize(ai)))
headSize == IF ai < 24 THEN 1 ELSE 1 + ArgumentSize(ai)

IsHead ==
  /\ ai <= 27
  /\ Has(headSize)
  /\ ai >= 24 => Shortest(ai, argument)

HeadRefusal ==
  CASE ai \in 28..30                   -> "invalidCbor"
    [] ai = 31 /\ major \in 2..5       -> "nonDeterministicCbor"
    [] ai = 31 /\ major \notin 2..5    -> "invalidCbor"
    [] ai <= 27 /\ ~Has(headSize)      -> "invalidCbor"
    [] ai <= 27 /\ Has(headSize)       -> "nonDeterministicCbor"

EndOfInput == pc = "item" /\ ~Has(1) /\ Raise("invalidCbor")

ReadSimple ==
  /\ pc = "item" /\ Has(1) /\ major = 7
  /\ IsSimple
  /\ IF ai = 24 THEN Deliver(<< "simple", data[pos + 2] >>, pos + 2)
                ELSE Deliver(<< "simple", ai >>, pos + 1)

RefuseSimple ==
  pc = "item" /\ Has(1) /\ major = 7 /\ ~IsSimple /\ Raise(Major7Refusal)

RefuseHead ==
  pc = "item" /\ Has(1) /\ major # 7 /\ ~IsHead /\ Raise(HeadRefusal)

AtHead(m) == pc = "item" /\ Has(1) /\ major = m /\ IsHead

ReadInteger ==
  /\ AtHead(0) \/ AtHead(1)
  /\ Deliver(<< IF major = 0 THEN "uint" ELSE "nint", argument >>, pos + headSize)

length == Count(argument)
string == SubSeq(data, pos + headSize + 1, pos + headSize + length)

IsString == Has(headSize + length) /\ (major = 3 => IsUtf8(string))

ReadString ==
  /\ AtHead(2) \/ AtHead(3)
  /\ IsString
  /\ Deliver(<< IF major = 2 THEN "bytes" ELSE "text", string >>, pos + headSize + length)

RefuseString ==
  (AtHead(2) \/ AtHead(3)) /\ ~IsString /\ Raise("invalidCbor")

RefuseTag == AtHead(6) /\ Raise("nonDeterministicCbor")

\* depth in the code is the number of containers around the item, plus one.
RefuseDepth ==
  /\ AtHead(4) \/ AtHead(5)
  /\ Len(stack) + 1 > max_depth
  /\ Raise("schemaViolation")

\* Variant: the limit is checked one level late.
OpenContainerDeeper ==
  /\ AtHead(4) \/ AtHead(5)
  /\ Len(stack) <= max_depth
  /\ stack' = Append(stack, [ kind |-> IF major = 4 THEN "array" ELSE "map",
                              left |-> length, wantsKey |-> FALSE,
                              start |-> 0, previous |-> << >> ])
  /\ built' = Append(built, << >>)
  /\ pos' = pos + headSize
  /\ pc' = "member"
  /\ UNCHANGED << data, members, value, verdict >>

OpenContainer ==
  /\ AtHead(4) \/ AtHead(5)
  /\ Len(stack) + 1 <= max_depth
  /\ stack' = Append(stack, [ kind |-> IF major = 4 THEN "array" ELSE "map",
                              left |-> length, wantsKey |-> FALSE,
                              start |-> 0, previous |-> << >> ])
  /\ built' = Append(built, << >>)
  /\ pos' = pos + headSize
  /\ pc' = "member"
  /\ UNCHANGED << data, members, value, verdict >>

----------------------------------------------------------------------------
(* The loops over the members of an array or a map.                        *)

top   == stack[Len(stack)]
items == built[Len(built)]

WithTop(frame) == [ stack EXCEPT ![Len(stack)] = frame ]
Added(item)    == [ built EXCEPT ![Len(built)] = Append(@, item) ]

\* _count_member, then the next item.
CountMember ==
  /\ pc = "member" /\ top.left > 0
  /\ members + 1 <= max_members
  /\ members' = members + 1
  /\ stack' = WithTop([ top EXCEPT !.left = @ - 1, !.start = pos,
                                   !.wantsKey = top.kind = "map" ])
  /\ pc' = "item"
  /\ UNCHANGED << data, pos, built, value, verdict >>

RefuseMember ==
  /\ pc = "member" /\ top.left > 0
  /\ members + 1 > max_members
  /\ Raise("schemaViolation")

CloseContainer ==
  /\ pc = "member" /\ top.left = 0
  /\ value' = << top.kind, items >>
  /\ stack' = Front(stack)
  /\ built' = Front(built)
  /\ pc' = "deliver"
  /\ UNCHANGED << data, pos, members, verdict >>

keyBytes == SubSeq(data, top.start + 1, pos)

\* Variant: one comparison for both faults of the order.
KeyRefusalMerged ==
  IF top.previous # << >> /\ ~LexLess(top.previous, keyBytes) THEN "nonDeterministicCbor"
  ELSE IF IsContainer(value) THEN "schemaViolation"
  ELSE IF \E k \in DOMAIN items : k % 2 = 1 /\ DictKey(items[k]) = DictKey(value)
       THEN "schemaViolation"
  ELSE "none"

KeyRefusal ==
  IF top.previous # << >> /\ keyBytes = top.previous THEN "invalidCbor"
  ELSE IF top.previous # << >> /\ LexLess(keyBytes, top.previous)
       THEN "nonDeterministicCbor"
  ELSE IF IsContainer(value) THEN "schemaViolation"
  ELSE IF \E k \in DOMAIN items : k % 2 = 1 /\ DictKey(items[k]) = DictKey(value)
       THEN "schemaViolation"
  ELSE "none"

Delivering(wantsKey) == pc = "deliver" /\ stack # << >> /\ top.wantsKey = wantsKey

\* Variant: the bytes of the previous key are not remembered.
TakeKeyForgets ==
  /\ Delivering(TRUE)
  /\ KeyRefusal = "none"
  /\ stack' = WithTop([ top EXCEPT !.wantsKey = FALSE ])
  /\ built' = Added(value)
  /\ pc' = "item"
  /\ UNCHANGED << data, pos, members, value, verdict >>

TakeKey ==
  /\ Delivering(TRUE)
  /\ KeyRefusal = "none"
  /\ stack' = WithTop([ top EXCEPT !.wantsKey = FALSE, !.previous = keyBytes ])
  /\ built' = Added(value)
  /\ pc' = "item"
  /\ UNCHANGED << data, pos, members, value, verdict >>

RefuseKey ==
  Delivering(TRUE) /\ KeyRefusal # "none" /\ Raise(KeyRefusal)

\* The element of an array, or the value under the key just taken.
TakeItem ==
  /\ Delivering(FALSE)
  /\ built' = Added(value)
  /\ pc' = "member"
  /\ UNCHANGED << data, pos, members, stack, value, verdict >>

----------------------------------------------------------------------------
(* decode itself.                                                          *)

RefuseTrailingBytes ==
  /\ pc = "deliver" /\ stack = << >>
  /\ pos # Len(data)
  /\ Raise("invalidCbor")

ReturnValue ==
  /\ pc = "deliver" /\ stack = << >>
  /\ pos = Len(data)
  /\ pc' = "done"
  /\ UNCHANGED << data, pos, members, stack, built, value, verdict >>

Next ==
  \/ EndOfInput
  \/ ReadSimple \/ RefuseSimple
  \/ RefuseHead
  \/ ReadInteger
  \/ ReadString \/ RefuseString
  \/ RefuseTag
  \/ OpenContainer \/ RefuseDepth
  \/ CountMember \/ RefuseMember \/ CloseContainer
  \/ TakeKey \/ RefuseKey \/ TakeItem
  \/ RefuseTrailingBytes \/ ReturnValue

Spec == Init /\ [][Next]_vars

----------------------------------------------------------------------------
(* Properties.                                                             *)

Codes == { "none", "invalidCbor", "nonDeterministicCbor", "schemaViolation" }

\* The variables of the decoder have their types and each open container has
\* its list of items.
TypeOK ==
  /\ data \in Seq(Byte)
  /\ pos \in Nat
  /\ members \in Nat
  /\ stack \in Seq(Frames)
  /\ Len(built) = Len(stack)
  /\ pc \in { "item", "deliver", "member", "done" }
  /\ verdict \in Codes
  /\ pc = "member" => stack # << >>

\* decode_item never looks past the input, and no count or length that an input
\* declares makes it exceed the limits of its caller: it is never inside more
\* than max_depth containers and never starts more than max_members members.
WithinLimits ==
  /\ pos <= Len(data)
  /\ members <= max_members
  /\ Len(stack) <= max_depth

\* The encoder on the values that decode can build.
Encoded(v) == EncodeTo[max_depth + 1][v]

\* The k-th open container is between two of its members only if it is the
\* innermost one and the next member has not been counted.
Reading(k) == k < Len(stack) \/ pc # "member"

\* The members of an open container, started or not: of a map, a key without its
\* value is half a member, and the one being read is in no list yet.
Announced(k) ==
  stack[k].left
    + (IF stack[k].kind = "array" THEN Len(built[k]) ELSE Len(built[k]) \div 2)
    + (IF Reading(k) THEN 1 ELSE 0)

\* What has been read of an open container: its head and its items so far.
Started(k) ==
  EncodeHead(IF stack[k].kind = "array" THEN 4 ELSE 5, LengthDigits(Announced(k)))
    \o FlattenSeq([ j \in DOMAIN built[k] |-> Encoded(built[k][j]) ])

\* At every moment the bytes read so far are exactly the encoding of what has
\* been built from them, in the order it was built: nothing is skipped, repeated
\* or read in a second form.  So a value that decode returns encodes to its
\* input, and the internal error of verify_full_record is never raised.
BytesAccountedFor ==
  /\ pc # "done" /\ (\A k \in DOMAIN stack : Announced(k) < COUNT_CAP) =>
       SubSeq(data, 1, pos)
         = FlattenSeq([ k \in DOMAIN stack |-> Started(k) ])
             \o IF pc = "deliver" THEN Encoded(value) ELSE << >>
  /\ pc = "done" /\ verdict = "none" => Encoded(value) = data

=============================================================================
