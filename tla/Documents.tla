------------------------------ MODULE Documents ------------------------------
(***************************************************************************)
(* The documents of the launcher protocol on the wire (bintel.rs): how one *)
(* is written, framed, read from a stream and parsed under a composition.  *)
(* The model scales the numbers down: a byte is below 2 * HALF, a varint's *)
(* digit is below HALF (2^7), and text is whatever has no byte of HALF or  *)
(* above. A result that may be None is a set of at most one element.       *)
(***************************************************************************)
EXTENDS Integers, Sequences, SequencesExt

CONSTANTS
    HALF,           \* what a digit of a varint stays below
    DIGITS,         \* the whole digits of the widest number,
    TOP,            \* and the greatest it has beyond them: 9 and 1, in 64 bits
    MAGIC,          \* the bytes a document begins with
    signature,      \* signature[depth]: that of the composition of that depth
    LAYERS,         \* what each layer appends: the variant it is appended to, and its kind
    MAXIMUM_LENGTH,
    LARGEST_CHUNK,
    Chunks,         \* the bytes that may be sent as data
    Texts,          \* the texts that may be sent
    Strange,        \* what a strange peer may put in the place of a byte or two
    Sendings        \* bound: documents sent

Bytes == 0..(2 * HALF - 1)

ASSUME DocumentsAssumption ==
    /\ HALF \in Nat \ {0, 1} /\ DIGITS \in Nat /\ TOP \in 1..(HALF - 1)
    /\ MAXIMUM_LENGTH < (TOP + 1) * HALF^DIGITS
    /\ signature \in Seq(Seq(Bytes)) /\ IsInjective(signature)
    /\ Len(signature) = Len(LAYERS) + 1
    /\ Texts \subseteq Seq(0..(HALF - 1)) /\ Sendings \in Nat
    /\ \A chunk \in Chunks : chunk \in Seq(Bytes) /\ Len(chunk) <= LARGEST_CHUNK

VARIABLES
    theirs, ours,   \* the depths of the compositions they write, and we read, under
    wire,           \* bytes sent and not read
    cut,            \* whether nothing more will be sent
    said,           \* the messages sent (history)
    heard,          \* the documents read and parsed
    strange,        \* whether what was sent is not all documents
    reading         \* whether the reader goes on

documentVars == <<theirs, ours, wire, cut, said, heard, strange, reading>>

Depths == DOMAIN signature

From(bytes, n) == SubSeq(bytes, n + 1, Len(bytes))

-----------------------------------------------------------------------------
encode_varint[n \in Nat] ==
    IF n < HALF THEN <<n>> ELSE <<HALF + (n % HALF)>> \o encode_varint[n \div HALF]

\* The digits up to the first that has no continuation, the least significant first.
Digits(bytes) == {n \in DOMAIN bytes : bytes[n] < HALF /\ \A k \in 1..(n - 1) : bytes[k] >= HALF}

Value(bytes, n) == FoldLeft(LAMBDA sum, k : sum + (bytes[k] % HALF) * HALF^(k - 1),
                            0, [k \in 1..n |-> k])

\* Whether the digits up to n make a number of the width there is.
Fits(bytes, n) == n <= DIGITS \/ (n = DIGITS + 1 /\ bytes[n] <= TOP)

\* Mutant: a varint that ends in a digit that adds nothing is accepted.
decode_overlong(bytes) ==
    {[value |-> Value(bytes, n), length |-> n] : n \in {k \in Digits(bytes) : Fits(bytes, k)}}

\* None for an encoding that is truncated, too wide or longer than it need be.
decode_varint(bytes) ==
    {[value |-> Value(bytes, n), length |-> n] :
        n \in {k \in Digits(bytes) : Fits(bytes, k) /\ (k = 1 \/ bytes[k] # 0)}}

\* So many varints, one after another.
RECURSIVE varints(_, _)
varints(bytes, many) ==
    IF many = 0
    THEN {[values |-> <<>>, length |-> 0]}
    ELSE UNION {{[values |-> <<first.value>> \o rest.values,
                  length |-> first.length + rest.length] :
                   rest \in varints(From(bytes, first.length), many - 1)} :
                first \in decode_varint(bytes)}

-----------------------------------------------------------------------------
Variant == [init |-> 0, data |-> 1, end |-> 2, credit |-> 3, open |-> 4, signal_ack |-> 6,
            mode |-> 7, closed |-> 8, exit_status |-> 9, verdict |-> 11, run |-> 13]

\* The members of the base's inbound records, in their order.
base_fields(variant) ==
    CASE variant \in {Variant.data, Variant.credit} -> <<"scalar", "scalar">>
      [] variant \in {Variant.end, Variant.open, Variant.closed, Variant.exit_status} ->
            <<"scalar">>
      [] variant \in {Variant.signal_ack, Variant.verdict} -> <<"flag">>
      [] variant = Variant.mode -> <<"flag", "flag">>
      [] variant = Variant.run -> <<"scalar", "scalar", "scalar">>
      [] OTHER -> <<>>

\* The same, with those that the composition's layers append to them.
members(variant, depth) ==
    LET appended == SelectSeq(SubSeq(LAYERS, 1, depth - 1),
                              LAMBDA layer : layer.owner = variant)
    IN  base_fields(variant) \o [i \in DOMAIN appended |-> appended[i].kind]

field_kind(variant, index, depth) ==
    IF index < Len(members(variant, depth)) THEN members(variant, depth)[index + 1] ELSE "none"

\* Mutant: a flag is written and not counted.
FieldUncounted(record, field, kind) ==
    [count |-> record.count + (IF kind = "flag" THEN 0 ELSE 1),
     bytes |-> record.bytes \o encode_varint[field.index]
               \o (IF kind = "flag" THEN <<>> ELSE encode_varint[Len(field.bytes)] \o field.bytes)]

\* A field that is a flag has no bytes.
Field(record, field, kind) ==
    [count |-> record.count + 1,
     bytes |-> record.bytes \o encode_varint[field.index]
               \o (IF kind = "flag" THEN <<>> ELSE encode_varint[Len(field.bytes)] \o field.bytes)]

Record(variant, fields, depth) ==
    FoldLeft(LAMBDA record, field : Field(record, field, field_kind(variant, field.index, depth)),
             [count |-> 0, bytes |-> <<>>], fields)

document(variant, record, depth) ==
    LET body == encode_varint[1] \o encode_varint[variant] \o encode_varint[record.count]
                \o record.bytes
        signed == encode_varint[Len(signature[depth])] \o signature[depth] \o body
    IN  MAGIC \o encode_varint[Len(signed)] \o signed

-----------------------------------------------------------------------------
\* read_document: "whole", with the bytes it takes, "short" of bytes, or "bad". Its reading
\* of the length lets a digit too many pass, and the top of a digit fall off.
read_document(bytes) ==
    LET digits == From(bytes, Len(MAGIC))
        ends == {n \in Digits(digits) : n <= DIGITS + 1}
        n == CHOOSE end \in ends : TRUE
        declared == Value(digits, n) % ((TOP + 1) * HALF^DIGITS)
        is(what) == [is |-> what, length |-> Len(MAGIC) + n + declared]
    IN  IF Len(bytes) < Len(MAGIC) THEN [is |-> "short"]
        ELSE IF ~IsPrefix(MAGIC, bytes) THEN [is |-> "bad"]
        ELSE IF ends = {} THEN [is |-> IF Len(digits) > DIGITS + 1 THEN "bad" ELSE "short"]
        ELSE IF declared > MAXIMUM_LENGTH THEN [is |-> "bad"]
        ELSE is(IF Len(digits) < n + declared THEN "short" ELSE "whole")

\* The fields of a record of that many, if they end where the bytes do.
RECURSIVE parse_fields(_, _, _, _)
parse_fields(bytes, count, variant, depth) ==
    IF count = 0
    THEN {fields \in {<<>>} : bytes = <<>>}
    ELSE UNION
         {LET kind == field_kind(variant, index.value, depth)
              scalar == From(bytes, index.length)
              rest(value, taken) ==
                {<<[index |-> index.value, bytes |-> value]>> \o fields :
                    fields \in parse_fields(From(scalar, taken), count - 1, variant, depth)}
          IN  CASE kind = "none" -> {}
                [] kind = "flag" -> rest(<<>>, 0)
                [] kind = "scalar" ->
                     UNION {rest(SubSeq(scalar, length.length + 1, length.length + length.value),
                                 length.length + length.value) :
                            length \in {l \in decode_varint(scalar) :
                                           l.length + l.value <= Len(scalar)}} :
          index \in decode_varint(bytes)}

\* What is framed by its length and signed by the composition, and is one message: one child
\* of the root, a variant, and as many fields as it counts.
parse_record(bytes, depth) ==
    LET framed == From(bytes, Len(MAGIC))
        signed == {From(framed, l.length) : l \in
                     {l \in decode_varint(framed) :
                        IsPrefix(MAGIC, bytes) /\ l.value = Len(framed) - l.length}}
        bodies == UNION {{From(part, l.length + l.value) : l \in
                     {l \in decode_varint(part) :
                        /\ l.value = Len(signature[depth])
                        /\ IsPrefix(signature[depth], From(part, l.length))}} : part \in signed}
        heads == UNION {{[values |-> h.values, rest |-> From(body, h.length)] : h \in
                     {h \in varints(body, 3) : h.values[1] = 1}} : body \in bodies}
    IN  UNION {{[variant |-> head.values[2], fields |-> fields] :
                  fields \in parse_fields(head.rest, head.values[3], head.values[2], depth)} :
               head \in heads}

Values(record, index) ==
    LET fields == SelectSeq(record.fields, LAMBDA field : field.index = index)
    IN  [i \in DOMAIN fields |-> fields[i].bytes]

IsText(bytes) == \A i \in DOMAIN bytes : bytes[i] < HALF

HasText(record, index) == Values(record, index) # <<>> /\ IsText(Values(record, index)[1])

\* Text that parses as a number: every byte of a text here is a digit.
HasNumber(record, index) == HasText(record, index) /\ Values(record, index)[1] # <<>>

Complete(record) ==
    CASE record.variant = Variant.data ->
            /\ HasText(record, 0)
            /\ Values(record, 1) # <<>> /\ Len(Values(record, 1)[1]) <= LARGEST_CHUNK
      [] record.variant = Variant.credit -> HasText(record, 0) /\ HasNumber(record, 1)
      [] record.variant \in {Variant.end, Variant.open, Variant.closed} -> HasText(record, 0)
      [] record.variant = Variant.exit_status -> HasNumber(record, 0)
      [] record.variant = Variant.run ->
            /\ HasText(record, 0)
            /\ \A i \in DOMAIN Values(record, 1) : IsText(Values(record, 1)[i])
      [] OTHER -> record.variant \in {Variant.signal_ack, Variant.mode, Variant.verdict}

\* What a record says: of a scalar the first, of a command every argument, of a flag that it
\* is there; a member a layer has added says nothing.
Message(record) ==
    LET base == base_fields(record.variant)
        present == {i \in 0..(Len(base) - 1) : Values(record, i) # <<>>}
        unread == {i \in present : record.variant = Variant.run /\ i = 2 /\ ~HasText(record, i)}
    IN  [variant |-> record.variant,
         says |-> [i \in present \ unread |->
                     IF record.variant = Variant.run /\ i = 1
                     THEN Values(record, i) ELSE <<Values(record, i)[1]>>]]

parse(bytes, depth) == {record \in parse_record(bytes, depth) : Complete(record)}

-----------------------------------------------------------------------------
\* What a peer may say: a record of an inbound variant, members of its composition's layers
\* after the base's.
Records(depth) ==
    LET flag(i) == [index |-> i, bytes |-> <<>>]
        scalar(i, bytes) == [index |-> i, bytes |-> bytes]
        is(variant, fields) == [variant |-> variant, fields |-> fields]
        flags == {<<>>, <<flag(0)>>}
        layered == {[i \in DOMAIN appended |-> flag(2 + i - 1)] :
                      appended \in {SubSeq(members(Variant.mode, depth), 3, n) :
                                      n \in 2..Len(members(Variant.mode, depth))}}
    IN  {is(Variant.data, <<scalar(0, name), scalar(1, chunk)>>) : name \in Texts, chunk \in Chunks}
        \cup {is(variant, <<scalar(0, name)>>) :
                name \in Texts, variant \in {Variant.end, Variant.open, Variant.closed}}
        \cup {is(Variant.credit, <<scalar(0, name), scalar(1, <<1>>)>>) : name \in Texts}
        \cup {is(Variant.exit_status, <<scalar(0, <<1>>)>>)}
        \cup {is(variant, some) : some \in flags, variant \in {Variant.signal_ack, Variant.verdict}}
        \cup {is(Variant.mode, first \o second \o more) :
                first \in flags, second \in {<<>>, <<flag(1)>>}, more \in layered}
        \cup {is(Variant.run, <<scalar(0, <<1>>)>> \o arguments \o pwd) :
                arguments \in {<<>>, <<scalar(1, <<0>>), scalar(1, <<2>>)>>},
                pwd \in {<<>>, <<scalar(2, <<0>>)>>}}

Written(record, depth) ==
    document(record.variant, Record(record.variant, record.fields, depth), depth)

DocumentsInit ==
    /\ theirs \in Depths /\ ours \in Depths
    /\ wire = <<>> /\ cut = FALSE /\ said = <<>> /\ heard = <<>>
    /\ strange = FALSE /\ reading = TRUE

Say ==
    /\ ~cut /\ Len(said) < Sendings
    /\ \E record \in Records(theirs) :
         /\ wire' = wire \o Written(record, theirs)
         /\ said' = Append(said, Message(record))
    /\ UNCHANGED <<theirs, ours, cut, heard, strange, reading>>

\* The connection is lost, with some of what was sent.
Cut ==
    /\ ~cut /\ cut' = TRUE
    /\ \E n \in 0..Len(wire) : wire' = SubSeq(wire, 1, n)
    /\ UNCHANGED <<theirs, ours, said, heard, strange, reading>>

\* A peer that is not a daemon's: a document in which one or two bytes are not the encoder's,
\* or are missing, or are too many.
SayStrangely ==
    /\ ~cut /\ wire = <<>> /\ said = <<>>
    /\ \E record \in Records(theirs) : \E odd \in Strange, drop \in 0..2 :
         LET bytes == Written(record, theirs) IN
         \E at \in 0..(Len(bytes) - drop) :
            wire' = SubSeq(bytes, 1, at) \o odd \o From(bytes, at + drop)
    /\ strange' = TRUE /\ cut' = TRUE
    /\ UNCHANGED <<theirs, ours, said, heard, reading>>

\* One document is read; what does not parse is passed over.
Hear ==
    /\ reading /\ read_document(wire).is = "whole"
    /\ LET bytes == SubSeq(wire, 1, read_document(wire).length)
       IN  heard' = heard \o SetToSeq({[record |-> record, bytes |-> bytes] :
                                          record \in parse(bytes, ours)})
    /\ wire' = From(wire, read_document(wire).length)
    /\ UNCHANGED <<theirs, ours, cut, said, strange, reading>>

\* What is not a document, and a connection that ends before one does, ends the reading.
Stop ==
    /\ reading
    /\ \/ read_document(wire).is = "bad"
       \/ read_document(wire).is = "short" /\ cut
    /\ reading' = FALSE
    /\ UNCHANGED <<theirs, ours, wire, cut, said, heard, strange>>

DocumentsNext == Say \/ Cut \/ SayStrangely \/ Hear \/ Stop

DocumentsSpec == DocumentsInit /\ [][DocumentsNext]_documentVars

-----------------------------------------------------------------------------
\* What is heard under the composition it was written under is what was said, in its order,
\* up to where the connection was lost, and all of it if it was not; under any other
\* composition nothing is heard, and nothing is misread (bintel.rs:17-19).
HeardAsSaid ==
    ~strange =>
        LET messages == [i \in DOMAIN heard |-> Message(heard[i].record)]
        IN  /\ IsPrefix(messages, IF theirs = ours THEN said ELSE <<>>)
            /\ wire = <<>> /\ ~cut /\ theirs = ours => messages = said
            /\ read_document(wire).is # "bad"

\* Whatever a peer sends, a document that is accepted has the bytes the encoder writes for
\* the fields it was parsed into: the reader of the stream lets overlong lengths and lengths
\* too wide through (bintel.rs:243-258), and the parser none of the documents they frame
\* (bintel.rs:147-148).  The fields need not be the encoder's, nor in its order
\* (bintel.rs:161-162): the parser takes them as they come (bintel.rs:340).
Reencodes ==
    \A i \in DOMAIN heard : heard[i].bytes = Written(heard[i].record, ours)
=============================================================================
