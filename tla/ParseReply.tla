----------------------------- MODULE ParseReply -----------------------------
(***************************************************************************)
(* Reading the protobuf data of a reply (parse_reply.rs of cw-utils).  A   *)
(* field is its number and wire type in one byte, a length in base 128,    *)
(* and as many bytes.  Every parser returns a value and the rest of the    *)
(* data, or Failed.                                                        *)
(***************************************************************************)
EXTENDS Integers, SequencesExt, Outcomes

VARINT_MAX_BYTES == 9
LengthDelimited == 2

From(data, n) == SubSeq(data, n, Len(data))

\* Seven bits per byte, the lowest first, up to the first byte below 128.
parse_protobuf_varint(data) ==
    LET last == SelectInSeq(data, LAMBDA b : b < 128)
    IN  IF last = 0 \/ last > VARINT_MAX_BYTES THEN Failed
        ELSE [value |-> FoldRight(LAMBDA b, high : (b % 128) + 128 * high,
                                  SubSeq(data, 1, last), 0),
              rest |-> From(data, last + 1)]

\* Mutant: a field that ends too early is as long as it is.
parse_protobuf_length_prefixed_Short(data, field) ==
    LET size == parse_protobuf_varint(Tail(data))
    IN  IF data = <<>> THEN [value |-> <<>>, rest |-> <<>>]
        ELSE IF data[1] \div 8 # field \/ data[1] % 4 # LengthDelimited \/ size = Failed
             THEN Failed
        ELSE [value |-> SubSeq(size.rest, 1, IF size.value < Len(size.rest) THEN size.value
                                             ELSE Len(size.rest)),
              rest |-> From(size.rest, size.value + 1)]

\* No data at all is an empty field.  Two of the three bits of the wire type are read.
parse_protobuf_length_prefixed(data, field) ==
    LET size == parse_protobuf_varint(Tail(data))
    IN  IF data = <<>> THEN [value |-> <<>>, rest |-> <<>>]
        ELSE IF data[1] \div 8 # field \/ data[1] % 4 # LengthDelimited \/ size = Failed
             THEN Failed
        ELSE IF Len(size.rest) < size.value THEN Failed
        ELSE [value |-> SubSeq(size.rest, 1, size.value),
              rest |-> From(size.rest, size.value + 1)]

\* UTF-8: the sets of bytes that must follow a first byte, one after the other; none
\* when it begins no character.  Their first excludes what is too long, a surrogate, or
\* beyond the last character.
Following(b) ==
    LET next == 128 .. 191
    IN  CASE b < 128                   -> <<>>
          [] b \in 194 .. 223          -> <<next>>
          [] b = 224                   -> <<160 .. 191, next>>
          [] b \in 225 .. 239 \ {237}  -> <<next, next>>
          [] b = 237                   -> <<128 .. 159, next>>
          [] b = 240                   -> <<144 .. 191, next, next>>
          [] b \in 241 .. 243          -> <<next, next, next>>
          [] b = 244                   -> <<128 .. 143, next, next>>
          [] OTHER                     -> <<{}>>

Due(due, b) ==
    IF due = <<>> THEN Following(b) ELSE IF b \in Head(due) THEN Tail(due) ELSE <<{}>>

from_utf8(bytes) == IF FoldLeft(Due, <<>>, bytes) = <<>> THEN bytes ELSE Failed

parse_protobuf_string(data, field) ==
    LET str_field == parse_protobuf_length_prefixed(data, field)
    IN  IF str_field = Failed THEN Failed
        ELSE IF from_utf8(str_field.value) = Failed THEN Failed
        ELSE str_field

parse_protobuf_bytes(data, field) ==
    LET bytes_field == parse_protobuf_length_prefixed(data, field)
    IN  IF bytes_field = Failed THEN Failed
        ELSE [bytes_field EXCEPT !.value = IF @ = <<>> THEN None ELSE @]

parse_instantiate_response_data(data) ==
    LET addr == parse_protobuf_string(data, 1)
        inner == parse_protobuf_bytes(addr.rest, 2)
    IN  IF addr = Failed THEN Failed
        ELSE IF inner = Failed THEN Failed
        ELSE [contract_address |-> addr.value, data |-> inner.value]

parse_execute_response_data(data) ==
    LET inner == parse_protobuf_bytes(data, 1)
    IN  IF inner = Failed THEN Failed ELSE [data |-> inner.value]

\* A reply is the data of the submessage, None without data, or Failed.
parse_reply_instantiate_data(reply) ==
    IF reply \in {Failed, None} THEN Failed ELSE parse_instantiate_response_data(reply)

parse_reply_execute_data(reply) ==
    IF reply \in {Failed, None} THEN Failed ELSE parse_execute_response_data(reply)

-----------------------------------------------------------------------------

\* What encodes the replies: prost leaves out a field that is empty.
varint[n \in Nat] ==
    IF n < 128 THEN <<n>> ELSE <<128 + (n % 128)>> \o varint[n \div 128]

Field(number, bytes) ==
    IF bytes = <<>> THEN <<>>
    ELSE <<8 * number + LengthDelimited>> \o varint[Len(bytes)] \o bytes

encode_instantiate(addr, data) == Field(1, addr) \o Field(2, data)
encode_execute(data) == Field(1, data)

=============================================================================
