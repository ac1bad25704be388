----------------------------- MODULE UtilsTests -----------------------------
(***************************************************************************)
(* The unit tests of cw-utils, stated of the operators that model what     *)
(* they test, and what the helpers promise over bounded inputs.            *)
(***************************************************************************)
EXTENDS Durations, NativeBalance, Thresholds, ParseReply

minutes == 60

compare_expiration ==
    /\ partial_cmp(AtHeight(5), AtHeight(10)) = "Less"
    /\ partial_cmp(AtHeight(8), AtHeight(7)) = "Greater"
    /\ partial_cmp(AtTime(555), AtTime(777)) = "Less"
    /\ partial_cmp(AtTime(86), AtTime(100)) = "Less"
    /\ partial_cmp(AtHeight(500000), Never) = "Less"
    /\ partial_cmp(Never, AtTime(500000)) = "Greater"
    /\ partial_cmp(AtTime(1000), AtHeight(230)) = None
    /\ AtTime(1000) # AtHeight(230)

expiration_addition ==
    /\ plus(AtHeight(12345), Height(400)) = AtHeight(12745)
    /\ plus(AtTime(55544433), Time(40300)) = AtTime(55584733)
    /\ plus(Never, Time(40300)) = Never
    /\ plus(AtHeight(12345), Time(1500)) = Failed

block_plus_duration ==
    LET block == [height |-> 1000, time |-> 7777]
    IN  after(Height(456), block) = AtHeight(1456) /\ after(Time(1212), block) = AtTime(8989)

duration_math ==
    /\ duration_plus(Height(444), Height(555)) = Height(999)
    /\ times(DAY, 3) = Time(3 * 24 * 60 * minutes)

compare_schedules ==
    /\ schedule_partial_cmp(AtHeight(5), AtHeight(10)) = "Less"
    /\ schedule_partial_cmp(AtHeight(8), AtHeight(7)) = "Greater"
    /\ schedule_partial_cmp(AtTime(555), AtTime(777)) = "Less"
    /\ schedule_partial_cmp(AtTime(86), AtTime(100)) = "Less"
    /\ schedule_partial_cmp(AtTime(1000), AtHeight(230)) = None

schedule_addition ==
    /\ schedule_plus(AtHeight(12345), Height(400)) = AtHeight(12745)
    /\ schedule_plus(AtTime(55544433), Time(40300)) = AtTime(55584733)
    /\ schedule_plus(AtHeight(12345), Time(1500)) = Failed

-----------------------------------------------------------------------------

\* The denominations of the tests, in the order of their names.
ATOM == 1
BTC == 2
ETC == 3
ETH == 4
uatom == 5
wei == 6

btc_and_eth == <<Coin(555, BTC), Coin(12345, ETH)>>

balance_has_works ==
    /\ has(btc_and_eth, Coin(777, ETH)) /\ has(btc_and_eth, Coin(555, BTC))
    /\ ~has(btc_and_eth, Coin(12346, ETH)) /\ ~has(btc_and_eth, Coin(456, ETC))

balance_add_works ==
    /\ add(btc_and_eth, Coin(54321, ETH)) = <<Coin(555, BTC), Coin(66666, ETH)>>
    /\ add(btc_and_eth, Coin(777, ATOM)) = <<Coin(777, ATOM)>> \o btc_and_eth

balance_in_place_addition ==
    LET two == add(<<Coin(555, BTC)>>, Coin(777, ATOM))
        three == add_all(two, <<Coin(666, ETH), Coin(123, ATOM)>>)
    IN  /\ two = <<Coin(777, ATOM), Coin(555, BTC)>>
        /\ three = <<Coin(900, ATOM), Coin(555, BTC), Coin(666, ETH)>>
        /\ add_all(three, <<Coin(234, BTC)>>) =
             <<Coin(900, ATOM), Coin(789, BTC), Coin(666, ETH)>>

balance_subtract_works ==
    /\ sub(btc_and_eth, Coin(2345, ETH)) = <<Coin(555, BTC), Coin(10000, ETH)>>
    /\ sub(btc_and_eth, Coin(555, BTC)) = <<Coin(12345, ETH)>>
    /\ sub(btc_and_eth, Coin(666, BTC)) = Failed /\ sub(btc_and_eth, Coin(1, ATOM)) = Failed

balance_subtract_saturating_works ==
    /\ sub_saturating(btc_and_eth, Coin(2345, ETH)) = <<Coin(555, BTC), Coin(10000, ETH)>>
    /\ sub_saturating(btc_and_eth, Coin(555, BTC)) = <<Coin(12345, ETH)>>
    /\ sub_saturating(btc_and_eth, Coin(666, BTC)) = <<Coin(12345, ETH)>>
    /\ sub(btc_and_eth, Coin(1, ATOM)) = Failed

normalize_balance ==
    /\ normalize(<<Coin(123, ETH), Coin(0, BTC), Coin(8990, ATOM)>>) =
         <<Coin(8990, ATOM), Coin(123, ETH)>>
    /\ normalize(<<Coin(123, ETH), Coin(789, BTC), Coin(321, ETH), Coin(11, BTC)>>) =
         <<Coin(800, BTC), Coin(444, ETH)>>

atom_payment == <<Coin(100, uatom)>>
eth_payment == <<Coin(100, wei)>>
mixed_payment == <<Coin(50, uatom), Coin(120, wei)>>

nonpayable_works == nonpayable(<<>>) = None /\ nonpayable(atom_payment) = Failed

may_pay_works ==
    /\ may_pay(<<>>, uatom) = 0 /\ may_pay(atom_payment, uatom) = 100
    /\ may_pay(eth_payment, uatom) = Failed /\ may_pay(mixed_payment, uatom) = Failed

must_pay_works ==
    /\ must_pay(atom_payment, uatom) = 100
    /\ \A funds \in {<<>>, <<Coin(0, uatom)>>, eth_payment, mixed_payment} :
         must_pay(funds, uatom) = Failed

-----------------------------------------------------------------------------

validate_quorum_percentage ==
    /\ valid_quorum(percent(0)) = "ZeroQuorumThreshold" /\ valid_quorum(percent(100)) = "Ok"
    /\ valid_quorum(percent(101)) = "UnreachableQuorumThreshold"
    /\ valid_quorum(permille(1001)) = "UnreachableQuorumThreshold"

validate_threshold_percentage ==
    /\ \A n \in {51, 67, 99} : valid_threshold(percent(n)) = "Ok"
    /\ valid_threshold(percent(101)) = "InvalidThreshold"

validate_threshold ==
    /\ validate(AbsoluteCount(0), 5) = "ZeroWeight"
    /\ validate(AbsoluteCount(6), 5) = "UnreachableWeight"
    /\ validate(AbsoluteCount(1), 5) = "Ok" /\ validate(AbsoluteCount(5), 5) = "Ok"
    /\ validate(AbsolutePercentage(percent(0)), 5) = "InvalidThreshold"
    /\ validate(AbsolutePercentage(percent(51)), 5) = "Ok"
    /\ validate(ThresholdQuorum(percent(51), percent(40)), 5) = "Ok"
    /\ validate(ThresholdQuorum(percent(101), percent(40)), 5) = "InvalidThreshold"
    /\ validate(ThresholdQuorum(percent(51), percent(0)), 5) = "ZeroQuorumThreshold"

threshold_response ==
    \A t \in {AbsoluteCount(42), AbsolutePercentage(percent(51)),
              ThresholdQuorum(percent(66), percent(50))} :
        to_response(t, 100) = [threshold |-> t, total_weight |-> 100]

-----------------------------------------------------------------------------

Times(byte, n) == [i \in 1 .. n |-> byte]
abc == <<97, 98, 99>>
rest == <<114, 101, 115, 116>>
test == <<116, 101, 115, 116>>

parse_protobuf_varint_tests ==
    /\ parse_protobuf_varint(<<10>>) = [value |-> 10, rest |-> <<>>]
    /\ parse_protobuf_varint(<<10, 11>>) = [value |-> 10, rest |-> <<11>>]
    /\ parse_protobuf_varint(<<172, 2>>) = [value |-> 300, rest |-> <<>>]
    /\ parse_protobuf_varint(<<172, 2, 12>>) = [value |-> 300, rest |-> <<12>>]
    /\ parse_protobuf_varint(<<>>) = Failed /\ parse_protobuf_varint(<<128>>) = Failed
    /\ parse_protobuf_varint(<<128, 129, 130, 131, 132, 131, 130, 129, 128>>) = Failed

parse_protobuf_length_prefixed_tests ==
    LET parse(data) == parse_protobuf_length_prefixed(data, 1)
        long == <<10, 172, 2>> \o Times(65, 300)
    IN  /\ parse(<<10, 3>> \o abc) = [value |-> abc, rest |-> <<>>]
        /\ parse(<<10, 3>> \o abc \o <<100>>) = [value |-> abc, rest |-> <<100>>]
        /\ parse(long) = [value |-> Times(65, 300), rest |-> <<>>]
        /\ parse(long \o rest) = [value |-> Times(65, 300), rest |-> rest]
        /\ parse(<<10, 1>>) = Failed /\ parse(<<11, 1, 97>>) = Failed
        /\ parse_protobuf_length_prefixed(<<10, 1, 97>>, 2) = Failed

\* The tests of bytes and of strings encode the same data.
Encodings == {test, Times(64, 300)}
remainder == test \o <<95, 114, 101, 109>>

parse_protobuf_bytes_works ==
    /\ parse_protobuf_bytes(Field(1, <<>>), 1).value = None
    /\ \A data \in Encodings, n \in {1, 5} :
         parse_protobuf_bytes(Field(n, data), n).value = data
    /\ parse_protobuf_bytes(<<10, 4>> \o remainder, 1) =
         [value |-> test, rest |-> <<95, 114, 101, 109>>]

parse_protobuf_string_tests ==
    /\ parse_protobuf_string(Field(1, <<>>), 1).value = <<>>
    /\ \A data \in Encodings, n \in {1, 5} :
         parse_protobuf_string(Field(n, data), n).value = data
    /\ parse_protobuf_string(<<10, 4>> \o remainder, 1) =
         [value |-> test, rest |-> <<95, 114, 101, 109>>]
    /\ parse_protobuf_string(Field(1, test \o <<95, 211>>), 1) = Failed

contract_addr == <<67, 111, 110, 116, 114, 97, 99, 116, 32, 35, 49>>

parse_reply_instantiate_data_works ==
    /\ parse_reply_instantiate_data(encode_instantiate(contract_addr, <<>>)) =
         [contract_address |-> contract_addr, data |-> None]
    /\ \A data \in {<<1, 2, 255, 7, 5>>, Times(1, 127), Times(2, 128), Times(3, 257)} :
         parse_reply_instantiate_data(encode_instantiate(contract_addr, data)) =
           [contract_address |-> contract_addr, data |-> data]

parse_reply_execute_data_works ==
    /\ parse_reply_execute_data(encode_execute(<<>>)) = [data |-> None]
    /\ \A data \in {<<1, 2, 3, 127, 15>>, Times(0, 255), Times(1, 256), Times(2, 32769)} :
         parse_reply_execute_data(encode_execute(data)) = [data |-> data]

UtilsTestsPass ==
    /\ compare_expiration /\ expiration_addition /\ block_plus_duration /\ duration_math
    /\ compare_schedules /\ schedule_addition
    /\ balance_has_works /\ balance_add_works /\ balance_in_place_addition
    /\ balance_subtract_works /\ balance_subtract_saturating_works /\ normalize_balance
    /\ nonpayable_works /\ may_pay_works /\ must_pay_works
    /\ validate_quorum_percentage /\ validate_threshold_percentage
    /\ validate_threshold /\ threshold_response
    /\ parse_protobuf_varint_tests /\ parse_protobuf_length_prefixed_tests
    /\ parse_protobuf_bytes_works /\ parse_protobuf_string_tests
    /\ parse_reply_instantiate_data_works /\ parse_reply_execute_data_works

=============================================================================
