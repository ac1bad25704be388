------------------------------ MODULE MapTests ------------------------------
(***************************************************************************)
(* The unit tests of the encodings of storage-plus (helpers.rs,            *)
(* legacy_helpers.rs, iter_helpers.rs, int_key.rs, keys.rs, de.rs,         *)
(* de_old.rs, keys_old.rs, prefix.rs) and of its items and maps (item.rs,  *)
(* map.rs), evaluated on Keys and Maps: a test is what it asserts, under   *)
(* its own name.  A text is its bytes, and a key of the tests of maps is   *)
(* the sequence of its parts.                                              *)
(***************************************************************************)
EXTENDS Maps

hello == <<104, 101, 108, 108, 111>>
foo == <<102, 111, 111>>
bar == <<98, 97, 114>>
zoom == <<122, 111, 111, 109>>
snowy == <<115, 110, 111, 119, 121>>
moon == <<109, 111, 111, 110>>
random == <<114, 97, 110, 100, 111, 109>>
begin == <<98, 101, 103, 105, 110>>
end == <<101, 110, 100>>

Repeated(byte, n) == [i \in 1 .. n |-> byte]

\* A storage with some records, last come last.
WithRecords(records) == FoldLeft(LAMBDA s, r : set(s, r[1], r[2]), <<>>, records)

-----------------------------------------------------------------------------
(* Lengths.                                                                *)

encode_length_works ==
    /\ encode_length(<<>>) = <<0, 0>>
    /\ encode_length(<<97, 97, 97>>) = <<0, 3>>
    /\ encode_length(Repeated(1, 255)) = <<0, 255>>
    /\ encode_length(Repeated(1, 256)) = <<1, 0>>
    /\ encode_length(Repeated(1, 12345)) = <<48, 57>>
    /\ encode_length(Repeated(1, 65535)) = <<255, 255>>

to_length_prefixed_works ==
    /\ to_length_prefixed(<<>>) = <<0, 0>>
    /\ to_length_prefixed(<<97>>) = <<0, 1, 97>>
    /\ to_length_prefixed(<<97, 98, 99>>) = <<0, 3, 97, 98, 99>>

to_length_prefixed_works_for_long_prefix ==
    \A n \in {256, 30000, 65535} :
        LET prefix == to_length_prefixed(Repeated(0, n))
        IN  Len(prefix) = n + 2 /\ parse_length(prefix) = n

to_length_prefixed_nested_works ==
    /\ to_length_prefixed_nested(<<>>) = <<>>
    /\ to_length_prefixed_nested(<<<<>>, <<>>>>) = <<0, 0, 0, 0>>
    /\ to_length_prefixed_nested(<<<<97>>, <<97, 98>>, <<97, 98, 99>>>>)
         = <<0, 1, 97, 0, 2, 97, 98, 0, 3, 97, 98, 99>>

\* The limit is on each namespace, not on the combination of them.
to_length_prefixed_nested_allows_many_long_namespaces ==
    LET long == <<Repeated(170, 65533), Repeated(187, 65534), Repeated(204, 65535)>>
        prefix == to_length_prefixed_nested(long)
    IN  /\ HeadPart(prefix) = long[1]
        /\ HeadPart(AfterHead(prefix)) = long[2]
        /\ HeadPart(AfterHead(AfterHead(prefix))) = long[3]

prefix_get_set ==
    LET storage == set(<<>>, concat(to_length_prefixed(foo), bar), "gotcha")
    IN  /\ get(storage, concat(to_length_prefixed(foo), bar)) = "gotcha"
        /\ get(storage, concat(to_length_prefixed(Front(foo)), <<111>> \o bar)) = None

-----------------------------------------------------------------------------
(* Integers and composite keys.                                            *)

x8_int_key_works ==
    /\ cw_uint_to_cw_bytes(1, 66) = <<66>>
    /\ cw_int_to_cw_bytes(1, 66) = <<194>>
    /\ cw_int_to_cw_bytes(1, -62) = <<66>>

x16_int_key_works ==
    /\ cw_uint_to_cw_bytes(2, 16963) = <<66, 67>>
    /\ cw_int_to_cw_bytes(2, 16963) = <<194, 67>>
    /\ cw_int_to_cw_bytes(2, -15805) = <<66, 67>>

x32_int_key_works ==
    /\ cw_uint_to_cw_bytes(4, 4342596) = <<0, 66, 67, 68>>
    /\ cw_int_to_cw_bytes(4, 4342596) = <<128, 66, 67, 68>>
    /\ cw_int_to_cw_bytes(4, -2143141052) = <<0, 66, 67, 68>>

x64_int_key_works ==
    /\ cw_uint_to_cw_bytes(8, 1111704645) = <<0, 0, 0, 0, 66, 67, 68, 69>>
    /\ cw_int_to_cw_bytes(8, 1111704645) = <<128, 0, 0, 0, 66, 67, 68, 69>>

unsigned_int_key_order ==
    BytesBefore(cw_uint_to_cw_bytes(4, 0), cw_uint_to_cw_bytes(4, 652))

signed_int_key_order ==
    /\ BytesBefore(cw_int_to_cw_bytes(4, -321), cw_int_to_cw_bytes(4, 0))
    /\ BytesBefore(cw_int_to_cw_bytes(4, 0), cw_int_to_cw_bytes(4, 652))

i32key_old_works ==
    /\ IntKeyOld(4, 4242) = to_be_bytes(4, 4242)
    /\ IntKeyOld_from_vec(IntKeyOld(4, -4242), TRUE) = -4242

deserialize_naked_integer_works ==
    /\ cw_uint_from_cw_bytes(<<1, 0>>) = 256
    /\ cw_uint_from_cw_bytes(<<1, 0, 0, 0>>) = 16777216
    /\ \A width \in {1, 2, 4, 8, 16} :
         /\ cw_int_from_cw_bytes(<<128>> \o Repeated(0, width - 1)) = 0
         /\ cw_int_from_cw_bytes(<<127>> \o Repeated(255, width - 1)) = -1

deserialize_integer_old_works ==
    /\ IntKeyOld_from_vec(<<1>>, FALSE) = 1
    /\ IntKeyOld_from_vec(<<127>>, TRUE) = 127
    /\ IntKeyOld_from_vec(<<128>>, TRUE) = -128
    /\ IntKeyOld_from_vec(<<128, 0>>, TRUE) = -32768
    /\ IntKeyOld_from_vec(<<127, 255>>, TRUE) = 32767
    /\ IntKeyOld_from_vec(<<127, 255, 255, 255>>, TRUE) = 2147483647
    /\ IntKeyOld_from_vec(Repeated(255, 16), TRUE) = -1

naked_8bit_prefixes ==
    /\ joined_prefix(<<cw_uint_to_cw_bytes(1, 123), random>>)
         = <<0, 1, 123>> \o to_length_prefixed(random)
    /\ joined_prefix(<<cw_int_to_cw_bytes(1, 123), random>>)
         = <<0, 1, 251>> \o to_length_prefixed(random)

naked_16bit_prefixes ==
    /\ joined_prefix(<<cw_uint_to_cw_bytes(2, 12345)>>) = <<0, 2, 48, 57>>
    /\ joined_prefix(<<cw_int_to_cw_bytes(2, 12345)>>) = <<0, 2, 176, 57>>

naked_64bit_prefixes ==
    /\ joined_prefix(<<cw_uint_to_cw_bytes(8, 12345)>>) = <<0, 8, 0, 0, 0, 0, 0, 0, 48, 57>>
    /\ joined_prefix(<<cw_int_to_cw_bytes(8, 12345)>>)
         = <<0, 8, 128, 0, 0, 0, 0, 0, 48, 57>>

naked_proper_prefixes ==
    joined_prefix(<<begin, cw_uint_to_cw_bytes(4, 12345), end>>)
      = to_length_prefixed(begin) \o <<0, 4, 0, 0, 48, 57>> \o to_length_prefixed(end)

str_key_works == joined_key(<<hello>>) = hello

deserialize_tuple_works == from_vec(2, joined_key(<<hello, hello>>)) = <<hello, hello>>

deserialize_triple_works ==
    LET triple == <<hello, cw_uint_to_cw_bytes(4, 1234), hello>>
    IN  from_vec(3, joined_key(triple)) = triple

-----------------------------------------------------------------------------
(* Ranges over bytes.                                                      *)

\* The next prefix is one of a longer name, or of one that ends before a carry.
test_range ==
    LET prefix == to_length_prefixed(foo)
        storage == WithRecords(<<<<concat(prefix, bar), "none">>,
                                 <<concat(prefix, snowy), "day">>,
                                 <<concat(to_length_prefixed(Append(foo, 100)), moon), "buggy">>>>)
    IN  /\ range_with_prefix(storage, prefix, None, None, "Descending")
             = <<<<snowy, "day">>, <<bar, "none">>>>
        /\ InOrder(DOMAIN storage, BytesBefore)[1] = concat(prefix, bar)

Wrapping == <<102, 255, 255>>
AroundWrapping ==
    LET prefix == to_length_prefixed(Wrapping)
    IN  WithRecords(<<<<concat(prefix, bar), "none">>, <<concat(prefix, snowy), "day">>,
                      <<concat(to_length_prefixed(<<102, 255, 68>>), moon), "buggy">>>>)

test_range_with_prefix_wrapover ==
    range_with_prefix(AroundWrapping, to_length_prefixed(Wrapping), None, None, "Descending")
      = <<<<snowy, "day">>, <<bar, "none">>>>

\* Here a start is inclusive and an end exclusive.
test_range_with_start_end_set ==
    LET between(start, finish) ==
          range_with_prefix(AroundWrapping, to_length_prefixed(Wrapping), InclusiveRaw(start),
                            finish, "Ascending")
    IN  /\ between(<<98>>, ExclusiveRaw(<<99>>)) = <<<<bar, "none">>>>
        /\ between(<<98, 97, 115>>, ExclusiveRaw(<<115, 110, 111>>)) = <<>>
        /\ between(<<97, 110, 116>>, None) = <<<<bar, "none">>, <<snowy, "day">>>>

test_namespace_upper_bound ==
    /\ increment_last_byte(<<98, 111, 98>>) = <<98, 111, 99>>
    /\ increment_last_byte(<<102, 111, 254>>) = <<102, 111, 255>>
    /\ increment_last_byte(<<102, 111, 255>>) = <<102, 112, 0>>
    /\ increment_last_byte(<<102, 111, 255, 255, 255>>) = <<102, 112, 0, 0, 0>>
    /\ increment_last_byte(<<255, 97, 98, 99>>) = <<255, 97, 98, 100>>

ensure_proper_range_bounds ==
    LET ra == <<114, 97>>
        zi == <<122, 105>>
        storage == WithRecords(<<<<foo \o bar, 1>>, <<foo \o ra, 2>>, <<foo \o zi, 3>>,
                                 <<<<102, 111, 112, 108, 121>>, 100>>, <<<<102, 111, 110, 116>>, 200>>>>)
        expected == <<<<bar, 1>>, <<ra, 2>>, <<zi, 3>>>>
        found(min, max) == range_raw(storage, foo, min, max, "Ascending")
        reversed(min, max) == range_raw(storage, foo, min, max, "Descending")
    IN  /\ found(None, None) = expected
        /\ reversed(None, None) = Reverse(expected)
        /\ found(InclusiveRaw(ra), None) = SubSeq(expected, 2, 3)
        /\ found(ExclusiveRaw(ra), None) = SubSeq(expected, 3, 3)
        /\ found(ExclusiveRaw(<<114>>), None) = SubSeq(expected, 2, 3)
        /\ reversed(None, InclusiveRaw(ra)) = <<expected[2], expected[1]>>
        /\ reversed(None, ExclusiveRaw(ra)) = <<expected[1]>>
        /\ reversed(None, ExclusiveRaw(<<114, 98>>)) = <<expected[2], expected[1]>>
        /\ found(InclusiveRaw(ra), ExclusiveRaw(zi)) = <<expected[2]>>
        /\ reversed(InclusiveRaw(ra), ExclusiveRaw(zi)) = <<expected[2]>>
        /\ reversed(InclusiveRaw(ra), InclusiveRaw(zi)) = <<expected[3], expected[2]>>
        /\ found(ExclusiveRaw(ra), ExclusiveRaw(zi)) = <<>>

-----------------------------------------------------------------------------

KeyTestsPass ==
    /\ encode_length_works
    /\ to_length_prefixed_works /\ to_length_prefixed_works_for_long_prefix
    /\ to_length_prefixed_nested_works
    /\ to_length_prefixed_nested_allows_many_long_namespaces
    /\ prefix_get_set
    /\ x8_int_key_works /\ x16_int_key_works /\ x32_int_key_works /\ x64_int_key_works
    /\ unsigned_int_key_order /\ signed_int_key_order
    /\ i32key_old_works
    /\ deserialize_naked_integer_works /\ deserialize_integer_old_works
    /\ naked_8bit_prefixes /\ naked_16bit_prefixes /\ naked_64bit_prefixes
    /\ naked_proper_prefixes
    /\ str_key_works
    /\ deserialize_tuple_works /\ deserialize_triple_works
    /\ test_range /\ test_range_with_prefix_wrapover /\ test_range_with_start_end_set
    /\ test_namespace_upper_bound
    /\ ensure_proper_range_bounds

-----------------------------------------------------------------------------
(* Items and maps.                                                         *)

john == <<106, 111, 104, 110>>
jim == <<106, 105, 109>>
ada == <<97, 100, 97>>
jack == <<106, 97, 99, 107>>
maria == <<109, 97, 114, 105, 97>>
pedro == <<112, 101, 100, 114, 111>>
owner == <<111, 119, 110, 101, 114>>
owner2 == owner \o <<50>>
spender == <<115, 112, 101, 110, 100, 101, 114>>
spender2 == spender \o <<50>>
recipient == <<114, 101, 99, 105, 112, 105, 101, 110, 116>>
recipient2 == recipient \o <<50>>
recipient3 == recipient \o <<51>>

\* What the tests keep, by its namespace.
CONFIG == <<99, 111, 110, 102, 105, 103>>
PEOPLE == <<112, 101, 111, 112, 108, 101>>
SIGNED_ID == <<115, 105, 103, 110, 101, 100, 95, 105, 100>>
ALLOWANCE == <<97, 108, 108, 111, 119>>
TRIPLE == <<116, 114, 105, 112, 108, 101>>
AGES == <<97, 103, 101, 115>>

Data(name, age) == [name |-> name, age |-> age]
John == Data("John", 32)
Jim == Data("Jim", 44)
Ada == Data("Ada", 23)
Jules == Data("Jules", 55)
Config(max_tokens) == [owner |-> "admin", max_tokens |-> max_tokens]

\* A storage in which a map was given some records, one after another.
Saved_(namespace, records) ==
    FoldLeft(LAMBDA s, r : save(s, Path(namespace, r[1]), r[2]), <<>>, records)

all(s, namespace, parts) ==
    range(s, Prefix(namespace, <<>>), parts, None, None, "Ascending")
from(s, namespace, parts, min) ==
    range(s, Prefix(namespace, <<>>), parts, min, None, "Ascending")

\* The records of one-part keys, each with the integer that its key is.
AsIntegers(records, from_bytes(_)) ==
    MapEach(records, LAMBDA record : <<from_bytes(record[1][1]), record[2]>>)

u32(n) == cw_uint_to_cw_bytes(4, n)
i32(n) == cw_int_to_cw_bytes(4, n)
u8(n) == cw_uint_to_cw_bytes(1, n)

-----------------------------------------------------------------------------
(* Items.                                                                  *)

Stored_(value) == save(<<>>, ItemPath(CONFIG), value)
config_in(s) == may_load(s, ItemPath(CONFIG))
doubled(c) == [c EXCEPT !.max_tokens = 2 * @]

item_save_and_load ==
    /\ load(<<>>, ItemPath(CONFIG)) = NotFound /\ config_in(<<>>) = None
    /\ load(Stored_(Config(1234)), ItemPath(CONFIG)) = Config(1234)

item_remove_works ==
    LET removed == remove(Stored_(Config(1234)), ItemPath(CONFIG))
    IN  /\ config_in(removed) = None
        /\ config_in(remove(removed, ItemPath(CONFIG))) = None

item_isolated_reads ==
    may_load(Stored_(Config(1234)), ItemPath(CONFIG \o <<50>>)) = None

item_update_success ==
    config_in(item_update(Stored_(Config(1234)), ItemPath(CONFIG), doubled)) = Config(2468)

item_update_does_not_change_data_on_error ==
    config_in(item_update(Stored_(Config(1234)), ItemPath(CONFIG), LAMBDA c : Failed))
      = Config(1234)

item_update_supports_custom_errors ==
    LET action(c) == IF c.max_tokens > 20 THEN Failed
                     ELSE [c EXCEPT !.max_tokens = @ + 20]
    IN  config_in(item_update(Stored_(Config(1234)), ItemPath(CONFIG), action))
          = Config(1234)

item_readme_works ==
    LET updated == item_update(Stored_(Config(1234)), ItemPath(CONFIG), doubled)
        failed == item_update(updated, ItemPath(CONFIG), LAMBDA c : Failed)
    IN  /\ config_in(failed) = Config(2468)
        /\ config_in(remove(failed, ItemPath(CONFIG))) = None

-----------------------------------------------------------------------------
(* Paths and single records.                                               *)

create_path ==
    /\ Path(PEOPLE, <<john>>) = <<0, 6>> \o PEOPLE \o john
    /\ Path(ALLOWANCE, <<john, maria>>)
         = <<0, 5>> \o ALLOWANCE \o <<0, 4>> \o john \o maria
    /\ Path(TRIPLE, <<john, u8(8), pedro>>)
         = <<0, 6>> \o TRIPLE \o <<0, 4>> \o john \o <<0, 1, 8>> \o pedro

save_and_load ==
    LET made == Saved_(PEOPLE, <<<<<<john>>, John>>>>)
    IN  /\ load(made, Path(PEOPLE, <<john>>)) = John
        /\ may_load(made, Path(PEOPLE, <<jack>>)) = None
        /\ may_load(remove(made, Path(PEOPLE, <<john>>)), Path(PEOPLE, <<john>>)) = None

existence ==
    LET made == set(remove(Saved_(PEOPLE, <<<<<<john>>, John>>, <<<<jim>>, John>>>>),
                            Path(PEOPLE, <<jim>>)),
                     Path(PEOPLE, <<ada>>), "random-data")
    IN  /\ has(made, Path(PEOPLE, <<john>>)) /\ has(made, Path(PEOPLE, <<ada>>))
        /\ ~has(made, Path(PEOPLE, <<jack>>)) /\ ~has(made, Path(PEOPLE, <<jim>>))

\* The parts are told apart even if their concatenation is the same.
composite_keys ==
    LET made == Saved_(ALLOWANCE, <<<<<<owner, spender>>, 1234>>>>)
        pender == Tail(spender)
    IN  /\ load(made, Path(ALLOWANCE, <<owner, spender>>)) = 1234
        /\ may_load(made, Path(ALLOWANCE, <<Append(owner, 115), pender>>)) = None

triple_keys ==
    LET made == Saved_(TRIPLE, <<<<<<owner, u8(10), recipient>>, 1234>>>>)
    IN  /\ load(made, Path(TRIPLE, <<owner, u8(10), recipient>>)) = 1234
        /\ may_load(made, Path(TRIPLE, <<Append(owner, 115), u8(10), Tail(recipient)>>))
             = None

basic_update ==
    LET add_ten(value) == (IF value = None THEN 0 ELSE value) + 10
        path == Path(ALLOWANCE, <<owner, spender>>)
    IN  load(update(update(<<>>, path, add_ten), path, add_ten), path) = 20

readme_works ==
    LET birthday(d) == IF d = None THEN Data("Newborn", 0) ELSE [d EXCEPT !.age = @ + 1]
        made == Saved_(PEOPLE, <<<<<<john>>, John>>>>)
        older == update(made, Path(PEOPLE, <<john>>), birthday)
        both == update(older, Path(PEOPLE, <<jack>>), birthday)
    IN  /\ load(both, Path(PEOPLE, <<john>>)) = Data("John", 33)
        /\ load(both, Path(PEOPLE, <<jack>>)) = Data("Newborn", 0)
        /\ may_load(remove(both, Path(PEOPLE, <<john>>)), Path(PEOPLE, <<john>>)) = None

readme_works_with_path ==
    LET path == Path(ALLOWANCE, <<owner, spender>>)
        made == Saved_(ALLOWANCE, <<<<<<owner, spender>>, 1234>>>>)
    IN  load(update(made, path, LAMBDA x : 2 * x), path) = 2468

-----------------------------------------------------------------------------
(* Ranges.                                                                 *)

range_raw_simple_key ==
    LET made == Saved_(PEOPLE, <<<<<<john>>, John>>, <<<<jim>>, Jim>>>>)
        raw(min) == range_raw(made, Prefix(PEOPLE, <<>>), min, None, "Ascending")
    IN  /\ raw(None) = <<<<jim, Jim>>, <<john, John>>>>
        /\ raw(inclusive(<<<<106>>>>)) = <<<<jim, Jim>>, <<john, John>>>>
        /\ raw(inclusive(<<<<106, 111>>>>)) = <<<<john, John>>>>

range_simple_string_key ==
    LET made == Saved_(PEOPLE, <<<<<<john>>, John>>, <<<<jim>>, Jim>>, <<<<ada>>, Ada>>>>)
    IN  /\ all(made, PEOPLE, 1)
             = <<<<<<ada>>, Ada>>, <<<<jim>>, Jim>>, <<<<john>>, John>>>>
        /\ from(made, PEOPLE, 1, inclusive(<<<<106>>>>))
             = <<<<<<jim>>, Jim>>, <<<<john>>, John>>>>
        /\ from(made, PEOPLE, 1, inclusive(<<<<106, 111>>>>)) = <<<<<<john>>, John>>>>

range_simple_integer_key ==
    LET made == Saved_(PEOPLE, <<<<<<u32(1234)>>, John>>, <<<<u32(56)>>, Jim>>>>)
        above(min) == AsIntegers(from(made, PEOPLE, 1, min), cw_uint_from_cw_bytes)
    IN  /\ above(None) = <<<<56, Jim>>, <<1234, John>>>>
        /\ above(inclusive(<<u32(56)>>)) = <<<<56, Jim>>, <<1234, John>>>>
        /\ above(inclusive(<<u32(57)>>)) = <<<<1234, John>>>>

range_simple_signed_integer_key ==
    LET made == Saved_(SIGNED_ID, <<<<<<i32(-1234)>>, John>>, <<<<i32(-56)>>, Jim>>,
                                     <<<<i32(50)>>, Jules>>>>)
        between(min, max, order) ==
            AsIntegers(range(made, Prefix(SIGNED_ID, <<>>), 1, min, max, order),
                       cw_int_from_cw_bytes)
    IN  /\ between(None, None, "Ascending")
             = <<<<-1234, John>>, <<-56, Jim>>, <<50, Jules>>>>
        /\ between(inclusive(<<i32(-56)>>), None, "Ascending")
             = <<<<-56, Jim>>, <<50, Jules>>>>
        /\ between(inclusive(<<i32(-55)>>), inclusive(<<i32(50)>>), "Descending")
             = <<<<50, Jules>>>>

\* The former encoding sorts the negative numbers last; moved to the present one,
\* the records are in order.
range_signed_integer_key_migration ==
    LET old(n) == Path(SIGNED_ID, <<IntKeyOld(4, n)>>)
        Old(bytes) == IntKeyOld_from_vec(bytes, TRUE)
        made == Saved_(SIGNED_ID, <<<<<<IntKeyOld(4, -1234)>>, John>>,
                                     <<<<IntKeyOld(4, -56)>>, Jim>>,
                                     <<<<IntKeyOld(4, 50)>>, Jules>>>>)
        current == AsIntegers(all(made, SIGNED_ID, 1), Old)
        emptied == FoldLeft(LAMBDA s, r : remove(s, old(r[1])), made, current)
        moved == FoldLeft(LAMBDA s, r : save(s, Path(SIGNED_ID, <<i32(r[1])>>), r[2]),
                          emptied, current)
    IN  /\ current = <<<<50, Jules>>, <<-1234, John>>, <<-56, Jim>>>>
        /\ all(emptied, SIGNED_ID, 1) = <<>>
        /\ AsIntegers(all(moved, SIGNED_ID, 1), cw_int_from_cw_bytes)
             = <<<<-1234, John>>, <<-56, Jim>>, <<50, Jules>>>>

Allowances ==
    Saved_(ALLOWANCE, <<<<<<owner, spender>>, 1000>>, <<<<owner, spender2>>, 3000>>,
                        <<<<owner2, spender>>, 5000>>>>)

range_raw_composite_key ==
    /\ range_raw(Allowances, Prefix(ALLOWANCE, <<>>), None, None, "Ascending")
         = <<<<joined_key(<<owner, spender>>), 1000>>,
             <<joined_key(<<owner, spender2>>), 3000>>,
             <<joined_key(<<owner2, spender>>), 5000>>>>
    /\ range_raw(Allowances, Prefix(ALLOWANCE, <<owner>>), None, None, "Ascending")
         = <<<<spender, 1000>>, <<spender2, 3000>>>>

range_composite_key ==
    LET of_owner(min) ==
            range(Allowances, Prefix(ALLOWANCE, <<owner>>), 1, min, None, "Ascending")
        both == <<<<<<spender>>, 1000>>, <<<<spender2>>, 3000>>>>
    IN  /\ all(Allowances, ALLOWANCE, 2)
             = <<<<<<owner, spender>>, 1000>>, <<<<owner, spender2>>, 3000>>,
                 <<<<owner2, spender>>, 5000>>>>
        /\ of_owner(None) = both /\ of_owner(inclusive(<<spender>>)) = both
        /\ of_owner(exclusive(<<spender>>)) = Tail(both)

Triples ==
    Saved_(TRIPLE, <<<<<<owner, u8(9), recipient>>, 1000>>,
                     <<<<owner, u8(9), recipient2>>, 3000>>,
                     <<<<owner, u8(10), recipient3>>, 3000>>,
                     <<<<owner2, u8(9), recipient>>, 5000>>>>)

range_raw_triple_key ==
    /\ range_raw(Triples, Prefix(TRIPLE, <<>>), None, None, "Ascending")
         = <<<<joined_key(<<owner, u8(9), recipient>>), 1000>>,
             <<joined_key(<<owner, u8(9), recipient2>>), 3000>>,
             <<joined_key(<<owner, u8(10), recipient3>>), 3000>>,
             <<joined_key(<<owner2, u8(9), recipient>>), 5000>>>>
    /\ range_raw(Triples, Prefix(TRIPLE, <<owner, u8(9)>>), None, None, "Ascending")
         = <<<<recipient, 1000>>, <<recipient2, 3000>>>>
    /\ range_raw(Triples, Prefix(TRIPLE, <<owner>>), None, None, "Ascending")
         = <<<<joined_key(<<u8(9), recipient>>), 1000>>,
             <<joined_key(<<u8(9), recipient2>>), 3000>>,
             <<joined_key(<<u8(10), recipient3>>), 3000>>>>

range_triple_key ==
    LET nines(min) ==
            range(Triples, Prefix(TRIPLE, <<owner, u8(9)>>), 1, min, None, "Ascending")
        both == <<<<<<recipient>>, 1000>>, <<<<recipient2>>, 3000>>>>
    IN  /\ MapEach(all(Triples, TRIPLE, 3), Head)
             = <<<<owner, u8(9), recipient>>, <<owner, u8(9), recipient2>>,
                 <<owner, u8(10), recipient3>>, <<owner2, u8(9), recipient>>>>
        /\ range(Triples, Prefix(TRIPLE, <<owner>>), 2, None, None, "Ascending")
             = <<<<<<u8(9), recipient>>, 1000>>, <<<<u8(9), recipient2>>, 3000>>,
                 <<<<u8(10), recipient3>>, 3000>>>>
        /\ nines(None) = both /\ nines(inclusive(<<recipient>>)) = both
        /\ nines(exclusive(<<recipient>>)) = Tail(both)

readme_with_range_raw ==
    LET made == Saved_(PEOPLE, <<<<<<john>>, John>>, <<<<jim>>, Jim>>>>)
    IN  /\ range_raw(made, Prefix(PEOPLE, <<>>), exclusive(<<jim>>), None, "Ascending")
             = <<<<john, John>>>>
        /\ range_raw(Allowances, Prefix(ALLOWANCE, <<owner>>),
                     exclusive(<<Append(spender, 49)>>), inclusive(<<spender2>>), "Descending")
             = <<<<spender2, 3000>>>>

-----------------------------------------------------------------------------
(* Ranges over prefixes.                                                   *)

Ages ==
    Saved_(AGES, <<<<<<u32(2), <<1, 2, 3>>>>, 123>>, <<<<u32(3), <<4, 5, 6>>>>, 456>>,
                   <<<<u32(5), <<7, 8, 9>>>>, 789>>, <<<<u32(5), <<9, 8, 7>>>>, 987>>,
                   <<<<u32(7), <<20, 21, 22>>>>, 2002>>,
                   <<<<u32(8), <<23, 24, 25>>>>, 2332>>>>)

AgesBetween(min, max, order) ==
    LET raw == prefix_range_raw(Ages, AGES, min, max, order)
    IN  MapEach(raw, LAMBDA record : record[2])

prefixed_range_raw_works ==
    /\ range_raw(Ages, Prefix(AGES, <<u32(5)>>), None, None, "Ascending")
         = <<<<<<7, 8, 9>>, 789>>, <<<<9, 8, 7>>, 987>>>>
    /\ AgesBetween(PrefixInclusive(<<u32(3)>>), PrefixInclusive(<<u32(7)>>), "Ascending")
         = <<456, 789, 987, 2002>>
    /\ AgesBetween(PrefixExclusive(<<u32(3)>>), PrefixExclusive(<<u32(7)>>), "Ascending")
         = <<789, 987>>
    /\ AgesBetween(PrefixInclusive(<<u32(3)>>), PrefixInclusive(<<u32(5)>>), "Descending")
         = <<987, 789, 456>>
    /\ AgesBetween(PrefixExclusive(<<u32(2)>>), PrefixExclusive(<<u32(5)>>), "Descending")
         = <<456>>

prefixed_range_works ==
    /\ keys(Ages, Prefix(AGES, <<u32(5)>>), 1, None, None, "Ascending")
         = <<<<<<7, 8, 9>>>>, <<<<9, 8, 7>>>>>>
    /\ prefix_range(Ages, AGES, 2, PrefixInclusive(<<u32(3)>>), PrefixInclusive(<<u32(5)>>),
                    "Descending")
         = <<<<<<u32(5), <<9, 8, 7>>>>, 987>>, <<<<u32(5), <<7, 8, 9>>>>, 789>>,
             <<<<u32(3), <<4, 5, 6>>>>, 456>>>>
    /\ prefix_range(Ages, AGES, 2, PrefixExclusive(<<u32(2)>>), PrefixExclusive(<<u32(5)>>),
                    "Descending")
         = <<<<<<u32(3), <<4, 5, 6>>>>, 456>>>>

-----------------------------------------------------------------------------

MapTestsPass ==
    /\ item_save_and_load /\ item_remove_works /\ item_isolated_reads
    /\ item_update_success /\ item_update_does_not_change_data_on_error
    /\ item_update_supports_custom_errors /\ item_readme_works
    /\ create_path /\ save_and_load /\ existence /\ composite_keys /\ triple_keys
    /\ basic_update /\ readme_works /\ readme_works_with_path
    /\ range_raw_simple_key /\ range_simple_string_key /\ range_simple_integer_key
    /\ range_simple_signed_integer_key /\ range_signed_integer_key_migration
    /\ range_raw_composite_key /\ range_composite_key
    /\ range_raw_triple_key /\ range_triple_key /\ readme_with_range_raw
    /\ prefixed_range_raw_works /\ prefixed_range_works

=============================================================================
