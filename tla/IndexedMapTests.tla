--------------------------- MODULE IndexedMapTests ---------------------------
(***************************************************************************)
(* The unit tests of the indexed maps of storage-plus (indexed_map.rs),    *)
(* evaluated on IndexedMap: a test is what it asserts, under its own name. *)
(***************************************************************************)
EXTENDS IndexedMap

Maria == <<77, 97, 114, 105, 97>>
MariaLuisa == <<77, 97, 114, 105, 97, 32, 76, 117, 105, 115, 97>>
Marta == <<77, 97, 114, 116, 97>>
Mary == <<77, 97, 114, 121>>
Marcel == <<77, 97, 114, 99, 101, 108>>
John_ == <<74, 111, 104, 110>>
Juan == <<74, 117, 97, 110>>
Doe == <<68, 111, 101>>
Williams == <<87, 105, 108, 108, 105, 97, 109, 115>>
Wayne == <<87, 97, 121, 110, 101>>
Rodriguez == <<82, 111, 100, 114, 105, 103, 117, 101, 122>>
After_ == <<65, 102, 116, 101, 114>>
Laurens == <<76, 97, 117, 114, 101, 110, 115>>
Perez == <<80, 101, 114, 101, 122>>
Bemberg == <<66, 101, 109, 98, 101, 114, 103>>
Young == <<89, 111, 117, 110, 103>>

\* A digit as text, and a number of four digits.
digit(d) == <<48 + d>>
four_digits(n) ==
    digit(n \div 1000) \o digit((n \div 100) % 10) \o digit((n \div 10) % 10) \o digit(n % 10)

Person(name, last_name, age) == [name |-> name, last_name |-> last_name, age |-> age]
age_key(age) == cw_uint_to_cw_bytes(4, age)

datas == <<Person(Maria, Doe, 42), Person(Maria, Williams, 23), Person(John_, Wayne, 32),
           Person(MariaLuisa, Rodriguez, 12), Person(Marta, After_, 90)>>
pks == [i \in 1 .. 5 |-> <<digit(i)>>]

marcel == Person(Marcel, Laurens, 42)
mary == Person(Mary, Wayne, 32)
another_maria_doe == Person(Maria, Doe, 24)

\* Everybody there is in the tests.
People ==
    ToSet(datas) \cup {marcel, mary, another_maria_doe, Person(Maria, <<>>, 42),
                       Person(Juan, Perez, 13), Person(Maria, Williams, 24),
                       Person(Maria, Young, 24), Person(MariaLuisa, Bemberg, 12),
                       Person(MariaLuisa, Bemberg, 43)}

NAMESPACE == <<100, 97, 116, 97>>
NamespaceOf(suffix) == NAMESPACE \o <<95, 95>> \o suffix

name == [kind |-> "Multi", namespace |-> NamespaceOf(<<110>>),
         index |-> [d \in People |-> <<d.name>>]]
age == [kind |-> "Unique", namespace |-> NamespaceOf(<<97>>),
        index |-> [d \in People |-> <<age_key(d.age)>>]]
name_lastname == [kind |-> "Unique", namespace |-> NamespaceOf(<<110, 108>>),
                  index |-> [d \in People |-> <<d.name, d.last_name>>]]
name_age == [kind |-> "Multi", namespace |-> NamespaceOf(<<110, 97>>),
             index |-> [d \in People |-> <<d.name, age_key(d.age)>>]]

build_map == [namespace |-> NAMESPACE, parts |-> 1, idx |-> <<name, age, name_lastname>>]
composite_map(parts) == [namespace |-> NAMESPACE, parts |-> parts, idx |-> <<name_age>>]

\* The storage after some records were saved, each without an error.
AllSaved(map, records) ==
    FoldLeft(LAMBDA s, r : indexed_save(s, map, r[1], r[2]).store, <<>>, records)

save_data == AllSaved(build_map, [i \in 1 .. 5 |-> <<pks[i], datas[i]>>])

\* The records of some of the five.
Of(which) == [i \in 1 .. Len(which) |-> <<pks[which[i]], datas[which[i]]>>]
RawOf(which) == [i \in 1 .. Len(which) |-> <<digit(which[i]), datas[which[i]]>>]

by_name(s, sub, min, order) == multi_range_raw(s, build_map, name, sub, min, None, order)

-----------------------------------------------------------------------------

store_and_load_by_index ==
    /\ indexed_may_load(save_data, build_map, pks[1]) = datas[1]
    /\ by_name(save_data, <<Maria>>, None, "Ascending") = RawOf(<<1, 2>>)
    \* One byte after, one before, and longer.
    /\ \A other \in {Front(Maria) \o <<98>>, Front(Maria) \o <<96>>, Append(Maria, 53)} :
         by_name(save_data, <<other>>, None, "Ascending") = <<>>
    \* From the first Maria until the end; the same by a bound on the prefix.
    /\ by_name(save_data, <<>>, inclusive(<<Maria, <<>>>>), "Ascending")
         = RawOf(<<1, 2, 5, 4>>)
    /\ multi_prefix_range_raw(save_data, build_map, name, PrefixInclusive(<<Maria>>), None,
                              "Ascending") = RawOf(<<1, 2, 5, 4>>)
    /\ by_name(save_data, <<>>, exclusive(<<Maria, digit(1)>>), "Ascending")
         = RawOf(<<2, 5, 4>>)
    /\ unique_range_raw(save_data, age, <<>>, inclusive(<<age_key(23)>>), None, "Ascending")
         = RawOf(<<2, 3, 1, 5>>)
    /\ item(save_data, build_map, age, <<age_key(42)>>) = RawOf(<<1>>)[1]
    /\ item(save_data, build_map, age, <<age_key(43)>>) = None

indexed_existence ==
    /\ has(save_data, Path(NAMESPACE, pks[1]))
    /\ ~has(save_data, Path(NAMESPACE, <<digit(6)>>))

\* The four of the tests on ranges, with one or more parts before the last of the key.
fours(fourth, third) ==
    <<Person(Maria, <<>>, 42), Person(Juan, Perez, 13), third, fourth>>
younger == fours(Person(MariaLuisa, Bemberg, 12), Person(Maria, Williams, 24))
older == fours(Person(MariaLuisa, Bemberg, 43), Person(Maria, Young, 24))
ids == <<four_digits(5627), four_digits(5628), four_digits(5629), four_digits(5630)>>

range_raw_simple_key_by_multi_index ==
    LET made == AllSaved(build_map, [i \in 1 .. 4 |-> <<<<ids[i]>>, younger[i]>>])
    IN  by_name(made, <<Maria>>, None, "Descending")
          = <<<<ids[3], younger[3]>>, <<ids[1], younger[1]>>>>

range_simple_key_by_multi_index ==
    LET made == AllSaved(build_map, [i \in 1 .. 4 |-> <<<<ids[i]>>, younger[i]>>])
    IN  multi_range(made, build_map, name, <<Maria>>, None, None, "Descending")
          = <<<<<<ids[3]>>, younger[3]>>, <<<<ids[1]>>, younger[1]>>>>

\* By age, and not by the primary key.
composite_index == AllSaved(composite_map(1), [i \in 1 .. 4 |-> <<<<ids[i]>>, older[i]>>])

range_raw_composite_key_by_multi_index ==
    multi_range_raw(composite_index, composite_map(1), name_age, <<Maria>>, None, None,
                    "Descending")
      = <<<<ids[1], older[1]>>, <<ids[3], older[3]>>>>

range_composite_key_by_multi_index ==
    multi_range(composite_index, composite_map(1), name_age, <<Maria>>, None, None,
                "Descending")
      = <<<<<<ids[1]>>, older[1]>>, <<<<ids[3]>>, older[3]>>>>

\* The save that is refused leaves the record of pk 4 without its index entries: only
\* the transaction around it undoes that. Saved again, after its rival was removed,
\* the record is found.
unique_index_enforced ==
    LET refused == indexed_save(save_data, build_map, pks[4], marcel)
        without == indexed_remove(refused.store, build_map, pks[1])
        again == indexed_save(without.store, build_map, pks[4], marcel)
    IN  /\ ~refused.ok
        /\ item(refused.store, build_map, age, <<age_key(42)>>) = RawOf(<<1>>)[1]
        /\ item(refused.store, build_map, age, <<age_key(23)>>) = RawOf(<<2>>)[1]
        /\ again.ok
        /\ item(again.store, build_map, age, <<age_key(42)>>) = <<digit(4), marcel>>

unique_index_enforced_composite_key ==
    ~indexed_save(save_data, build_map, pks[5], another_maria_doe).ok

remove_and_update_reflected_on_indexes ==
    LET count(s, who) ==
            Len(keys_raw(s, Prefix(name.namespace, <<who>>), None, None, "Ascending"))
        without == indexed_remove(save_data, build_map, pks[2]).store
        changed == indexed_update(without, build_map, pks[3],
                                  LAMBDA d : [d EXCEPT !.name = Mary]).store
    IN  /\ count(save_data, Maria) = 2 /\ count(save_data, MariaLuisa) = 1
        /\ count(save_data, John_) = 1 /\ count(save_data, Mary) = 0
        /\ count(changed, Maria) = 1 /\ count(changed, MariaLuisa) = 1
        /\ count(changed, John_) = 0 /\ count(changed, Mary) = 1

range_raw_simple_key_by_unique_index ==
    unique_range_raw(save_data, age, <<>>, None, None, "Ascending")
      = RawOf(<<4, 2, 3, 1, 5>>)

range_simple_key_by_unique_index ==
    unique_range(save_data, build_map, age, <<>>, None, None, "Ascending")
      = Of(<<4, 2, 3, 1, 5>>)

range_raw_composite_key_by_unique_index ==
    unique_range_raw(save_data, name_lastname, <<Maria>>, None, None, "Ascending")
      = RawOf(<<1, 2>>)

range_composite_key_by_unique_index ==
    unique_range(save_data, build_map, name_lastname, <<Maria>>, None, None, "Ascending")
      = Of(<<1, 2>>)

indexed_range_simple_string_key ==
    LET from_(min) == range(save_data, Prefix(NAMESPACE, <<>>), 1, min, None, "Ascending")
    IN  /\ from_(None) = Of(<<1, 2, 3, 4, 5>>)
        /\ from_(inclusive(pks[3])) = Of(<<3, 4, 5>>)

-----------------------------------------------------------------------------
(* Primary keys of several parts.                                          *)

pairs == <<<<digit(1), ids[1]>>, <<digit(2), ids[2]>>, <<digit(2), ids[3]>>,
           <<digit(3), ids[4]>>>>
triples == <<<<digit(1), digit(1), ids[1]>>, <<digit(1), digit(2), ids[2]>>,
             <<digit(2), digit(1), ids[3]>>, <<digit(2), digit(2), ids[4]>>>>

pair_store == AllSaved(composite_map(2), [i \in 1 .. 4 |-> <<pairs[i], older[i]>>])
triple_store == AllSaved(composite_map(3), [i \in 1 .. 4 |-> <<triples[i], older[i]>>])

below(s, sub, parts) == range(s, Prefix(NAMESPACE, sub), parts, None, None, "Ascending")

prefix_composite_key ==
    below(pair_store, <<digit(2)>>, 1) = <<<<<<ids[2]>>, older[2]>>, <<<<ids[3]>>, older[3]>>>>

prefix_triple_key ==
    below(triple_store, <<digit(1), digit(2)>>, 1) = <<<<<<ids[2]>>, older[2]>>>>

sub_prefix_triple_key ==
    below(triple_store, <<digit(1)>>, 2)
      = <<<<<<digit(1), ids[1]>>, older[1]>>, <<<<digit(2), ids[2]>>, older[2]>>>>

prefix_range_simple_key ==
    LET from_two(max) == prefix_range(pair_store, NAMESPACE, 2, PrefixInclusive(<<digit(2)>>),
                                      max, "Ascending")
    IN  /\ from_two(None) = [i \in 1 .. 3 |-> <<pairs[i + 1], older[i + 1]>>]
        /\ from_two(PrefixExclusive(<<digit(3)>>))
             = [i \in 1 .. 2 |-> <<pairs[i + 1], older[i + 1]>>]

prefix_range_triple_key ==
    LET from_second(max) ==
            prefix_range(triple_store, NAMESPACE, 3, PrefixInclusive(<<digit(1), digit(2)>>),
                         max, "Ascending")
    IN  /\ from_second(None) = [i \in 1 .. 3 |-> <<triples[i + 1], older[i + 1]>>]
        /\ from_second(PrefixInclusive(<<digit(2), digit(1)>>))
             = [i \in 1 .. 2 |-> <<triples[i + 1], older[i + 1]>>]

-----------------------------------------------------------------------------
(* Bounds on indexes; the numbers are values and index keys at once.       *)

Numbers == [n \in 1 .. 3 |-> <<cw_uint_to_cw_bytes(8, n)>>]
secondary(kind) == [kind |-> kind, namespace |-> NamespaceOf(<<115>>), index |-> Numbers]
numbers_map(kind) == [namespace |-> NAMESPACE, parts |-> 1, idx |-> <<secondary(kind)>>]

numbered(n) == <<<<110, 48 + n>>>>
two2 == <<<<110, 50, 50>>>>

bounds_unique_index ==
    LET map == numbers_map("Unique")
        made == AllSaved(map, <<<<numbered(1), 1>>, <<numbered(2), 2>>, <<numbered(3), 3>>>>)
    IN  /\ unique_range_raw(made, secondary("Unique"), <<>>, None, inclusive(Numbers[1]),
                            "Ascending") = <<<<numbered(1)[1], 1>>>>
        /\ unique_range(made, map, secondary("Unique"), <<>>, exclusive(Numbers[2]), None,
                        "Ascending") = <<<<numbered(3), 3>>>>

\* The key of a multi index ends with the primary key.
bounds_multi_index ==
    LET map == numbers_map("Multi")
        made == AllSaved(map, <<<<numbered(1), 1>>, <<numbered(2), 2>>, <<two2, 2>>,
                                 <<numbered(3), 3>>>>)
    IN  /\ multi_prefix_range_raw(made, map, secondary("Multi"), None,
                                  PrefixInclusive(Numbers[1]), "Ascending")
             = <<<<numbered(1)[1], 1>>>>
        /\ multi_range(made, map, secondary("Multi"), <<>>,
                       exclusive(Numbers[2] \o numbered(2)), None, "Ascending")
             = <<<<two2, 2>>, <<numbered(3), 3>>>>

-----------------------------------------------------------------------------

IndexedMapTestsPass ==
    /\ store_and_load_by_index /\ indexed_existence
    /\ range_raw_simple_key_by_multi_index /\ range_simple_key_by_multi_index
    /\ range_raw_composite_key_by_multi_index /\ range_composite_key_by_multi_index
    /\ unique_index_enforced /\ unique_index_enforced_composite_key
    /\ remove_and_update_reflected_on_indexes
    /\ range_raw_simple_key_by_unique_index /\ range_simple_key_by_unique_index
    /\ range_raw_composite_key_by_unique_index /\ range_composite_key_by_unique_index
    /\ indexed_range_simple_string_key
    /\ prefix_composite_key /\ prefix_triple_key /\ sub_prefix_triple_key
    /\ prefix_range_simple_key /\ prefix_range_triple_key
    /\ bounds_unique_index /\ bounds_multi_index

=============================================================================
