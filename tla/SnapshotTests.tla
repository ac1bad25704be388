---------------------------- MODULE SnapshotTests ----------------------------
(***************************************************************************)
(* The unit tests of the snapshots of storage-plus (snapshot/mod.rs,       *)
(* snapshot/map.rs, snapshot/item.rs, indexed_snapshot.rs), evaluated on   *)
(* Snapshots: a test is what it asserts, under its own name.               *)
(***************************************************************************)
EXTENDS Snapshots, IndexedMapTests

Named(letter_, strategy) ==
    [namespace |-> letter_, parts |-> 1, idx |-> <<>>, strategy |-> strategy,
     checkpoints |-> letter_ \o <<95, 95, 107>>, changelog |-> letter_ \o <<95, 95, 108>>]

NEVER == Named(<<110>>, "Never")
EVERY == Named(<<101>>, "EveryBlock")
SELECT == Named(<<115>>, "Selected")

\* The letters A to D, as text.
letter(n) == <<64 + n>>
A == <<letter(1)>>
B == <<letter(2)>>
C == <<letter(3)>>
D == <<letter(4)>>

-----------------------------------------------------------------------------
(* A test writes a list of things, one after another.                      *)

Saves(key, data, height) == [do |-> "save", key |-> key, data |-> data, height |-> height]
Updates(key, data, height) == [do |-> "update", key |-> key, data |-> data, height |-> height]
Removes(key, height) == [do |-> "remove", key |-> key, height |-> height]
Opens(height) == [do |-> "add_checkpoint", height |-> height]
Closes(height) == [do |-> "remove_checkpoint", height |-> height]
Logs(key, height, old) == [do |-> "log", key |-> key, height |-> height, old |-> old]

Done(s, map, op) ==
    CASE op.do = "save" -> snapshot_save(s, map, op.key, op.data, op.height)
      [] op.do = "update" -> snapshot_update(s, map, op.key, op.height, LAMBDA v : op.data)
      [] op.do = "remove" -> snapshot_remove(s, map, op.key, op.height)
      [] op.do = "add_checkpoint" -> add_checkpoint(s, map, op.height)
      [] op.do = "remove_checkpoint" -> remove_checkpoint(s, map, op.height)
      [] op.do = "log" -> write_changelog(s, map, op.key, op.height, op.old)

After_all(map, ops) == FoldLeft(LAMBDA s, op : Done(s, map, op), <<>>, ops)

\* The same of maps of all three strategies, in one storage.
EachAfter(ops) ==
    FoldLeft(LAMBDA s, map : FoldLeft(LAMBDA t, op : Done(t, map, op), s, ops),
             <<>>, <<NEVER, EVERY, SELECT>>)

-----------------------------------------------------------------------------
(* snapshot/mod.rs.                                                        *)

DUMMY_KEY == <<<<100>>>>

should_checkpoint_test ==
    /\ ~should_checkpoint(<<>>, NEVER, DUMMY_KEY)
    /\ should_checkpoint(<<>>, EVERY, DUMMY_KEY)
    /\ ~should_checkpoint(<<>>, SELECT, DUMMY_KEY)

assert_checkpointed_test ==
    LET asserts == <<<<<<>>, FALSE>>, <<<<Opens(1)>>, TRUE>>, <<<<Opens(1), Closes(1)>>, FALSE>>>>
        answers(s) == [i \in 1 .. 3 |-> assert_checkpointed(s, <<NEVER, EVERY, SELECT>>[i], 1)]
    IN  \A i \in DOMAIN asserts :
          answers(EachAfter(asserts[i][1])) = <<FALSE, TRUE, asserts[i][2]>>

has_changelog_test ==
    \A map \in {NEVER, EVERY, SELECT}, height \in 1 .. 3 :
        /\ ~has_changelog(<<>>, map, DUMMY_KEY, height)
        /\ has_changelog(EachAfter(<<Logs(DUMMY_KEY, 2, 3)>>), map, DUMMY_KEY, height)
             <=> height = 2

\* What is done, and what EVERY and SELECT then answer at a height; NEVER answers none.
\* The change sets of the test differ from map to map; here they are the same.
may_load_at_height_test ==
    LET open == <<Opens(3)>>
        written == Append(open, Logs(DUMMY_KEY, 3, 100))
        removed == written \o <<Logs(DUMMY_KEY, 4, None), Opens(4)>>
        reads == <<<<<<>>, 3, None, NotFound>>,
                   <<open, 3, None, None>>,
                   <<written, 3, ChangeSet(100), ChangeSet(100)>>,
                   <<written, 2, ChangeSet(100), NotFound>>,
                   <<removed, 4, ChangeSet(None), ChangeSet(None)>>,
                   <<removed, 3, ChangeSet(100), ChangeSet(100)>>>>
        at(s, height) ==
            [i \in 1 .. 3 |-> snapshot_may_load_at_height(s, <<NEVER, EVERY, SELECT>>[i],
                                                          DUMMY_KEY, height)]
    IN  \A i \in DOMAIN reads :
          at(EachAfter(reads[i][1]), reads[i][2]) = <<NotFound, reads[i][3], reads[i][4]>>

-----------------------------------------------------------------------------
(* snapshot/map.rs.                                                        *)

init_data(a, b, c, d) ==
    <<Saves(a, 5, 1), Saves(b, 7, 2), Opens(3), Saves(c, 1, 3), Updates(a, 8, 3),
      Removes(b, 4), Saves(c, 13, 4), Opens(5), Removes(a, 5), Updates(d, 22, 5),
      Closes(5)>>

from_init_data(map) == After_all(map, init_data(A, B, C, D))

\* What a read answers for each of the letters.
values_at(s, map, height) ==
    [i \in 1 .. 4 |-> may_load_at_height(s, map, <<letter(i)>>, height)]
final_values(s, map) == [i \in 1 .. 4 |-> primary_may_load(s, map, <<letter(i)>>)]
missing_checkpoint(s, map, height) ==
    \A i \in 1 .. 4 : may_load_at_height(s, map, <<letter(i)>>, height) = NotFound

FINAL_VALUES == <<None, None, 13, 22>>
VALUES_START_3 == <<5, 7, None, None>>
VALUES_START_5 == <<8, None, 13, None>>

never_works_like_normal_map ==
    LET s == from_init_data(NEVER)
    IN  /\ final_values(s, NEVER) = FINAL_VALUES
        /\ missing_checkpoint(s, NEVER, 3) /\ missing_checkpoint(s, NEVER, 5)

every_blocks_stores_present_and_past ==
    LET s == from_init_data(EVERY)
    IN  /\ final_values(s, EVERY) = FINAL_VALUES
        /\ values_at(s, EVERY, 3) = VALUES_START_3
        /\ values_at(s, EVERY, 5) = VALUES_START_5

\* The test asks NEVER, for whom nothing is stored, about the other heights.
selected_shows_3_not_5 ==
    LET s == from_init_data(SELECT)
    IN  /\ final_values(s, SELECT) = FINAL_VALUES
        /\ values_at(s, SELECT, 3) = VALUES_START_3
        /\ missing_checkpoint(s, NEVER, 1) /\ missing_checkpoint(s, NEVER, 5)

\* What a key answers at some heights, once everything is written: the test asks in
\* between, and what is written later is at later heights.
handle_multiple_writes_in_one_block ==
    LET s == After_all(EVERY,
               <<Saves(A, 5, 1), Saves(B, 7, 2), Saves(C, 2, 2), Updates(A, 9, 3), Saves(A, 12, 3),
                 Saves(B, 17, 4), Removes(B, 4), Removes(C, 5), Updates(C, 16, 5)>>)
        at(key, first) == [i \in 1 .. 3 |-> may_load_at_height(s, EVERY, key, first + i - 1)]
    IN  at(A, 2) = <<5, 5, 12>> /\ at(B, 3) = <<7, 7, None>> /\ at(C, 4) = <<2, 2, 16>>

\* A record of the changelog: the parts of its key, and the value before.
Change(key, height, old) == <<Append(key, u64_key(height)), ChangeSet(old)>>

changelog_range_works ==
    LET s == After_all(EVERY, <<Saves(A, 5, 1), Saves(B, 7, 2), Updates(A, 8, 3), Removes(B, 4)>>)
        below_(sub, parts, min) ==
            range(s, Prefix(EVERY.changelog, sub), parts, min, None, "Ascending")
    IN  /\ below_(<<>>, 2, None) = <<Change(A, 1, None), Change(A, 3, 5),
                                     Change(B, 2, None), Change(B, 4, 7)>>
        /\ below_(B, 1, None) = <<Change(<<>>, 2, None), Change(<<>>, 4, 7)>>
        /\ below_(A, 1, inclusive(<<u64_key(3)>>)) = <<Change(<<>>, 3, 5)>>

snapshot_range_simple_string_key ==
    LET from_(min) == range(from_init_data(EVERY), Prefix(EVERY.namespace, <<>>), 1, min,
                            None, "Ascending")
    IN  /\ from_(None) = <<<<C, 13>>, <<D, 22>>>>
        /\ from_(inclusive(C)) = <<<<C, 13>>, <<D, 22>>>>
        /\ from_(inclusive(D)) = <<<<D, 22>>>>

\* Keys of two parts, with the records of the letters.
EVERY_COMPOSITE_KEY == [EVERY EXCEPT !.parts = 2]
from_init_data_composite_key ==
    After_all(EVERY_COMPOSITE_KEY, init_data(A \o B, B \o A, B \o B, C \o A))

snapshot_range_composite_key ==
    range(from_init_data_composite_key, Prefix(EVERY.namespace, <<>>), 2, None, None,
          "Ascending") = <<<<B \o B, 13>>, <<C \o A, 22>>>>

snapshot_prefix_range_composite_key ==
    prefix_range(from_init_data_composite_key, EVERY.namespace, 2, None, PrefixExclusive(C),
                 "Descending") = <<<<B \o B, 13>>>>

snapshot_prefix_composite_key ==
    range(from_init_data_composite_key, Prefix(EVERY.namespace, C), 1, None, None,
          "Ascending") = <<<<A, 22>>>>

-----------------------------------------------------------------------------
(* snapshot/item.rs: the key has no parts.                                 *)

item_init_data ==
    <<Saves(<<>>, 5, 1), Saves(<<>>, 7, 2), Opens(3), Saves(<<>>, 1, 3), Updates(<<>>, 8, 3),
      Removes(<<>>, 4), Saves(<<>>, 13, 4), Opens(5), Removes(<<>>, 5),
      Updates(<<>>, 22, 5), Closes(5)>>

item_at(s, map, height) == may_load_at_height(s, map, <<>>, height)
item_final(s, map) == primary_may_load(s, map, <<>>)

never_works_like_normal_item ==
    LET s == After_all(NEVER, item_init_data)
    IN  /\ item_final(s, NEVER) = 22
        /\ item_at(s, NEVER, 3) = NotFound /\ item_at(s, NEVER, 5) = NotFound

item_every_blocks_stores_present_and_past ==
    LET s == After_all(EVERY, item_init_data)
    IN  /\ item_final(s, EVERY) = 22
        /\ item_at(s, EVERY, 3) = 7 /\ item_at(s, EVERY, 5) = 13

item_selected_shows_3_not_5 ==
    LET s == After_all(SELECT, item_init_data)
    IN  /\ item_final(s, SELECT) = 22 /\ item_at(s, SELECT, 3) = 7
        /\ item_at(s, NEVER, 1) = NotFound /\ item_at(s, NEVER, 5) = NotFound

item_handle_multiple_writes_in_one_block ==
    LET s == After_all(EVERY,
               <<Saves(<<>>, 5, 1), Saves(<<>>, 7, 2), Saves(<<>>, 2, 2), Updates(<<>>, 9, 3),
                 Saves(<<>>, 12, 3), Saves(<<>>, 17, 4), Removes(<<>>, 4), Removes(<<>>, 5),
                 Updates(<<>>, 2, 5)>>)
    IN  [height \in 2 .. 6 |-> item_at(s, EVERY, height)]
          = (2 :> 5 @@ 3 :> 2 @@ 4 :> 12 @@ 5 :> None @@ 6 :> 2)

item_changelog_range_works ==
    LET s == After_all(EVERY, <<Saves(<<>>, 5, 1), Saves(<<>>, 7, 2), Updates(<<>>, 8, 3),
                                Removes(<<>>, 4)>>)
        from_(min) == range(s, Prefix(EVERY.changelog, <<>>), 1, min, None, "Ascending")
    IN  /\ from_(None) = <<Change(<<>>, 1, None), Change(<<>>, 2, 5), Change(<<>>, 3, 7),
                           Change(<<>>, 4, 8)>>
        /\ from_(exclusive(<<u64_key(3)>>)) = <<Change(<<>>, 4, 8)>>

-----------------------------------------------------------------------------
(* indexed_snapshot.rs, with the people of indexed_map.rs.                 *)

Snapshotted(map) ==
    map @@ [checkpoints |-> <<99, 104>>, changelog |-> <<99, 108>>, strategy |-> "EveryBlock"]

build_snapshot_map == Snapshotted(build_map)

\* The storage after some records were saved, each in a block of its own.
AllSnapshotted(map, records, first) ==
    FoldLeft(LAMBDA s, i : indexed_snapshot_save(s, map, records[i][1], records[i][2],
                                                 first + i - 1).store,
             <<>>, [i \in 1 .. Len(records) |-> i])

snapshot_save_data ==
    AllSnapshotted(build_snapshot_map, [i \in 1 .. 4 |-> <<pks[i], datas[i]>>], 0)

snapshot_store_and_load_by_index ==
    /\ primary_may_load(snapshot_save_data, build_snapshot_map, pks[1]) = datas[1]
    /\ by_name(snapshot_save_data, <<Maria>>, None, "Ascending") = RawOf(<<1, 2>>)
    /\ \A other \in {Front(Maria) \o <<98>>, Front(Maria) \o <<96>>, Append(Maria, 53)} :
         by_name(snapshot_save_data, <<other>>, None, "Ascending") = <<>>
    /\ item(snapshot_save_data, build_map, age, <<age_key(42)>>) = RawOf(<<1>>)[1]
    /\ item(snapshot_save_data, build_map, age, <<age_key(43)>>) = None

snapshot_range_simple_key_by_multi_index ==
    LET made == AllSnapshotted(build_snapshot_map,
                                [i \in 1 .. 4 |-> <<<<ids[i]>>, younger[i]>>], 1)
    IN  /\ by_name(made, <<Maria>>, None, "Descending")
             = <<<<ids[3], younger[3]>>, <<ids[1], younger[1]>>>>
        /\ multi_range(made, build_map, name, <<Maria>>, None, None, "Descending")
             = <<<<<<ids[3]>>, younger[3]>>, <<<<ids[1]>>, younger[1]>>>>

indexed_changelog_range_works ==
    LET map == build_snapshot_map
        changed == indexed_snapshot_update(
                       AllSnapshotted(map, <<<<A, younger[1]>>, <<B, younger[2]>>>>, 1),
                       map, A, 3, LAMBDA v : younger[3])
        removed == indexed_snapshot_remove(changed.store, map, B, 4)
    IN  range(removed.store, Prefix(map.changelog, <<>>), 2, None, None, "Ascending")
          = <<Change(A, 1, None), Change(A, 3, younger[1]), Change(B, 2, None),
              Change(B, 4, younger[2])>>

snapshot_range_composite_key_by_multi_index ==
    LET map == Snapshotted(composite_map(1))
        made == AllSnapshotted(map, [i \in 1 .. 4 |-> <<<<ids[i]>>, older[i]>>], 2)
    IN  /\ multi_range_raw(made, map, name_age, <<Maria>>, None, None, "Descending")
             = <<<<ids[1], older[1]>>, <<ids[3], older[3]>>>>
        /\ multi_range(made, map, name_age, <<Maria>>, None, None, "Descending")
             = <<<<<<ids[1]>>, older[1]>>, <<<<ids[3]>>, older[3]>>>>

\* As in indexed_map.rs: the save that is refused leaves the record without entries.
snapshot_unique_index_enforced ==
    LET map == build_snapshot_map
        refused == indexed_snapshot_save(snapshot_save_data, map, pks[4], marcel, 3)
        without == indexed_snapshot_remove(refused.store, map, pks[1], 4)
        again == indexed_snapshot_save(without.store, map, pks[4], marcel, 5)
    IN  /\ ~refused.ok
        /\ [a \in {42, 23} |-> item(refused.store, map, age, <<age_key(a)>>)]
             = (42 :> RawOf(<<1>>)[1] @@ 23 :> RawOf(<<2>>)[1])
        /\ item(again.store, map, age, <<age_key(42)>>) = <<digit(4), marcel>>

snapshot_unique_index_enforced_composite_key ==
    ~indexed_snapshot_save(snapshot_save_data, build_snapshot_map, pks[5],
                           another_maria_doe, 4).ok

snapshot_remove_and_update_reflected_on_indexes ==
    LET map == build_snapshot_map
        count(s, who) ==
            Len(keys_raw(s, Prefix(name.namespace, <<who>>), None, None, "Ascending"))
        without == indexed_snapshot_remove(snapshot_save_data, map, pks[2], 5).store
        changed == indexed_snapshot_update(without, map, pks[3], 6,
                                           LAMBDA d : [d EXCEPT !.name = Mary]).store
        counts(s) == [i \in 1 .. 4 |-> count(s, <<Maria, MariaLuisa, John_, Mary>>[i])]
    IN  counts(snapshot_save_data) = <<2, 1, 1, 0>> /\ counts(changed) = <<1, 1, 0, 1>>

snapshot_range_simple_key_by_unique_index ==
    /\ unique_range_raw(snapshot_save_data, age, <<>>, None, None, "Ascending")
         = RawOf(<<4, 2, 3, 1>>)
    /\ unique_range(snapshot_save_data, build_map, age, <<>>, None, None, "Ascending")
         = Of(<<4, 2, 3, 1>>)

snapshot_range_composite_key_by_unique_index ==
    /\ unique_range_raw(snapshot_save_data, name_lastname, <<Maria>>, None, None, "Ascending")
         = RawOf(<<1, 2>>)
    /\ unique_range(snapshot_save_data, build_map, name_lastname, <<Maria>>, None, None,
                    "Ascending") = Of(<<1, 2>>)

\* prefix and sub_prefix without a part are the same.
indexed_snapshot_range_simple_string_key ==
    LET from_(min) ==
            range(snapshot_save_data, Prefix(NAMESPACE, <<>>), 1, min, None, "Ascending")
    IN  from_(None) = Of(<<1, 2, 3, 4>>) /\ from_(inclusive(pks[3])) = Of(<<3, 4>>)

snapshot_prefix_range_simple_key ==
    LET made == FoldLeft(LAMBDA s, i : indexed_snapshot_save(s, Snapshotted(composite_map(2)),
                                                              pairs[i], older[i], 1).store,
                          <<>>, <<1, 2, 3, 4>>)
        from_two(max) == prefix_range(made, NAMESPACE, 2, PrefixInclusive(<<digit(2)>>), max,
                                      "Ascending")
    IN  /\ from_two(None) = [i \in 1 .. 3 |-> <<pairs[i + 1], older[i + 1]>>]
        /\ from_two(PrefixExclusive(<<digit(3)>>))
             = [i \in 1 .. 2 |-> <<pairs[i + 1], older[i + 1]>>]

-----------------------------------------------------------------------------

SnapshotTestsPass ==
    /\ should_checkpoint_test /\ assert_checkpointed_test /\ has_changelog_test
    /\ may_load_at_height_test
    /\ never_works_like_normal_map /\ every_blocks_stores_present_and_past
    /\ selected_shows_3_not_5 /\ handle_multiple_writes_in_one_block
    /\ changelog_range_works /\ snapshot_range_simple_string_key
    /\ snapshot_range_composite_key /\ snapshot_prefix_range_composite_key
    /\ snapshot_prefix_composite_key
    /\ never_works_like_normal_item /\ item_every_blocks_stores_present_and_past
    /\ item_selected_shows_3_not_5 /\ item_handle_multiple_writes_in_one_block
    /\ item_changelog_range_works
    /\ snapshot_store_and_load_by_index /\ snapshot_range_simple_key_by_multi_index
    /\ indexed_changelog_range_works /\ snapshot_range_composite_key_by_multi_index
    /\ snapshot_unique_index_enforced /\ snapshot_unique_index_enforced_composite_key
    /\ snapshot_remove_and_update_reflected_on_indexes
    /\ snapshot_range_simple_key_by_unique_index
    /\ snapshot_range_composite_key_by_unique_index
    /\ indexed_snapshot_range_simple_string_key /\ snapshot_prefix_range_simple_key

=============================================================================
