------------------------------ MODULE Snapshots ------------------------------
(***************************************************************************)
(* Snapshot maps, snapshot items and indexed snapshot maps, in bytes       *)
(* (storage-plus: snapshot/mod.rs, snapshot/map.rs, snapshot/item.rs,      *)
(* indexed_snapshot.rs).  The checkpoints and the changelog are maps of    *)
(* their own in the same storage; the changelog has the height as the      *)
(* last part of its keys, so that the entries of a key follow each other   *)
(* in the order of the blocks.                                             *)
(*                                                                         *)
(* A snapshot map is [namespace, parts, idx, checkpoints, changelog,       *)
(* strategy], an indexed map with the names of the two other maps.  A      *)
(* snapshot item is one whose key has no parts: its namespace is the whole *)
(* key of the record.                                                      *)
(***************************************************************************)
EXTENDS IndexedMap

u64_key(height) == cw_uint_to_cw_bytes(8, height)

PrimaryPath(map, key) ==
    IF key = <<>> THEN ItemPath(map.namespace) ELSE Path(map.namespace, key)

CheckpointPath(map, height) == Path(map.checkpoints, <<u64_key(height)>>)

ChangelogPath(map, key, height) == Path(map.changelog, Append(key, u64_key(height)))

-----------------------------------------------------------------------------
(* Snapshot: the checkpoints and the changelog.                            *)

\* How often a height is checkpointed; no entry is zero.
Count(s, map, height) ==
    LET count == may_load(s, CheckpointPath(map, height))
    IN  IF count = None THEN 0 ELSE count

add_checkpoint(s, map, height) ==
    save(s, CheckpointPath(map, height), Count(s, map, height) + 1)

\* Mutant: the count goes down to zero, and the entry stays.
remove_checkpoint_Kept(s, map, height) ==
    save(s, CheckpointPath(map, height),
         IF Count(s, map, height) = 0 THEN 0 ELSE Count(s, map, height) - 1)

remove_checkpoint(s, map, height) ==
    IF Count(s, map, height) <= 1 THEN remove(s, CheckpointPath(map, height))
    ELSE save(s, CheckpointPath(map, height), Count(s, map, height) - 1)

\* The entries of a key at a height or later, the earliest first.
LoggedSince(s, map, key, height) ==
    range_raw(s, Prefix(map.changelog, key), inclusive(<<u64_key(height)>>), None,
              "Ascending")

should_checkpoint_selected(s, map, key) ==
    LET open == range(s, Prefix(map.checkpoints, <<>>), 1, None, None, "Descending")
    IN  /\ open # <<>>
        /\ LoggedSince(s, map, key, cw_uint_from_cw_bytes(open[1][1][1])) = <<>>

should_checkpoint(s, map, key) ==
    CASE map.strategy = "EveryBlock" -> TRUE
      [] map.strategy = "Never"      -> FALSE
      [] map.strategy = "Selected"   -> should_checkpoint_selected(s, map, key)

assert_checkpointed(s, map, height) ==
    CASE map.strategy = "EveryBlock" -> TRUE
      [] map.strategy = "Never"      -> FALSE
      [] map.strategy = "Selected"   -> has(s, CheckpointPath(map, height))

has_changelog(s, map, key, height) == has(s, ChangelogPath(map, key, height))

ChangeSet(old) == [old |-> old]

write_changelog(s, map, key, height, old) ==
    save(s, ChangelogPath(map, key, height), ChangeSet(old))

\* A change set, None when the key was not written since, or an error.
snapshot_may_load_at_height(s, map, key, height) ==
    LET first == LoggedSince(s, map, key, height)
    IN  CASE ~assert_checkpointed(s, map, height) -> NotFound
          [] assert_checkpointed(s, map, height) /\ first # <<>> -> first[1][2]
          [] OTHER -> None

-----------------------------------------------------------------------------
(* SnapshotMap and SnapshotItem.                                           *)

primary_may_load(s, map, key) == may_load(s, PrimaryPath(map, key))

write_change(s, map, key, height) ==
    IF has_changelog(s, map, key, height) THEN s
    ELSE write_changelog(s, map, key, height, primary_may_load(s, map, key))

\* The storage once a write is about to be made.
Snapped(s, map, key, height) ==
    IF should_checkpoint(s, map, key) THEN write_change(s, map, key, height) ELSE s

snapshot_save(s, map, key, data, height) ==
    save(Snapped(s, map, key, height), PrimaryPath(map, key), data)

snapshot_remove(s, map, key, height) ==
    remove(Snapped(s, map, key, height), PrimaryPath(map, key))

\* The value at the height, None when there was none, or an error.
may_load_at_height(s, map, key, height) ==
    LET snapshot == snapshot_may_load_at_height(s, map, key, height)
    IN  CASE snapshot = NotFound -> NotFound
          [] snapshot = None     -> primary_may_load(s, map, key)
          [] OTHER               -> snapshot.old

snapshot_update(s, map, key, height, action(_)) ==
    LET output == action(primary_may_load(s, map, key))
    IN  IF output = Failed THEN s ELSE snapshot_save(s, map, key, output, height)

-----------------------------------------------------------------------------
(* IndexedSnapshotMap.                                                     *)

\* data is None for a removal; old_data is what was loaded.
snapshot_replace(s, map, key, data, old_data, height) ==
    LET pk == joined_key(key)
        without == WithoutOld(s, map, pk, old_data)
        indexed == WithNew(without, map, pk, data)
    IN  CASE data = None -> Ok(snapshot_remove(without, map, key, height))
          [] data # None /\ indexed.ok ->
               Ok(snapshot_save(indexed.store, map, key, data, height))
          [] OTHER -> indexed

indexed_snapshot_save(s, map, key, data, height) ==
    snapshot_replace(s, map, key, data, primary_may_load(s, map, key), height)

indexed_snapshot_remove(s, map, key, height) ==
    snapshot_replace(s, map, key, None, primary_may_load(s, map, key), height)

indexed_snapshot_update(s, map, key, height, action(_)) ==
    LET input == primary_may_load(s, map, key)
        output == action(input)
    IN  IF output = Failed THEN Err(s)
        ELSE snapshot_replace(s, map, key, output, input, height)

=============================================================================
