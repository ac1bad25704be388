---------------------------- MODULE SnapshotMap ----------------------------
(***************************************************************************)
(* A map that answers for the past (storage-plus/src/snapshot).  Every     *)
(* write is made at the height of a block; before the first logged write   *)
(* of a block to a key, the value the key had goes to a changelog.  What a *)
(* key held at a height is the first value logged at that height or later, *)
(* or the current one.                                                     *)
(*                                                                         *)
(* A strategy says which writes are logged and which heights answer: those *)
(* of every block, those of the checkpoints that are open, or none.        *)
(* Checkpoints are counted, so that several clients may hold one height.   *)
(* SnapshotItem is the same code over a single key.                        *)
(***************************************************************************)
EXTENDS Integers, FiniteSets

CONSTANTS
    Keys,
    Values,
    None,           \* no value is stored at the key
    Unlogged,       \* no entry in the changelog
    Strategy,
    Clients,        \* the parties that open and close checkpoints
    MaxHeight       \* bound: blocks

ASSUME SnapshotAssumption ==
    /\ None \notin Values
    /\ Unlogged \notin Values \cup {None}
    /\ Strategy \in {"EveryBlock", "Never", "Selected"}
    /\ IsFiniteSet(Clients)
    /\ MaxHeight \in Nat \ {0}

VARIABLES
    primary,        \* key -> value now
    checkpoints,    \* height -> how often it is checkpointed, 0 when it is not stored
    changelog,      \* key -> height -> the value before the block, if logged
    height,         \* of the block being executed
    holds,          \* the checkpoints each client has opened and not closed
    held,           \* history: the values each key has held in this block so far
    started         \* history: the same for each height, when it began to answer

vars == <<primary, checkpoints, changelog, height, holds, held, started>>
history == <<held, started>>

Heights == 1 .. MaxHeight
Stored == Values \cup {None}

-----------------------------------------------------------------------------

Open == {h \in Heights : checkpoints[h] > 0}

\* The first height of a range at which a key was logged.
LoggedIn(k, first) == {h \in first .. MaxHeight : changelog[k][h] # Unlogged}
Earliest(S) == CHOOSE h \in S : \A g \in S : h <= g
Latest(S) == CHOOSE h \in S : \A g \in S : g <= h

\* Mutant: any entry of the key counts, however old it is.
should_checkpoint_selected_AnyEntry(k) == Open # {} /\ LoggedIn(k, 1) = {}

\* Mutant: the search begins at the oldest checkpoint.
should_checkpoint_selected_Oldest(k) ==
    Open # {} /\ LoggedIn(k, Earliest(Open)) = {}

should_checkpoint_selected(k) == Open # {} /\ LoggedIn(k, Latest(Open)) = {}

should_checkpoint(k) ==
    \/ Strategy = "EveryBlock"
    \/ Strategy = "Selected" /\ should_checkpoint_selected(k)

assert_checkpointed(h) ==
    \/ Strategy = "EveryBlock"
    \/ Strategy = "Selected" /\ checkpoints[h] > 0

\* What the map answers at a height that is checkpointed.
may_load_at_height(k, h) ==
    LET later == LoggedIn(k, h)
    IN  IF later = {} THEN primary[k] ELSE changelog[k][Earliest(later)]

-----------------------------------------------------------------------------

Init ==
    /\ primary = [k \in Keys |-> None]
    /\ checkpoints = [h \in Heights |-> 0]
    /\ changelog = [k \in Keys |-> [h \in Heights |-> Unlogged]]
    /\ height = 1
    /\ holds = {}
    /\ held = [k \in Keys |-> {None}]
    /\ started = [h \in Heights |-> [k \in Keys |-> {None}]]

write_change(k) ==
    changelog' = [changelog EXCEPT ![k][height] = IF @ = Unlogged THEN primary[k] ELSE @]

\* A write of a value, or of None for a removal.
Write(k, v) ==
    /\ \/ should_checkpoint(k) /\ write_change(k)
       \/ ~should_checkpoint(k) /\ UNCHANGED changelog
    /\ primary' = [primary EXCEPT ![k] = v]
    /\ held' = [held EXCEPT ![k] = @ \cup {v}]
    /\ UNCHANGED <<checkpoints, height, holds, started>>

save(k, v) == Write(k, v)

remove(k) == Write(k, None)

\* The action given to update is asked about the value that is stored; when it
\* fails, nothing is written.
update(k, action) == save(k, action[primary[k]])

\* A height that is already checkpointed keeps the values it began with.
add_checkpoint(c, h) ==
    /\ <<c, h>> \notin holds
    /\ h >= height
    /\ checkpoints' = [checkpoints EXCEPT ![h] = @ + 1]
    /\ holds' = holds \cup {<<c, h>>}
    /\ started' = IF h = height /\ ~assert_checkpointed(h)
                  THEN [started EXCEPT ![h] = held] ELSE started
    /\ UNCHANGED <<primary, changelog, height, held>>

\* Mutant: the checkpoint goes whoever else holds it.
remove_checkpoint_All(c, h) ==
    /\ <<c, h>> \in holds
    /\ checkpoints' = [checkpoints EXCEPT ![h] = 0]
    /\ holds' = holds \ {<<c, h>>}
    /\ UNCHANGED <<primary, changelog, height, history>>

remove_checkpoint(c, h) ==
    /\ <<c, h>> \in holds
    /\ checkpoints' = [checkpoints EXCEPT ![h] = IF @ <= 1 THEN 0 ELSE @ - 1]
    /\ holds' = holds \ {<<c, h>>}
    /\ UNCHANGED <<primary, changelog, height, history>>

\* The next block: a checkpoint set ahead for it begins to answer.
NextBlock ==
    /\ height < MaxHeight
    /\ height' = height + 1
    /\ held' = [k \in Keys |-> {primary[k]}]
    /\ started' = [started EXCEPT ![height + 1] = held']
    /\ UNCHANGED <<primary, checkpoints, changelog, holds>>

Next ==
    \/ \E k \in Keys, v \in Values : save(k, v)
    \/ \E k \in Keys : remove(k)
    \/ \E k \in Keys : \E action \in [{primary[k]} -> Values] : update(k, action)
    \/ \E c \in Clients, h \in Heights : add_checkpoint(c, h)
    \/ \E c \in Clients, h \in Heights : remove_checkpoint(c, h)
    \/ NextBlock

Spec == Init /\ [][Next]_vars

-----------------------------------------------------------------------------

\* Types; nothing is logged for a block that has not come.
TypeOK ==
    /\ primary \in [Keys -> Stored]
    /\ checkpoints \in [Heights -> Nat]
    /\ changelog \in [Keys -> [Heights -> Stored \cup {Unlogged}]]
    /\ height \in Heights
    /\ holds \subseteq Clients \X Heights
    /\ held \in [Keys -> SUBSET Stored]
    /\ started \in [Heights -> [Keys -> SUBSET Stored]]
    /\ \A k \in Keys, h \in Heights : h > height => changelog[k][h] = Unlogged

\* A height that answers gives each key a value the key held in that block, no
\* later than the moment the height was checkpointed: with a checkpoint set before
\* the writes of the block, and in every block under EveryBlock, that is the value
\* at the beginning of the block (may_load_at_height; the tests' "Values at
\* beginning of 3").
ReadsAreHistorical ==
    \A k \in Keys, h \in 1 .. height :
        assert_checkpointed(h) => may_load_at_height(k, h) \in started[h][k]

\* What was read at a height is what will be read at it, whatever is written and
\* whichever other checkpoints come and go (should_checkpoint_selected).
ReadsNeverChange ==
    [][\A k \in Keys, h \in 1 .. height :
         assert_checkpointed(h) /\ assert_checkpointed(h)'
           => may_load_at_height(k, h)' = may_load_at_height(k, h)]_vars

\* A checkpoint answers until every client that opened it has closed it
\* (remove_checkpoint counts them down).
HeldCheckpointsAnswer == \A hold \in holds : assert_checkpointed(hold[2])

=============================================================================
