------------------------- MODULE StorageTransaction -------------------------
(***************************************************************************)
(* The storage transactions of multi-test (src/transactions.rs).  A        *)
(* transaction keeps the storage below it untouched, caches the last write *)
(* to each key, and logs every write; committing replays the log below.    *)
(* The storage below may be the cache of another transaction, as it is for *)
(* every submessage.                                                       *)
(*                                                                         *)
(* A storage is read, but not written, while a transaction on it is open:  *)
(* the borrow checker sees to that, so only the innermost one writes.      *)
(***************************************************************************)
EXTENDS Integers, Sequences, Functions

CONSTANTS
    Keys,
    Values,
    Absent,         \* no value: the key is not in the storage, or deleted
    Untouched,      \* no entry in local_state: the key was not written
    MaxDepth,       \* bound: open transactions
    MaxWrites       \* bound: writes logged by the open transactions

ASSUME StorageAssumption ==
    /\ Absent \notin Values
    /\ Untouched \notin Values \cup {Absent}
    /\ MaxDepth \in Nat /\ MaxWrites \in Nat

VARIABLES
    base,           \* the storage of the app
    caches          \* the open transactions, the innermost last

vars == <<base, caches>>

Store == [Keys -> Values \cup {Absent}]

\* A write of a value, or of Absent for a removal; its delta is the value.
Op == [key : Keys, value : Values \cup {Absent}]

Cache ==
    [local_state : [Keys -> Values \cup {Absent, Untouched}], rep_log : Seq(Op)]

NewCache == [local_state |-> [key \in Keys |-> Untouched], rep_log |-> <<>>]

-----------------------------------------------------------------------------

Depth == Len(caches)
Innermost == caches[Depth]

\* What get returns through a cache, for every key, given what it returns below.
Overlay(below, cache) ==
    [key \in Keys |-> IF cache.local_state[key] = Untouched THEN below[key]
                      ELSE cache.local_state[key]]

\* ViewsOf(store, open)[n]: the storage as seen through the first n of open.
ViewsOf(store, open) ==
    LET view[n \in 0 .. Len(open)] ==
          IF n = 0 THEN store ELSE Overlay(view[n-1], open[n])
    IN  view

View == ViewsOf(base, caches)

\* A write to a plain storage, and one to a cache.
Applied(store, op) == [store EXCEPT ![op.key] = op.value]

\* Mutant: a key that is cached already is not logged again.
Written_LoggedOnce(cache, op) ==
    [local_state |-> [cache.local_state EXCEPT ![op.key] = op.value],
     rep_log |-> IF cache.local_state[op.key] = Untouched THEN Append(cache.rep_log, op)
                 ELSE cache.rep_log]

Written(cache, op) ==
    [local_state |-> [cache.local_state EXCEPT ![op.key] = op.value],
     rep_log |-> Append(cache.rep_log, op)]

\* The storage, and the cache, after the first n writes of a log.
StoreAfter(store, log) ==
    LET s[n \in 0 .. Len(log)] == IF n = 0 THEN store ELSE Applied(s[n-1], log[n])
    IN  s

CacheAfter(cache, log) ==
    LET c[n \in 0 .. Len(log)] == IF n = 0 THEN cache ELSE Written(c[n-1], log[n])
    IN  c

\* Mutant: the log of a nested transaction is replayed from its end.
ReplayOnCache_Reversed(cache, log) ==
    LET reversed == [n \in DOMAIN log |-> log[Len(log) + 1 - n]]
    IN  CacheAfter(cache, reversed)[Len(log)]

ReplayOnStore(store, log) == StoreAfter(store, log)[Len(log)]
ReplayOnCache(cache, log) == CacheAfter(cache, log)[Len(log)]

-----------------------------------------------------------------------------

Init == base \in Store /\ caches = <<>>

Begin ==
    /\ Depth < MaxDepth
    /\ caches' = Append(caches, NewCache)
    /\ UNCHANGED base

Logged == SumFunction([n \in 1 .. Depth |-> Len(caches[n].rep_log)])

\* set and remove of the innermost transaction.
Write ==
    /\ Depth > 0
    /\ Logged < MaxWrites
    /\ \E op \in Op : caches' = [caches EXCEPT ![Depth] = Written(@, op)]
    /\ UNCHANGED base

\* The action succeeded: its log is replayed on the storage it ran against.
Commit ==
    LET log == Innermost.rep_log
        below == SubSeq(caches, 1, Depth - 1)
    IN  \/ /\ Depth = 1
           /\ base' = ReplayOnStore(base, log)
           /\ caches' = below
        \/ /\ Depth > 1
           /\ caches' = [below EXCEPT ![Depth - 1] = ReplayOnCache(@, log)]
           /\ UNCHANGED base

\* The action failed: its cache and its log are dropped.
Rollback ==
    /\ Depth > 0
    /\ caches' = SubSeq(caches, 1, Depth - 1)
    /\ UNCHANGED base

Next == Begin \/ Write \/ Commit \/ Rollback

Spec == Init /\ [][Next]_vars

-----------------------------------------------------------------------------

\* Every storage and every cache has its type.
TypeOK == base \in Store /\ caches \in Seq(Cache)

\* What a transaction reads is what its log would make of the storage below, so
\* that committing it, at whatever depth, changes nothing for its reader.
LogMakesView ==
    \A n \in 1 .. Depth : View[n] = ReplayOnStore(View[n-1], caches[n].rep_log)

\* Cached, logged and replayed writes are together what working on a copy is.
Savepoint == INSTANCE Savepoints WITH stores <- [n \in 1 .. Depth + 1 |-> View[n-1]]
ImplementsSavepoints == Savepoint!Spec

=============================================================================
