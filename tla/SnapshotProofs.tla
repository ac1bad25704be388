--------------------------- MODULE SnapshotProofs ---------------------------
(***************************************************************************)
(* Proofs about SnapshotMap, IndexedSnapshotMap and StoredSnapshots.  A    *)
(* write to a key that has no entry since a checkpoint finds none since    *)
(* the latest one either, so it is logged, and every checkpoint reads what *)
(* it read before.  Below, the same map in bytes: after every operation    *)
(* the storage has what the map has, each collection below a name of its   *)
(* own, and so it answers as the map does.                                 *)
(*                                                                         *)
(* What holds of any storage comes from StoreLemmas, of which P is a copy. *)
(***************************************************************************)
EXTENDS StoredSnapshots, FunctionLemmas, FiniteSetTheorems

P == INSTANCE StoreLemmas

\* A set of naturals has a least element, which is the one Earliest chooses.
LEMMA EarliestExists ==
    ASSUME NEW Q \in SUBSET Nat, Q # {}
    PROVE  /\ Earliest(Q) \in Q
           /\ \A g \in Q : Earliest(Q) <= g
<1>1. \E h \in Q : \A g \in Q : h <= g
  <2>1. SUFFICES ASSUME \A h \in Q : \E g \in Q : g < h
                 PROVE  FALSE
    OBVIOUS
  <2> DEFINE T == {n \in Nat : \A m \in 0 .. n : m \notin Q}
  <2>2. 0 \in T
    BY <2>1
  <2>3. \A n \in Nat : n \in T => n + 1 \in T
    <3>1. SUFFICES ASSUME NEW n \in Nat, \A m \in 0 .. n : m \notin Q, n + 1 \in Q
                   PROVE  FALSE
      OBVIOUS
    <3>2. PICK g \in Q : g < n + 1
      BY <2>1, <3>1
    <3>3. g \in 0 .. n
      BY <3>2
    <3>4. QED
      BY <3>1, <3>3
  <2>4. \A n \in Nat : n \in T
    <3> HIDE DEF T
    <3>1. QED
      BY <2>2, <2>3, SetInduction
  <2>5. PICK h \in Q : h \in Nat
    OBVIOUS
  <2>6. h \in 0 .. h /\ \A m \in 0 .. h : m \notin Q
    BY <2>4, <2>5
  <2>7. QED
    BY <2>6
<1>2. QED
  BY <1>1 DEF Earliest

LEMMA EarliestUnique ==
    ASSUME NEW Q \in SUBSET Nat, NEW e \in Q, \A g \in Q : e <= g
    PROVE  Earliest(Q) = e
<1>1. Earliest(Q) \in Q /\ \A g \in Q : Earliest(Q) <= g
  BY EarliestExists
<1>2. Earliest(Q) <= e /\ e <= Earliest(Q) /\ Earliest(Q) \in Nat /\ e \in Nat
  BY <1>1
<1> HIDE DEF Earliest
<1>3. QED
  BY <1>2

\* A set of heights has a greatest element: the one the least distance from the top.
LEMMA LatestExists ==
    ASSUME NEW Q \in SUBSET Heights, Q # {}
    PROVE  /\ Latest(Q) \in Q
           /\ \A g \in Q : g <= Latest(Q)
<1> USE SnapshotAssumption DEF Heights
<1> DEFINE D == {MaxHeight - h : h \in Q}
<1>1. D \in SUBSET Nat /\ D # {}
  <2>1. \A h \in Q : MaxHeight - h \in Nat
    OBVIOUS
  <2>2. QED
    BY <2>1
<1>2. \E d \in D : \A g \in D : d <= g
  <2> HIDE DEF D
  <2>1. QED
    BY <1>1, EarliestExists
<1>3. PICK h \in Q : \A g \in Q : MaxHeight - h <= MaxHeight - g
  BY <1>2
<1>4. \A g \in Q : g <= h
  BY <1>3
<1>5. QED
  BY <1>4 DEF Latest

-----------------------------------------------------------------------------

LEMMA LoggedInHeights ==
    ASSUME TypeOK, NEW k \in Keys, NEW h \in Heights
    PROVE  /\ LoggedIn(k, h) \in SUBSET Nat
           /\ \A g \in LoggedIn(k, h) : g \in Heights /\ h <= g /\ g <= height
BY SnapshotAssumption DEF LoggedIn, Heights, TypeOK

LEMMA InitTypeOK == Init => TypeOK
BY SnapshotAssumption DEF Init, TypeOK, Heights, Stored

LEMMA WriteTypeOK ==
    ASSUME TypeOK, NEW k \in Keys, NEW v \in Stored, Write(k, v)
    PROVE  TypeOK'
<1>1. \/ UNCHANGED changelog
      \/ changelog' = [changelog EXCEPT ![k] = [changelog[k] EXCEPT ![height] =
                          IF @ = Unlogged THEN primary[k] ELSE @]]
  BY DEF Write, write_change
<1>2. /\ changelog \in [Keys -> [Heights -> Stored \cup {Unlogged}]]
      /\ primary[k] \in Stored \cup {Unlogged}
      /\ height \in Heights
  BY DEF TypeOK
<1>3. changelog' \in [Keys -> [Heights -> Stored \cup {Unlogged}]]
  BY <1>1, <1>2
<1>4. ASSUME NEW j \in Keys, NEW h \in Heights, h > height
      PROVE  changelog'[j][h] = Unlogged
  <2>1. h # height
    BY <1>2, <1>4 DEF Heights
  <2>2. changelog'[j][h] = changelog[j][h]
    BY <1>1, <1>2, <2>1
  <2>3. QED
    BY <1>4, <2>2 DEF TypeOK
<1>5. QED
  BY <1>3, <1>4 DEF Write, TypeOK

LEMMA TypeStep == TypeOK /\ [Next]_vars => TypeOK'
<1> SUFFICES ASSUME TypeOK, [Next]_vars
             PROVE  TypeOK'
  OBVIOUS
<1> USE SnapshotAssumption
<1>1. ASSUME NEW k \in Keys, NEW v \in Values, save(k, v)
      PROVE  TypeOK'
  BY <1>1, WriteTypeOK DEF save, Stored
<1>2. ASSUME NEW k \in Keys, remove(k)
      PROVE  TypeOK'
  BY <1>2, WriteTypeOK DEF remove, Stored
<1>3. ASSUME NEW k \in Keys, NEW action \in [{primary[k]} -> Values], update(k, action)
      PROVE  TypeOK'
  BY <1>3, <1>1 DEF update
<1>4. ASSUME NEW c \in Clients, NEW h \in Heights, add_checkpoint(c, h)
      PROVE  TypeOK'
  BY <1>4 DEF add_checkpoint, TypeOK
<1>5. ASSUME NEW c \in Clients, NEW h \in Heights, remove_checkpoint(c, h)
      PROVE  TypeOK'
  BY <1>5 DEF remove_checkpoint, TypeOK, history
<1>6. CASE NextBlock
  BY <1>6 DEF NextBlock, TypeOK, Heights
<1>7. CASE UNCHANGED vars
  BY <1>7 DEF vars, TypeOK
<1>8. QED
  BY <1>1, <1>2, <1>3, <1>4, <1>5, <1>6, <1>7 DEF Next

\* The types of the snapshot map, for any strategy, keys, values and heights.
THEOREM SnapshotTypeCorrect == Spec => []TypeOK
<1>1. Init => TypeOK
  BY InitTypeOK
<1>2. TypeOK /\ [Next]_vars => TypeOK'
  BY TypeStep
<1>3. QED
  BY <1>1, <1>2, PTL DEF Spec

-----------------------------------------------------------------------------

\* A height reads its current value when nothing is logged since, and otherwise
\* what is logged at the first entry.
LEMMA ReadFirst ==
    ASSUME TypeOK, NEW k \in Keys, NEW h \in Heights,
           NEW e \in LoggedIn(k, h), \A g \in LoggedIn(k, h) : e <= g
    PROVE  may_load_at_height(k, h) = changelog[k][e]
<1>1. LoggedIn(k, h) \in SUBSET Nat
  BY LoggedInHeights
<1>2. Earliest(LoggedIn(k, h)) = e
  BY <1>1, EarliestUnique
<1>3. QED
  BY <1>2 DEF may_load_at_height

\* The first entry since a height that answers, if it has one, stays the first.
LEMMA LoggedKeepsRead ==
    ASSUME TypeOK, TypeOK', NEW k \in Keys, NEW v \in Stored, Write(k, v),
           NEW h \in Heights, LoggedIn(k, h) # {}
    PROVE  may_load_at_height(k, h)' = may_load_at_height(k, h)
<1> DEFINE e == Earliest(LoggedIn(k, h))
<1>1. /\ e \in LoggedIn(k, h)
      /\ \A g \in LoggedIn(k, h) : e <= g
  BY LoggedInHeights, EarliestExists
<1>2. e \in Heights /\ e <= height /\ h <= e
  BY <1>1, LoggedInHeights
<1> HIDE DEF e
<1>3. /\ changelog'[k][e] = changelog[k][e]
      /\ \A g \in Heights : g # height => changelog'[k][g] = changelog[k][g]
      /\ height' = height /\ height \in Heights
  BY <1>1, <1>2 DEF Write, write_change, TypeOK, LoggedIn
<1>4. e \in LoggedIn(k, h)'
  BY <1>1, <1>3 DEF LoggedIn
<1>5. ASSUME NEW g \in LoggedIn(k, h)'
      PROVE  e <= g
  <2>1. g \in Heights /\ h <= g /\ changelog'[k][g] # Unlogged
    BY <1>5, SnapshotAssumption DEF LoggedIn, Heights
  <2>2. CASE g = height
    BY <1>2, <2>2
  <2>3. CASE g # height
    <3>1. g \in LoggedIn(k, h)
      BY <1>3, <2>1, <2>3 DEF LoggedIn, Heights
    <3>2. QED
      BY <1>1, <3>1
  <2>4. QED
    BY <2>2, <2>3
<1>6. may_load_at_height(k, h) = changelog[k][e]
  BY <1>1, ReadFirst
<1>7. LoggedIn(k, h)' \in SUBSET Nat
  BY SnapshotAssumption DEF LoggedIn, Heights
<1>8. Earliest(LoggedIn(k, h))' = e
  <2>1. Earliest(LoggedIn(k, h)') = e
    BY <1>4, <1>5, <1>7, EarliestUnique
  <2>2. QED
    BY <2>1 DEF Earliest
<1>9. may_load_at_height(k, h)' = changelog'[k][e]
  BY <1>4, <1>8 DEF may_load_at_height
<1>10. QED
  BY <1>3, <1>6, <1>9

\* A key without entries since a height that answers is logged when it is written.
LEMMA UnloggedIsLogged ==
    ASSUME TypeOK, NEW k \in Keys, NEW h \in 1 .. height,
           assert_checkpointed(h), LoggedIn(k, h) = {}
    PROVE  should_checkpoint(k)
<1>1. CASE Strategy = "EveryBlock"
  BY <1>1 DEF should_checkpoint
<1>2. CASE Strategy = "Selected" /\ checkpoints[h] > 0
  <2>1. h \in Heights
    BY SnapshotAssumption DEF Heights, TypeOK
  <2>2. h \in Open
    BY <1>2, <2>1 DEF Open
  <2>3. Open \in SUBSET Heights /\ Open # {}
    BY <2>2 DEF Open
  <2>4. Latest(Open) \in Heights /\ h <= Latest(Open)
    BY <2>2, <2>3, LatestExists
  <2>5. LoggedIn(k, Latest(Open)) = {}
    BY <2>1, <2>4, SnapshotAssumption DEF LoggedIn, Heights
  <2>6. QED
    BY <1>2, <2>3, <2>5 DEF should_checkpoint, should_checkpoint_selected
<1>3. QED
  BY <1>1, <1>2 DEF assert_checkpointed

LEMMA WriteKeepsReads ==
    ASSUME TypeOK, TypeOK', NEW k \in Keys, NEW v \in Stored, Write(k, v),
           NEW j \in Keys, NEW h \in 1 .. height, assert_checkpointed(h)
    PROVE  may_load_at_height(j, h)' = may_load_at_height(j, h)
<1>1. h \in Heights /\ height \in Heights /\ height' = height
  BY SnapshotAssumption DEF Heights, TypeOK, Write
<1>2. CASE j # k
  <2>1. changelog'[j] = changelog[j] /\ primary'[j] = primary[j]
    BY <1>2 DEF Write, write_change, TypeOK
  <2>2. LoggedIn(j, h)' = LoggedIn(j, h)
    BY <2>1 DEF LoggedIn
  <2>3. QED
    BY <2>1, <2>2 DEF may_load_at_height, Earliest
<1>3. CASE j = k /\ LoggedIn(k, h) # {}
  BY <1>1, <1>3, LoggedKeepsRead
<1>4. CASE j = k /\ LoggedIn(k, h) = {}
  <2>1. write_change(k)
    BY <1>4, UnloggedIsLogged DEF Write
  <2>2. changelog[k][height] = Unlogged
    BY <1>1, <1>4 DEF LoggedIn, Heights
  <2>3. /\ changelog'[k][height] = primary[k]
        /\ primary[k] # Unlogged
    BY <1>1, <2>1, <2>2, SnapshotAssumption DEF write_change, TypeOK, Stored
  <2>4. height \in LoggedIn(k, h)'
    BY <1>1, <2>3 DEF LoggedIn, Heights
  <2>5. \A g \in LoggedIn(k, h)' : g = height
    <3>1. \A g \in Heights : g # height => changelog'[k][g] = changelog[k][g]
      BY <1>1, <2>1 DEF write_change, TypeOK
    <3>2. QED
      BY <1>1, <1>4, <3>1 DEF LoggedIn, Heights
  <2>6. Earliest(LoggedIn(k, h))' = height
    <3>1. LoggedIn(k, h)' \in SUBSET Nat
      BY <1>1, SnapshotAssumption DEF LoggedIn, Heights
    <3>2. \A g \in LoggedIn(k, h)' : height <= g
      BY <1>1, <2>5 DEF Heights
    <3>3. Earliest(LoggedIn(k, h)') = height
      BY <2>4, <3>1, <3>2, EarliestUnique
    <3>4. QED
      BY <3>3 DEF Earliest
  <2>7. may_load_at_height(k, h)' = changelog'[k][height]
    BY <2>4, <2>6 DEF may_load_at_height
  <2>8. may_load_at_height(k, h) = primary[k]
    BY <1>4 DEF may_load_at_height
  <2>9. QED
    BY <1>4, <2>3, <2>7, <2>8
<1>5. QED
  BY <1>2, <1>3, <1>4

-----------------------------------------------------------------------------

\* No action changes what a height answers while it is checkpointed.
LEMMA StepKeepsReads ==
    ASSUME TypeOK, [Next]_vars, NEW j \in Keys, NEW h \in 1 .. height,
           assert_checkpointed(h)
    PROVE  may_load_at_height(j, h)' = may_load_at_height(j, h)
<1> USE SnapshotAssumption
<1>1. TypeOK'
  BY TypeStep
<1>2. ASSUME NEW k \in Keys, NEW v \in Stored, Write(k, v)
      PROVE  may_load_at_height(j, h)' = may_load_at_height(j, h)
  BY <1>1, <1>2, WriteKeepsReads
<1>3. ASSUME NEW k \in Keys, NEW v \in Values, save(k, v)
      PROVE  may_load_at_height(j, h)' = may_load_at_height(j, h)
  BY <1>2, <1>3 DEF save, Stored
<1>4. ASSUME NEW k \in Keys, remove(k)
      PROVE  may_load_at_height(j, h)' = may_load_at_height(j, h)
  BY <1>2, <1>4 DEF remove, Stored
<1>5. ASSUME NEW k \in Keys, NEW action \in [{primary[k]} -> Values], update(k, action)
      PROVE  may_load_at_height(j, h)' = may_load_at_height(j, h)
  BY <1>3, <1>5 DEF update
<1>6. ASSUME UNCHANGED <<primary, changelog>>
      PROVE  may_load_at_height(j, h)' = may_load_at_height(j, h)
  BY <1>6 DEF may_load_at_height, LoggedIn, Earliest
<1>7. ASSUME NEW c \in Clients, NEW g \in Heights, add_checkpoint(c, g)
      PROVE  may_load_at_height(j, h)' = may_load_at_height(j, h)
  BY <1>6, <1>7 DEF add_checkpoint
<1>8. ASSUME NEW c \in Clients, NEW g \in Heights, remove_checkpoint(c, g)
      PROVE  may_load_at_height(j, h)' = may_load_at_height(j, h)
  BY <1>6, <1>8 DEF remove_checkpoint
<1>9. CASE NextBlock
  BY <1>6, <1>9 DEF NextBlock
<1>10. CASE UNCHANGED vars
  BY <1>6, <1>10 DEF vars
<1>11. QED
  BY <1>3, <1>4, <1>5, <1>7, <1>8, <1>9, <1>10 DEF Next

\* What a checkpoint reads, it reads for as long as it is open.
THEOREM ReadsAreStable == Spec => ReadsNeverChange
<1>1. TypeOK /\ [Next]_vars =>
        [\A k \in Keys, h \in 1 .. height :
           assert_checkpointed(h) /\ assert_checkpointed(h)'
             => may_load_at_height(k, h)' = may_load_at_height(k, h)]_vars
  BY StepKeepsReads
<1>2. QED
  BY <1>1, SnapshotTypeCorrect, PTL DEF Spec, ReadsNeverChange

-----------------------------------------------------------------------------

\* What a key holds now, and what it reads at this height, it has held in this block:
\* a checkpoint may begin to answer with either.
HeldInBlock ==
    \A k \in Keys :
      /\ primary[k] \in held[k]
      /\ changelog[k][height] # Unlogged => changelog[k][height] \in held[k]

HistoryInv == TypeOK /\ HeldInBlock /\ ReadsAreHistorical

\* At the height of the block, a key reads its entry there or its current value.
LEMMA ReadNow ==
    ASSUME TypeOK, NEW k \in Keys
    PROVE  may_load_at_height(k, height) = IF changelog[k][height] = Unlogged
                                           THEN primary[k] ELSE changelog[k][height]
<1>1. height \in Heights
  BY DEF TypeOK
<1>2. \A g \in LoggedIn(k, height) : g = height
  BY <1>1, LoggedInHeights DEF Heights
<1>3. CASE changelog[k][height] = Unlogged
  <2>1. LoggedIn(k, height) = {}
    BY <1>2, <1>3 DEF LoggedIn
  <2>2. QED
    BY <1>3, <2>1 DEF may_load_at_height
<1>4. CASE changelog[k][height] # Unlogged
  <2>1. height \in LoggedIn(k, height)
    BY <1>1, <1>4, SnapshotAssumption DEF LoggedIn, Heights
  <2>2. \A g \in LoggedIn(k, height) : height <= g
    BY <1>1, <1>2 DEF Heights
  <2>3. may_load_at_height(k, height) = changelog[k][height]
    BY <1>1, <2>1, <2>2, ReadFirst
  <2>4. QED
    BY <1>4, <2>3
<1>5. QED
  BY <1>3, <1>4

LEMMA WriteHeldInBlock ==
    ASSUME HistoryInv, NEW k \in Keys, NEW v \in Stored, Write(k, v)
    PROVE  HeldInBlock'
<1>1. SUFFICES ASSUME NEW j \in Keys
               PROVE  /\ primary'[j] \in held'[j]
                      /\ changelog'[j][height] # Unlogged
                           => changelog'[j][height] \in held'[j]
  BY DEF HeldInBlock, Write
<1>2. /\ primary[j] \in held[j]
      /\ changelog[j][height] # Unlogged => changelog[j][height] \in held[j]
      /\ primary[k] \in held[k]
  BY DEF HistoryInv, HeldInBlock
<1>3. /\ primary'[j] = IF j = k THEN v ELSE primary[j]
      /\ held'[j] = IF j = k THEN held[j] \cup {v} ELSE held[j]
  BY DEF Write, HistoryInv, TypeOK
<1>4. \/ changelog'[j][height] = changelog[j][height]
      \/ j = k /\ changelog'[j][height] = primary[k]
  BY DEF Write, write_change, HistoryInv, TypeOK
<1>5. QED
  BY <1>2, <1>3, <1>4

LEMMA HistoryInit == Init => HistoryInv
<1> SUFFICES ASSUME Init
             PROVE  HistoryInv
  OBVIOUS
<1>1. TypeOK
  BY InitTypeOK
<1>2. HeldInBlock
  BY SnapshotAssumption DEF Init, HeldInBlock, Heights
<1>3. ASSUME NEW k \in Keys, NEW h \in 1 .. height
      PROVE  may_load_at_height(k, h) \in started[h][k]
  <2>1. h \in Heights
    BY <1>1, <1>3, SnapshotAssumption DEF TypeOK, Heights
  <2>2. LoggedIn(k, h) = {}
    BY <2>1, SnapshotAssumption DEF Init, LoggedIn, Heights
  <2>3. QED
    BY <2>1, <2>2 DEF Init, may_load_at_height
<1>4. QED
  BY <1>1, <1>2, <1>3 DEF HistoryInv, ReadsAreHistorical

\* When no height begins to answer, what the others read is still right.
LEMMA HistoryKept ==
    ASSUME HistoryInv, [Next]_vars, UNCHANGED <<height, started>>,
           \A h \in 1 .. height : assert_checkpointed(h)' => assert_checkpointed(h)
    PROVE  ReadsAreHistorical'
<1>1. SUFFICES ASSUME NEW k \in Keys, NEW h \in 1 .. height, assert_checkpointed(h)'
               PROVE  may_load_at_height(k, h)' \in started[h][k]
  BY DEF ReadsAreHistorical
<1>2. assert_checkpointed(h)
  BY <1>1
<1>3. may_load_at_height(k, h)' = may_load_at_height(k, h)
  BY <1>1, <1>2, StepKeepsReads DEF HistoryInv
<1>4. QED
  BY <1>1, <1>2, <1>3 DEF HistoryInv, ReadsAreHistorical

LEMMA WriteHistory ==
    ASSUME HistoryInv, [Next]_vars, NEW k \in Keys, NEW v \in Stored, Write(k, v)
    PROVE  HistoryInv'
<1>1. TypeOK'
  BY TypeStep DEF HistoryInv
<1>2. HeldInBlock'
  BY WriteHeldInBlock
<1>3. ReadsAreHistorical'
  BY HistoryKept DEF Write, assert_checkpointed
<1>4. QED
  BY <1>1, <1>2, <1>3 DEF HistoryInv

LEMMA AddCheckpointHistory ==
    ASSUME HistoryInv, [Next]_vars, NEW c \in Clients, NEW g \in Heights,
           add_checkpoint(c, g)
    PROVE  HistoryInv'
<1> USE SnapshotAssumption
<1>1. TypeOK /\ TypeOK'
  BY TypeStep DEF HistoryInv
<1>2. HeldInBlock'
  BY DEF HistoryInv, HeldInBlock, add_checkpoint
<1>3. ASSUME NEW k \in Keys, NEW h \in 1 .. height, assert_checkpointed(h)'
      PROVE  may_load_at_height(k, h)' \in started'[h][k]
  <2>1. h \in Heights /\ height \in Heights
    BY <1>1 DEF TypeOK, Heights
  <2>2. CASE assert_checkpointed(h)
    <3>1. started'[h] = started[h]
      BY <1>1, <2>1, <2>2 DEF add_checkpoint, TypeOK
    <3>2. may_load_at_height(k, h)' = may_load_at_height(k, h)
      BY <1>1, <2>2, StepKeepsReads
    <3>3. QED
      BY <2>2, <3>1, <3>2 DEF HistoryInv, ReadsAreHistorical
  <2>3. CASE ~assert_checkpointed(h)
    <3>1. h = g
      BY <1>1, <1>3, <2>1, <2>3 DEF assert_checkpointed, add_checkpoint, TypeOK
    <3>2. h = height
      BY <2>1, <3>1 DEF add_checkpoint, Heights
    <3>3. started'[h] = held
      BY <1>1, <2>1, <2>3, <3>1, <3>2 DEF add_checkpoint, TypeOK
    <3>4. may_load_at_height(k, h)' = may_load_at_height(k, h)
      BY DEF add_checkpoint, may_load_at_height, LoggedIn, Earliest
    <3>5. may_load_at_height(k, h) \in held[k]
      BY <1>1, <3>2, ReadNow DEF HistoryInv, HeldInBlock
    <3>6. QED
      BY <3>3, <3>4, <3>5
  <2>4. QED
    BY <2>2, <2>3
<1>4. ReadsAreHistorical'
  BY <1>3 DEF ReadsAreHistorical, add_checkpoint
<1>5. QED
  BY <1>1, <1>2, <1>4 DEF HistoryInv

LEMMA NextBlockHistory ==
    ASSUME HistoryInv, [Next]_vars, NextBlock
    PROVE  HistoryInv'
<1> USE SnapshotAssumption
<1>1. TypeOK /\ TypeOK'
  BY TypeStep DEF HistoryInv
<1>2. /\ height \in Heights /\ height' = height + 1 /\ height + 1 \in Heights
      /\ \A k \in Keys : held'[k] = {primary[k]} /\ changelog[k][height + 1] = Unlogged
      /\ UNCHANGED <<primary, changelog, checkpoints>>
  BY <1>1 DEF NextBlock, TypeOK, Heights
<1>3. HeldInBlock'
  BY <1>2 DEF HeldInBlock
<1>4. ASSUME NEW k \in Keys, NEW h \in 1 .. height + 1, assert_checkpointed(h)'
      PROVE  may_load_at_height(k, h)' \in started'[h][k]
  <2>1. h \in Heights /\ assert_checkpointed(h)
    BY <1>2, <1>4 DEF Heights, assert_checkpointed
  <2>2. CASE h = height + 1
    <3>1. started'[h] = held'
      BY <1>1, <2>1, <2>2 DEF NextBlock, TypeOK
    <3>2. LoggedIn(k, h)' = {}
      BY <1>1, <1>2, <2>2 DEF LoggedIn, TypeOK, Heights
    <3>3. may_load_at_height(k, h)' = primary'[k]
      BY <3>2 DEF may_load_at_height
    <3>4. QED
      BY <1>2, <2>2, <3>1, <3>3
  <2>3. CASE h # height + 1
    <3>1. h \in 1 .. height
      BY <1>2, <1>4, <2>3 DEF Heights
    <3>2. started'[h] = started[h]
      BY <1>1, <2>1, <2>3 DEF NextBlock, TypeOK
    <3>3. may_load_at_height(k, h)' = may_load_at_height(k, h)
      BY <1>1, <2>1, <3>1, StepKeepsReads
    <3>4. QED
      BY <2>1, <3>1, <3>2, <3>3 DEF HistoryInv, ReadsAreHistorical
  <2>4. QED
    BY <2>2, <2>3
<1>5. ReadsAreHistorical'
  BY <1>2, <1>4 DEF ReadsAreHistorical
<1>6. QED
  BY <1>1, <1>3, <1>5 DEF HistoryInv

LEMMA HistoryStep == HistoryInv /\ [Next]_vars => HistoryInv'
<1> SUFFICES ASSUME HistoryInv, [Next]_vars
             PROVE  HistoryInv'
  OBVIOUS
<1>1. TypeOK'
  BY TypeStep DEF HistoryInv
<1>2. ASSUME NEW k \in Keys, NEW v \in Values, save(k, v)
      PROVE  HistoryInv'
  BY <1>2, WriteHistory DEF save, Stored
<1>3. ASSUME NEW k \in Keys, remove(k)
      PROVE  HistoryInv'
  BY <1>3, WriteHistory DEF remove, Stored
<1>4. ASSUME NEW k \in Keys, NEW action \in [{primary[k]} -> Values], update(k, action)
      PROVE  HistoryInv'
  BY <1>2, <1>4 DEF update
<1>5. ASSUME NEW c \in Clients, NEW g \in Heights, add_checkpoint(c, g)
      PROVE  HistoryInv'
  BY <1>5, AddCheckpointHistory
<1>6. ASSUME NEW c \in Clients, NEW g \in Heights, remove_checkpoint(c, g)
      PROVE  HistoryInv'
  <2>1. HeldInBlock'
    BY <1>6 DEF HistoryInv, HeldInBlock, remove_checkpoint, history
  <2>2. \A h \in 1 .. height : assert_checkpointed(h)' => assert_checkpointed(h)
    BY <1>6, SnapshotAssumption
    DEF remove_checkpoint, assert_checkpointed, HistoryInv, TypeOK, Heights
  <2>3. ReadsAreHistorical'
    BY <1>6, <2>2, HistoryKept DEF remove_checkpoint, history
  <2>4. QED
    BY <1>1, <2>1, <2>3 DEF HistoryInv
<1>7. CASE NextBlock
  BY <1>7, NextBlockHistory
<1>8. CASE UNCHANGED vars
  <2>1. HeldInBlock'
    BY <1>8 DEF HistoryInv, HeldInBlock, vars
  <2>2. ReadsAreHistorical'
    BY <1>8, HistoryKept DEF vars, assert_checkpointed
  <2>3. QED
    BY <1>1, <2>1, <2>2 DEF HistoryInv
<1>9. QED
  BY <1>2, <1>3, <1>4, <1>5, <1>6, <1>7, <1>8 DEF Next

\* A height that answers does so with values of its own block.
THEOREM ReadsCorrect == Spec => []ReadsAreHistorical
<1>1. Init => HistoryInv
  BY HistoryInit
<1>2. HistoryInv /\ [Next]_vars => HistoryInv'
  BY HistoryStep
<1>3. HistoryInv => ReadsAreHistorical
  BY DEF HistoryInv
<1>4. QED
  BY <1>1, <1>2, <1>3, PTL DEF Spec

-----------------------------------------------------------------------------

\* A checkpoint is counted once for every client that holds it.
Holders(h) == {c \in Clients : <<c, h>> \in holds}

CountsHolders == \A h \in Heights : checkpoints[h] = Cardinality(Holders(h))

LEMMA HoldersFinite == \A h : IsFiniteSet(Holders(h))
<1>1. \A h : Holders(h) \subseteq Clients
  BY DEF Holders
<1>2. QED
  BY <1>1, FS_Subset, SnapshotAssumption

LEMMA CountsStep == TypeOK /\ CountsHolders /\ [Next]_vars => CountsHolders'
<1> SUFFICES ASSUME TypeOK, CountsHolders, [Next]_vars
             PROVE  CountsHolders'
  OBVIOUS
<1>1. ASSUME UNCHANGED <<checkpoints, holds>>
      PROVE  CountsHolders'
  BY <1>1 DEF CountsHolders, Holders
<1>2. ASSUME NEW c \in Clients, NEW g \in Heights, add_checkpoint(c, g)
      PROVE  CountsHolders'
  <2>1. SUFFICES ASSUME NEW h \in Heights
                 PROVE  checkpoints'[h] = Cardinality(Holders(h)')
    BY DEF CountsHolders
  <2>2. CASE h = g
    <3>1. Holders(h)' = Holders(h) \cup {c} /\ c \notin Holders(h)
      BY <1>2, <2>2 DEF add_checkpoint, Holders
    <3>2. Cardinality(Holders(h)') = Cardinality(Holders(h)) + 1
      BY <3>1, HoldersFinite, FS_AddElement
    <3>3. QED
      BY <1>2, <2>2, <3>2 DEF add_checkpoint, CountsHolders, TypeOK
  <2>3. CASE h # g
    <3>1. Holders(h)' = Holders(h)
      BY <1>2, <2>3 DEF add_checkpoint, Holders
    <3>2. QED
      BY <1>2, <2>3, <3>1 DEF add_checkpoint, CountsHolders, TypeOK
  <2>4. QED
    BY <2>2, <2>3
<1>3. ASSUME NEW c \in Clients, NEW g \in Heights, remove_checkpoint(c, g)
      PROVE  CountsHolders'
  <2>1. SUFFICES ASSUME NEW h \in Heights
                 PROVE  checkpoints'[h] = Cardinality(Holders(h)')
    BY DEF CountsHolders
  <2>2. CASE h = g
    <3>1. Holders(h)' = Holders(h) \ {c} /\ c \in Holders(h)
      BY <1>3, <2>2 DEF remove_checkpoint, Holders, TypeOK
    <3>2. /\ Cardinality(Holders(h)') = Cardinality(Holders(h)) - 1
          /\ Cardinality(Holders(h)) \in Nat
      BY <3>1, HoldersFinite, FS_RemoveElement, FS_CardinalityType
    <3>3. Cardinality(Holders(h)') \in Nat
      <4>1. IsFiniteSet(Holders(h)')
        BY <3>1, HoldersFinite, FS_RemoveElement
      <4>2. QED
        BY <4>1, FS_CardinalityType
    <3>4. checkpoints[h] = Cardinality(Holders(h))
      BY DEF CountsHolders
    <3>5. checkpoints'[h] = IF checkpoints[h] <= 1 THEN 0 ELSE checkpoints[h] - 1
      BY <1>3, <2>2 DEF remove_checkpoint, TypeOK
    <3>6. QED
      BY <3>2, <3>3, <3>4, <3>5
  <2>3. CASE h # g
    <3>1. Holders(h)' = Holders(h)
      BY <1>3, <2>3 DEF remove_checkpoint, Holders
    <3>2. QED
      BY <1>3, <2>3, <3>1 DEF remove_checkpoint, CountsHolders, TypeOK
  <2>4. QED
    BY <2>2, <2>3
<1>4. QED
  BY <1>1, <1>2, <1>3 DEF Next, save, remove, update, Write, NextBlock, vars

LEMMA CountsAnswer ==
    ASSUME TypeOK, CountsHolders, Strategy # "Never"
    PROVE  HeldCheckpointsAnswer
<1>1. SUFFICES ASSUME NEW hold \in holds, Strategy = "Selected"
               PROVE  checkpoints[hold[2]] > 0
  BY SnapshotAssumption DEF HeldCheckpointsAnswer, assert_checkpointed
<1>2. PICK c \in Clients, h \in Heights : hold = <<c, h>>
  BY DEF TypeOK
<1>3. c \in Holders(h)
  BY <1>2 DEF Holders
<1>4. Cardinality(Holders(h)) \in Nat /\ Cardinality(Holders(h)) # 0
  BY <1>3, HoldersFinite, FS_CardinalityType, FS_EmptySet
<1>5. QED
  BY <1>2, <1>4 DEF CountsHolders

\* A checkpoint answers until the last client that opened it has closed it.
THEOREM CheckpointsHeld == Spec => [](Strategy # "Never" => HeldCheckpointsAnswer)
<1>1. Init => CountsHolders
  BY FS_EmptySet DEF Init, CountsHolders, Holders
<1>2. TypeOK /\ CountsHolders /\ [Next]_vars => CountsHolders'
  BY CountsStep
<1>3. TypeOK /\ CountsHolders => (Strategy # "Never" => HeldCheckpointsAnswer)
  BY CountsAnswer
<1>4. QED
  BY <1>1, <1>2, <1>3, SnapshotTypeCorrect, PTL DEF Spec

-----------------------------------------------------------------------------

\* An indexed map is a snapshot map: a step of one is a step, or a stutter, of the other.
LEMMA IndexedStep == [IndexedNext]_indexedVars => [Next]_vars
<1> SUFFICES ASSUME [IndexedNext]_indexedVars
             PROVE  [Next]_vars
  OBVIOUS
<1>1. ASSUME NEW k \in Keys, NEW data \in Values, replace(k, data)
      PROVE  Next
  BY <1>1 DEF replace, Next
<1>2. ASSUME NEW k \in Keys, NEW data \in Values, replace_fails(k, data)
      PROVE  UNCHANGED vars
  BY <1>2 DEF replace_fails, indexedVars
<1>3. ASSUME NEW k \in Keys, NEW action \in [{primary[k]} -> Values],
             indexed_update(k, action)
      PROVE  Next
  BY <1>1, <1>3 DEF indexed_update
<1>4. ASSUME NEW k \in Keys, replace_none(k)
      PROVE  Next
  BY <1>4 DEF replace_none, Next
<1>5. CASE PassThrough
  BY <1>5 DEF PassThrough, Next
<1>6. CASE UNCHANGED indexedVars
  BY <1>6 DEF indexedVars
<1>7. QED
  BY <1>1, <1>2, <1>3, <1>4, <1>5, <1>6 DEF IndexedNext

\* What holds of every snapshot map holds of the indexed one.
THEOREM IndexedRefinement == IndexedSpec => ImplementsSnapshotMap
<1>1. IndexedInit => Init
  BY DEF IndexedInit
<1>2. QED
  BY <1>1, IndexedStep, PTL DEF IndexedSpec, ImplementsSnapshotMap, Spec

-----------------------------------------------------------------------------

IndexInv == TypeOK /\ IndexTypeOK /\ IndexesMatchPrimary

LEMMA WithoutTypes ==
    ASSUME IndexInv, NEW k \in Keys
    PROVE  /\ MultiWithout(k, primary[k]) \in [MultiKeys -> [Keys -> {None, PkLen}]]
           /\ UniqueWithout(k, primary[k]) \in [UniqueKeys -> UniqueRef \cup {None}]
<1>1. primary[k] # None => primary[k] \in Values
  BY DEF IndexInv, TypeOK, Stored
<1>2. QED
  BY <1>1 DEF IndexInv, IndexTypeOK, MultiWithout, UniqueWithout

\* Without a key, an index lists the other keys only.
LEMMA WithoutMatch ==
    ASSUME IndexInv, NEW k \in Keys
    PROVE  /\ \A m \in MultiKeys, j \in Keys :
                MultiWithout(k, primary[k])[m][j] = PkLen
                  <=> j # k /\ primary[j] # None /\ MultiKey[primary[j]] = m
           /\ \A u \in UniqueKeys, j \in Keys, v \in Values :
                UniqueWithout(k, primary[k])[u] = <<j, v>>
                  <=> j # k /\ primary[j] = v /\ UniqueKey[v] = u
<1> USE SnapshotAssumption, IndexAssumption
<1>1. /\ \A m \in MultiKeys, j \in Keys :
           multi[m][j] = PkLen <=> primary[j] # None /\ MultiKey[primary[j]] = m
      /\ \A u \in UniqueKeys, j \in Keys, v \in Values :
           unique[u] = <<j, v>> <=> primary[j] = v /\ UniqueKey[v] = u
  BY DEF IndexInv, IndexesMatchPrimary
<1>2. /\ multi \in [MultiKeys -> [Keys -> {None, PkLen}]]
      /\ unique \in [UniqueKeys -> UniqueRef \cup {None}]
      /\ primary \in [Keys -> Values \cup {None}]
  BY DEF IndexInv, IndexTypeOK, TypeOK, Stored
<1>3. CASE primary[k] = None
  BY <1>1, <1>2, <1>3 DEF MultiWithout, UniqueWithout
<1>4. CASE primary[k] # None
  <2>1. /\ primary[k] \in Values
        /\ MultiKey[primary[k]] \in MultiKeys
        /\ UniqueKey[primary[k]] \in UniqueKeys
    BY <1>2, <1>4
  <2>2. ASSUME NEW m \in MultiKeys, NEW j \in Keys
        PROVE  MultiWithout(k, primary[k])[m][j] = PkLen
                 <=> j # k /\ primary[j] # None /\ MultiKey[primary[j]] = m
    <3>1. MultiWithout(k, primary[k])[m][j] =
            IF j = k /\ m = MultiKey[primary[k]] THEN None ELSE multi[m][j]
      BY <1>2, <1>4, <2>1 DEF MultiWithout
    <3>2. QED
      BY <1>1, <3>1
  <2>3. ASSUME NEW u \in UniqueKeys, NEW j \in Keys, NEW v \in Values
        PROVE  UniqueWithout(k, primary[k])[u] = <<j, v>>
                 <=> j # k /\ primary[j] = v /\ UniqueKey[v] = u
    <3>1. UniqueWithout(k, primary[k])[u] =
            IF u = UniqueKey[primary[k]] THEN None ELSE unique[u]
      BY <1>2, <1>4, <2>1 DEF UniqueWithout
    <3>2. None # <<j, v>>
      OBVIOUS
    <3>3. CASE u = UniqueKey[primary[k]]
      <4>1. unique[u] = <<k, primary[k]>>
        BY <1>1, <2>1, <3>3
      <4>2. primary[j] = v /\ UniqueKey[v] = u => j = k
        BY <1>1, <4>1
      <4>3. QED
        BY <3>1, <3>2, <3>3, <4>2
    <3>4. CASE u # UniqueKey[primary[k]]
      BY <1>1, <3>1, <3>4
    <3>5. QED
      BY <3>3, <3>4
  <2>4. QED
    BY <2>2, <2>3
<1>5. QED
  BY <1>3, <1>4

LEMMA ReplaceMatches ==
    ASSUME IndexInv, NEW k \in Keys, NEW data \in Values, replace(k, data)
    PROVE  IndexTypeOK' /\ IndexesMatchPrimary'
<1> USE SnapshotAssumption, IndexAssumption
<1> DEFINE mw == MultiWithout(k, primary[k])
           uw == UniqueWithout(k, primary[k])
<1>1. /\ mw \in [MultiKeys -> [Keys -> {None, PkLen}]]
      /\ uw \in [UniqueKeys -> UniqueRef \cup {None}]
      /\ MultiKey[data] \in MultiKeys /\ UniqueKey[data] \in UniqueKeys
  BY WithoutTypes
<1>2. /\ \A m \in MultiKeys, j \in Keys :
           mw[m][j] = PkLen <=> j # k /\ primary[j] # None /\ MultiKey[primary[j]] = m
      /\ \A u \in UniqueKeys, j \in Keys, v \in Values :
           uw[u] = <<j, v>> <=> j # k /\ primary[j] = v /\ UniqueKey[v] = u
  BY WithoutMatch
<1>3. /\ uw[UniqueKey[data]] = None
      /\ multi' = [mw EXCEPT ![MultiKey[data]] = [mw[MultiKey[data]] EXCEPT ![k] = PkLen]]
      /\ unique' = [uw EXCEPT ![UniqueKey[data]] = <<k, data>>]
  BY DEF replace, Violates, IndexAs
<1>4. /\ primary'[k] = data
      /\ \A j \in Keys : j # k => primary'[j] = primary[j]
  BY DEF replace, save, Write, IndexInv, TypeOK
<1> HIDE DEF mw, uw
<1>5. IndexTypeOK'
  BY <1>1, <1>3 DEF IndexTypeOK, UniqueRef
<1>6. ASSUME NEW m \in MultiKeys, NEW j \in Keys
      PROVE  multi'[m][j] = PkLen <=> primary'[j] # None /\ MultiKey[primary'[j]] = m
  <2>1. multi'[m][j] = IF j = k /\ m = MultiKey[data] THEN PkLen ELSE mw[m][j]
    BY <1>1, <1>3
  <2>2. QED
    BY <1>2, <1>4, <2>1
<1>7. ASSUME NEW u \in UniqueKeys, NEW j \in Keys, NEW v \in Values
      PROVE  unique'[u] = <<j, v>> <=> primary'[j] = v /\ UniqueKey[v] = u
  <2>1. unique'[u] = IF u = UniqueKey[data] THEN <<k, data>> ELSE uw[u]
    BY <1>1, <1>3
  <2>2. CASE u = UniqueKey[data]
    <3>1. <<j, v>> \in Keys \X Values
      OBVIOUS
    <3>2. uw[u] # <<j, v>>
      BY <1>3, <2>2, <3>1
    <3>3. j # k => ~(primary[j] = v /\ UniqueKey[v] = u)
      BY <1>2, <3>2
    <3>4. QED
      BY <1>4, <2>1, <2>2, <3>3
  <2>3. CASE u # UniqueKey[data]
    BY <1>2, <1>4, <2>1, <2>3
  <2>4. QED
    BY <2>2, <2>3
<1>8. QED
  BY <1>5, <1>6, <1>7 DEF IndexesMatchPrimary

LEMMA RemoveMatches ==
    ASSUME IndexInv, NEW k \in Keys, replace_none(k)
    PROVE  IndexTypeOK' /\ IndexesMatchPrimary'
<1> USE SnapshotAssumption, IndexAssumption
<1>1. /\ primary'[k] = None
      /\ \A j \in Keys : j # k => primary'[j] = primary[j]
      /\ multi' = MultiWithout(k, primary[k])
      /\ unique' = UniqueWithout(k, primary[k])
  BY DEF replace_none, remove, Write, IndexInv, TypeOK
<1>2. IndexTypeOK'
  BY <1>1, WithoutTypes DEF IndexTypeOK
<1>3. ASSUME NEW m \in MultiKeys, NEW j \in Keys
      PROVE  multi'[m][j] = PkLen <=> primary'[j] # None /\ MultiKey[primary'[j]] = m
  BY <1>1, WithoutMatch
<1>4. ASSUME NEW u \in UniqueKeys, NEW j \in Keys, NEW v \in Values
      PROVE  unique'[u] = <<j, v>> <=> primary'[j] = v /\ UniqueKey[v] = u
  <2>1. UniqueWithout(k, primary[k])[u] = <<j, v>>
          <=> j # k /\ primary[j] = v /\ UniqueKey[v] = u
    BY WithoutMatch, SMTT(60)
  <2>2. j = k => primary'[j] # v
    BY <1>1
  <2>3. j # k => primary'[j] = primary[j]
    BY <1>1
  <2>4. unique'[u] = UniqueWithout(k, primary[k])[u]
    BY <1>1
  <2>5. QED
    BY <2>1, <2>2, <2>3, <2>4
<1>5. QED
  BY <1>2, <1>3, <1>4 DEF IndexesMatchPrimary

LEMMA IndexInit == IndexedInit => IndexInv
<1> SUFFICES ASSUME IndexedInit
             PROVE  IndexInv
  OBVIOUS
<1> USE SnapshotAssumption, IndexAssumption
<1>1. TypeOK
  BY InitTypeOK DEF IndexedInit
<1>2. IndexTypeOK
  BY DEF IndexedInit, IndexTypeOK
<1>3. IndexesMatchPrimary
  BY DEF IndexedInit, Init, IndexesMatchPrimary
<1>4. QED
  BY <1>1, <1>2, <1>3 DEF IndexInv

LEMMA IndexStep == IndexInv /\ [IndexedNext]_indexedVars => IndexInv'
<1> SUFFICES ASSUME IndexInv, [IndexedNext]_indexedVars
             PROVE  IndexInv'
  OBVIOUS
<1>1. TypeOK'
  BY IndexedStep, TypeStep DEF IndexInv
<1>2. ASSUME NEW k \in Keys, NEW data \in Values, replace(k, data)
      PROVE  IndexInv'
  BY <1>1, <1>2, ReplaceMatches DEF IndexInv
<1>3. ASSUME NEW k \in Keys, NEW action \in [{primary[k]} -> Values],
             indexed_update(k, action)
      PROVE  IndexInv'
  BY <1>2, <1>3 DEF indexed_update
<1>4. ASSUME NEW k \in Keys, replace_none(k)
      PROVE  IndexInv'
  BY <1>1, <1>4, RemoveMatches DEF IndexInv
<1>5. ASSUME UNCHANGED <<primary, indexes>>
      PROVE  IndexInv'
  BY <1>1, <1>5 DEF IndexInv, IndexTypeOK, IndexesMatchPrimary, indexes
<1>6. ASSUME NEW k \in Keys, NEW data \in Values, replace_fails(k, data)
      PROVE  IndexInv'
  BY <1>5, <1>6 DEF replace_fails, indexedVars, vars
<1>7. CASE PassThrough
  BY <1>5, <1>7 DEF PassThrough, add_checkpoint, remove_checkpoint, NextBlock
<1>8. CASE UNCHANGED indexedVars
  BY <1>5, <1>8 DEF indexedVars, vars
<1>9. QED
  BY <1>2, <1>3, <1>4, <1>6, <1>7, <1>8 DEF IndexedNext

\* The indexes stay in step with the map, whatever is saved, refused or removed.
THEOREM IndexesCorrect == IndexedSpec => []IndexesMatchPrimary
<1>1. IndexedInit => IndexInv
  BY IndexInit
<1>2. IndexInv /\ [IndexedNext]_indexedVars => IndexInv'
  BY IndexStep
<1>3. IndexInv => IndexesMatchPrimary
  BY DEF IndexInv
<1>4. QED
  BY <1>1, <1>2, <1>3, PTL DEF IndexedSpec

-----------------------------------------------------------------------------
(* The storage operations of StoredSnapshots are those StoreLemmas is      *)
(* about.                                                                  *)

\* The same keys and numbers,
LEMMA SameKeys ==
    /\ \A key : S!joined_key(key) = P!joined_key(key)
    /\ \A h : S!u64_key(h) = P!u64_key(h)
BY DEF S!joined_key, P!joined_key, S!namespaces_with_key, P!namespaces_with_key,
       S!to_length_prefixed_nested, P!to_length_prefixed_nested,
       S!to_length_prefixed, P!to_length_prefixed, S!encode_length, P!encode_length,
       S!FlattenSeq, P!FlattenSeq, S!Front, P!Front, S!Last, P!Last,
       S!u64_key, P!u64_key, S!cw_uint_to_cw_bytes, P!cw_uint_to_cw_bytes,
       S!to_be_bytes, P!to_be_bytes

LEMMA SameMax == \A Q : S!Max(Q) = P!Max(Q)
BY DEF S!Max, P!Max

LEMMA SameUnsigned ==
    ASSUME NEW b
    PROVE  S!cw_uint_from_cw_bytes(b) = P!cw_uint_from_cw_bytes(b)
<1> DEFINE I(h) == [Q \in SUBSET DOMAIN b |-> IF Q = {} THEN 0 ELSE 256 * h[Q \ {S!Max(Q)}] + b[S!Max(Q)]]
           J(h) == [Q \in SUBSET DOMAIN b |-> IF Q = {} THEN 0 ELSE 256 * h[Q \ {P!Max(Q)}] + b[P!Max(Q)]]
<1>1. /\ S!cw_uint_from_cw_bytes(b) = (CHOOSE h : h = I(h))[DOMAIN b]
      /\ P!cw_uint_from_cw_bytes(b) = (CHOOSE h : h = J(h))[DOMAIN b]
  BY DEF S!cw_uint_from_cw_bytes, P!cw_uint_from_cw_bytes, S!Unsigned, P!Unsigned,
         S!FoldLeft, P!FoldLeft, S!MapThenFoldSet, P!MapThenFoldSet
<1>2. \A h : I(h) = J(h)
  BY SameMax
<1> HIDE DEF I, J
<1>3. QED
  BY <1>1, <1>2

\* the same paths and the same storage,
LEMMA SamePaths ==
    /\ \A n, key : S!Path(n, key) = P!Path(n, key)
    /\ \A n, sub : S!Prefix(n, sub) = P!Prefix(n, sub)
    /\ \A key, extra : S!joined_extra_key(key, extra) = P!joined_extra_key(key, extra)
BY DEF S!Path, P!Path, S!Prefix, P!Prefix, S!joined_extra_key, P!joined_extra_key,
       S!nested_namespaces_with_key, P!nested_namespaces_with_key,
       S!namespaces_with_key, P!namespaces_with_key,
       S!to_length_prefixed_nested, P!to_length_prefixed_nested,
       S!to_length_prefixed, P!to_length_prefixed, S!encode_length, P!encode_length,
       S!FlattenSeq, P!FlattenSeq, S!Front, P!Front, S!Last, P!Last

LEMMA SameStorage ==
    /\ \A s, x : S!get(s, x) = P!get(s, x) /\ S!may_load(s, x) = P!may_load(s, x)
    /\ \A s, x : S!has(s, x) = P!has(s, x)
    /\ \A s, x : S!remove(s, x) = P!remove(s, x)
    /\ \A s, x, v : S!set(s, x, v) = P!set(s, x, v) /\ S!save(s, x, v) = P!save(s, x, v)
BY DEF S!get, P!get, S!may_load, P!may_load, S!has, P!has, S!remove, P!remove, S!set, P!set,
       S!save, P!save

LEMMA SameCardinality ==
    \A Q : Cardinality(Q) = P!Cardinality(Q) /\ S!Cardinality(Q) = P!Cardinality(Q)
BY DEF Cardinality, S!Cardinality, P!Cardinality

\* the same order,
LEMMA SameBefore == \A a, b : S!BytesBefore(a, b) = P!BytesBefore(a, b)
BY DEF S!BytesBefore, P!BytesBefore, S!IsStrictPrefix, P!IsStrictPrefix, S!IsPrefix, P!IsPrefix

LEMMA SameOrder ==
    ASSUME NEW Q
    PROVE  S!InOrder(Q, S!BytesBefore) = P!InOrder(Q, P!BytesBefore)
<1> DEFINE Lower(x) == {y \in Q : S!BytesBefore(y, x)}
           Other(x) == {y \in Q : P!BytesBefore(y, x)}
<1>1. \A x : Lower(x) = Other(x)
  BY SameBefore
<1>2. /\ S!InOrder(Q, S!BytesBefore)
           = [i \in 1 .. S!Cardinality(Q) |-> CHOOSE x \in Q : S!Cardinality(Lower(x)) = i - 1]
      /\ P!InOrder(Q, P!BytesBefore)
           = [i \in 1 .. P!Cardinality(Q) |-> CHOOSE x \in Q : P!Cardinality(Other(x)) = i - 1]
  BY DEF S!InOrder, P!InOrder
<1> HIDE DEF Lower, Other
<1>3. \A i : (CHOOSE x \in Q : S!Cardinality(Lower(x)) = i - 1)
           = (CHOOSE x \in Q : P!Cardinality(Other(x)) = i - 1)
  BY <1>1, SameCardinality
<1>4. QED
  BY <1>2, <1>3, SameCardinality

\* the same ranges,
LEMMA SameRange ==
    ASSUME NEW s, NEW start, NEW end, NEW order
    PROVE  S!storage_range(s, start, end, order) = P!storage_range(s, start, end, order)
<1> DEFINE in == {k \in DOMAIN s : ~S!BytesBefore(k, start) /\ S!BytesBefore(k, end)}
           other == {k \in DOMAIN s : ~P!BytesBefore(k, start) /\ P!BytesBefore(k, end)}
           f == S!InOrder(in, S!BytesBefore)
           g == P!InOrder(other, P!BytesBefore)
<1>1. in = other
  BY SameBefore
<1>2. f = g
  <2> HIDE DEF in, other
  <2>1. QED
    BY <1>1, SameOrder
<1>3. \A q : S!Reverse(q) = P!Reverse(q)
  BY DEF S!Reverse, P!Reverse
<1> DEFINE l == IF order = "Ascending" THEN f ELSE S!Reverse(f)
           m == IF order = "Ascending" THEN g ELSE P!Reverse(g)
<1>4. /\ S!storage_range(s, start, end, order) = [i \in 1 .. Len(l) |-> <<l[i], s[l[i]]>>]
      /\ P!storage_range(s, start, end, order) = [i \in 1 .. Len(m) |-> <<m[i], s[m[i]]>>]
  BY DEF S!storage_range, P!storage_range
<1>5. l = m
  <2> HIDE DEF f, g
  <2>1. QED
    BY <1>2, <1>3
<1> HIDE DEF l, m
<1>6. QED
  BY <1>4, <1>5

LEMMA SameBounds ==
    /\ \A p, b : S!calc_start_bound(p, b) = P!calc_start_bound(p, b)
    /\ \A p, b : S!calc_end_bound(p, b) = P!calc_end_bound(p, b)
    /\ \A key : S!inclusive(key) = P!inclusive(key)
BY SameKeys DEF S!calc_start_bound, P!calc_start_bound, S!calc_end_bound, P!calc_end_bound,
   S!concat, P!concat, S!extend_one_byte, P!extend_one_byte, S!increment_last_byte, P!increment_last_byte,
   S!Max, P!Max, S!inclusive, P!inclusive, S!RawBound, P!RawBound

LEMMA SameFound ==
    \A s, p, min, max, order :
        S!range_with_prefix(s, p, min, max, order) = P!range_with_prefix(s, p, min, max, order)
BY SameRange, SameBounds DEF S!range_with_prefix, P!range_with_prefix, S!Trimmed, P!Trimmed, S!trim, P!trim

LEMMA SameRaw ==
    ASSUME NEW s, NEW p, NEW min, NEW max, NEW order
    PROVE  /\ S!range_raw(s, p, min, max, order) = P!range_raw(s, p, min, max, order)
           /\ S!range(s, p, 1, min, max, order) = P!range(s, p, 1, min, max, order)
BY SameFound
   DEF S!range_raw, P!range_raw, S!range, P!range, S!MapEach, P!MapEach,
       S!deserialize_v, P!deserialize_v, S!deserialize_kv, P!deserialize_kv, S!from_vec, P!from_vec

\* and the same answers.
LEMMA SameLogged ==
    ASSUME NEW s, NEW m, NEW key, NEW h
    PROVE  S!LoggedSince(s, m, key, h) = P!LoggedSince(s, m, key, h)
BY SameKeys, SamePaths, SameBounds, SameRaw DEF S!LoggedSince, P!LoggedSince

LEMMA SameLoad ==
    \A s, n, k : S!load(s, S!namespaces_with_key(<<n>>, k)) = P!load(s, P!namespaces_with_key(<<n>>, k))
BY SameStorage DEF S!load, P!load,
       S!namespaces_with_key, P!namespaces_with_key, S!to_length_prefixed_nested, P!to_length_prefixed_nested,
       S!to_length_prefixed, P!to_length_prefixed, S!encode_length, P!encode_length,
       S!FlattenSeq, P!FlattenSeq

LEMMA SameMulti ==
    ASSUME NEW s, NEW m, NEW i, NEW sub
    PROVE  S!multi_range(s, m, i, sub, None, None, "Ascending")
             = P!multi_range(s, m, i, sub, None, None, "Ascending")
<1> DEFINE r == P!range_with_prefix(s, P!Prefix(i.namespace, sub), None, None, "Ascending")
           D(e) == S!deserialize_multi_kv(s, m, e)
           C(e) == P!deserialize_multi_kv(s, m, e)
<1>1. \A e : S!deserialize_multi_v(s, m, e) = P!deserialize_multi_v(s, m, e)
  BY SameLoad DEF S!deserialize_multi_v, P!deserialize_multi_v, S!PkOf, P!PkOf
<1>2. \A x, y : S!from_vec(x, y) = P!from_vec(x, y)
  BY DEF S!from_vec, P!from_vec,
       S!from_vec_pair, P!from_vec_pair, S!from_vec_triple, P!from_vec_triple, S!HeadPart, P!HeadPart,
       S!AfterHead, P!AfterHead, S!parse_length, P!parse_length
<1>3. \A e : D(e) = C(e)
  BY <1>1, <1>2 DEF S!deserialize_multi_kv, P!deserialize_multi_kv
<1>4. /\ S!multi_range(s, m, i, sub, None, None, "Ascending") = [j \in 1 .. Len(r) |-> D(r[j])]
      /\ P!multi_range(s, m, i, sub, None, None, "Ascending") = [j \in 1 .. Len(r) |-> C(r[j])]
  BY SameFound, SamePaths DEF S!multi_range, P!multi_range, S!MapEach, P!MapEach
<1> HIDE DEF D, C, r
<1>5. QED
  BY <1>3, <1>4

-----------------------------------------------------------------------------
(* Five collections in one storage.                                        *)

Names == {RecordsNamespace, CheckpointsNamespace, ChangelogNamespace,
          MultiNamespace, UniqueNamespace}

RecordTail == P!RecordTail(KeyParts, Keys)
CheckpointTail == P!CheckpointTail(Heights)
LogTail == P!LogTail(KeyParts, Keys, Heights)
MultiTail == P!MultiTail(MultiParts, MultiKeys, KeyParts, Keys)
UniqueTail == P!UniqueTail(UniqueParts, UniqueKeys)

LEMMA SameParts == \A n : S!KeysOfParts(n) = P!KeysOfParts(n)
BY DEF S!KeysOfParts, P!KeysOfParts, S!Byte, P!Byte

\* The names are text, and each is of one collection.
LEMMA NamesDiffer ==
    /\ Names \in SUBSET P!Text
    /\ RecordsNamespace # CheckpointsNamespace /\ RecordsNamespace # ChangelogNamespace
    /\ RecordsNamespace # MultiNamespace /\ RecordsNamespace # UniqueNamespace
    /\ CheckpointsNamespace # ChangelogNamespace /\ CheckpointsNamespace # MultiNamespace
    /\ CheckpointsNamespace # UniqueNamespace /\ ChangelogNamespace # MultiNamespace
    /\ ChangelogNamespace # UniqueNamespace /\ MultiNamespace # UniqueNamespace
<1>1. /\ \A i \in 1 .. 5 : Namespaces[i] \in Seq(0 .. 254) /\ Len(Namespaces[i]) < 65535
      /\ \A i, j \in 1 .. 5 : Namespaces[i] = Namespaces[j] => i = j
  BY StoredAssumption
<1>2. /\ Namespaces[1] = RecordsNamespace /\ Namespaces[2] = CheckpointsNamespace
      /\ Namespaces[3] = ChangelogNamespace /\ Namespaces[4] = MultiNamespace
      /\ Namespaces[5] = UniqueNamespace
  BY DEF Namespaces
<1>3. \A n : n \in Seq(0 .. 254) /\ Len(n) < 65535 => n \in P!Text
  <2>1. SUFFICES ASSUME NEW n \in Seq(0 .. 254), Len(n) < 65535
                 PROVE  n \in P!Text
    OBVIOUS
  <2>2. \A i \in 1 .. Len(n) : n[i] \in 0 .. 254
    <3> DEFINE T == 0 .. 254
    <3>1. n \in Seq(T)
      OBVIOUS
    <3> HIDE DEF T
    <3>2. \A i \in 1 .. Len(n) : n[i] \in T
      BY <3>1
    <3>3. QED
      BY <3>2 DEF T
  <2>3. \A i \in 1 .. Len(n) : n[i] \in 0 .. 255
    BY <2>2
  <2>4. n \in Seq(0 .. 255) /\ \A i \in 1 .. Len(n) : n[i] \in 0 .. 254
    BY <2>2, <2>3
  <2>5. QED
    BY <2>1, <2>4 DEF P!Text, P!Short, P!Bytes, P!Byte
<1> HIDE DEF Namespaces
<1>4. \A n \in Names : \E i \in 1 .. 5 : n = Namespaces[i]
  BY <1>2 DEF Names
<1>5. Names \in SUBSET P!Text
  <2>1. \A i \in 1 .. 5 : Namespaces[i] \in P!Text
    BY <1>1, <1>3
  <2> HIDE DEF Names
  <2>2. QED
    BY <1>4, <2>1
<1>6. QED
  BY <1>1, <1>2, <1>5

\* The keys are as StoreLemmas wants them.
LEMMA PartsKnown ==
    /\ P!OnePartKeys(KeyParts, Keys)
    /\ P!U64(Heights)
    /\ P!IndexParts(MultiParts, MultiKeys)
    /\ P!WholeKeys(UniqueParts, UniqueKeys)
<1>1. P!OnePartKeys(KeyParts, Keys)
  <2>1. \A k \in Keys : KeyParts[k] \in P!KeysOfParts(1) /\ Len(KeyParts[k][1]) < 65535
    BY StoredAssumption, SameParts
  <2>2. ASSUME NEW k \in Keys
        PROVE  KeyParts[k] \in Seq(P!Short)
    <3>1. KeyParts[k][1] \in P!Bytes /\ KeyParts[k] = <<KeyParts[k][1]>>
      BY <2>1, P!JoinedOne
    <3>2. KeyParts[k][1] \in P!Short
      BY <2>1, <3>1 DEF P!Short
    <3> DEFINE x == KeyParts[k][1]
    <3>3. x \in P!Short /\ KeyParts[k] = <<x>>
      BY <3>1, <3>2
    <3> HIDE DEF x
    <3>4. QED
      BY <3>3
  <2>3. KeyParts \in [Keys -> P!KeysOfParts(1)]
    BY <2>1, StoredAssumption
  <2>4. \A j, k \in Keys : KeyParts[j] = KeyParts[k] => j = k
    BY StoredAssumption
  <2>5. QED
    BY <2>2, <2>3, <2>4 DEF P!OnePartKeys
<1>2. P!U64(Heights)
  <2>1. ASSUME NEW h \in Heights
        PROVE  h \in Nat /\ P!Fits(8, h)
    <3>1. h \in Nat /\ MaxHeight \in Nat /\ h <= MaxHeight
      BY SnapshotAssumption DEF Heights
    <3>2. \A a, b \in Nat : a <= b => a \div 65536 \in Nat /\ b \div 65536 \in Nat /\ a \div 65536 <= b \div 65536
      OBVIOUS
    <3>3. ((h \div 65536) \div 65536) \div 65536 <= ((MaxHeight \div 65536) \div 65536) \div 65536
      BY <3>1, <3>2
    <3>4. ((h \div 65536) \div 65536) \div 65536 \in Nat /\ ((MaxHeight \div 65536) \div 65536) \div 65536 \in Nat
      BY <3>1, <3>2
    <3>5. ((h \div 65536) \div 65536) \div 65536 < 65536
      BY <3>3, <3>4, StoredAssumption
    <3>6. QED
      BY <3>1, <3>5, P!U64Fits
  <2>2. QED
    BY <2>1 DEF P!U64
<1>3. P!IndexParts(MultiParts, MultiKeys)
  <2>1. ASSUME NEW m \in MultiKeys
        PROVE  MultiParts[m] \in Seq(P!Short)
    <3> DEFINE p == MultiParts[m]
    <3>1. p \in P!KeysOfParts(Len(p)) /\ p # <<>> /\ Len(p[Len(p)]) < 65535
      BY StoredAssumption, SameParts
    <3>2. p \in Seq(P!Bytes) /\ \A i \in 1 .. Len(p) - 1 : Len(p[i]) < 65535
      BY <3>1 DEF P!KeysOfParts, P!Bytes
    <3>3. \A i \in 1 .. Len(p) : p[i] \in P!Bytes /\ Len(p[i]) < 65535
      <4> HIDE DEF p
      <4>1. \A i \in 1 .. Len(p) : i = Len(p) \/ i \in 1 .. Len(p) - 1
        BY <3>2
      <4>2. QED
        BY <3>1, <3>2, <4>1
    <3> HIDE DEF p
    <3>4. \A i \in 1 .. Len(p) : p[i] \in P!Short
      BY <3>3 DEF P!Short
    <3>5. p \in Seq(P!Short)
      BY <3>2, <3>4
    <3>6. QED
      BY <3>5 DEF p
  <2>2. ASSUME NEW m \in MultiKeys, NEW n \in MultiKeys
        PROVE  Len(MultiParts[m]) = Len(MultiParts[n])
    <3>1. MultiParts[m] \in P!KeysOfParts(Len(MultiParts[n]))
      BY StoredAssumption, SameParts
    <3>2. QED
      BY <3>1 DEF P!KeysOfParts
  <2>3. /\ MultiParts \in [MultiKeys -> Seq(Seq(0 .. 255))]
        /\ \A m \in MultiKeys : MultiParts[m] # <<>>
    BY StoredAssumption
  <2>4. \A m, n \in MultiKeys : MultiParts[m] = MultiParts[n] => m = n
    BY StoredAssumption
  <2>5. QED
    BY <2>1, <2>2, <2>3, <2>4 DEF P!IndexParts
<1>4. P!WholeKeys(UniqueParts, UniqueKeys)
  BY StoredAssumption, SameParts DEF P!WholeKeys
<1>5. QED
  BY <1>1, <1>2, <1>3, <1>4

\* What the storage has for the records, the checkpoints, the changelog and the indexes.
Laid(s, rec, chk, log, mul, uni) ==
    /\ P!Shaped(s, Names)
    /\ P!Holds(s, RecordsNamespace, RecordTail, rec)
    /\ P!Holds(s, CheckpointsNamespace, CheckpointTail, chk)
    /\ P!Holds(s, ChangelogNamespace, LogTail, log)
    /\ P!Holds(s, MultiNamespace, MultiTail, mul)
    /\ P!Holds(s, UniqueNamespace, UniqueTail, uni)

\* Below a name, each of its keys is somewhere else.
LEMMA TailsApart ==
    /\ P!Apart(RecordTail, Keys)
    /\ P!Apart(CheckpointTail, Heights)
    /\ P!Apart(LogTail, Keys \X Heights)
    /\ P!Apart(MultiTail, MultiKeys \X Keys)
    /\ P!Apart(UniqueTail, UniqueKeys)
<1>1. P!Apart(RecordTail, Keys) /\ P!Apart(CheckpointTail, Heights) /\ P!Apart(LogTail, Keys \X Heights)
  BY PartsKnown, P!SnapshotTails DEF RecordTail, CheckpointTail, LogTail
<1>2. P!Apart(MultiTail, MultiKeys \X Keys)
  BY PartsKnown, P!MultiApart DEF MultiTail
<1>3. P!Apart(UniqueTail, UniqueKeys)
  BY PartsKnown, P!UniqueApart DEF UniqueTail
<1>4. QED
  BY <1>1, <1>2, <1>3

\* A write below one name leaves what is below the others.
LEMMA WriteRecord ==
    ASSUME NEW s, NEW rec, DOMAIN rec = Keys, NEW chk, NEW log, NEW mul, NEW uni,
           Laid(s, rec, chk, log, mul, uni), NEW k \in Keys, NEW t, NEW v,
           P!Differs(s, t, P!length_prefixed_with_key(RecordsNamespace, RecordTail[k]), v)
    PROVE  Laid(t, [rec EXCEPT ![k] = v], chk, log, mul, uni)
<1> DEFINE ns == RecordsNamespace
           r == RecordTail[k]
<1>1. /\ ns \in Names /\ Names \in SUBSET P!Text /\ Names \in SUBSET P!Short
      /\ r \in P!Bytes
  BY NamesDiffer, TailsApart DEF Names, P!Text, P!Apart
<1>2. P!Shaped(t, Names)
  BY <1>1, P!WriteShapes DEF Laid
<1>3. P!Holds(t, ns, RecordTail, [rec EXCEPT ![k] = v])
  BY <1>1, TailsApart, P!WriteHeld DEF Laid
<1>4. /\ P!Holds(t, CheckpointsNamespace, CheckpointTail, chk)
      /\ P!Holds(t, ChangelogNamespace, LogTail, log)
      /\ P!Holds(t, MultiNamespace, MultiTail, mul)
      /\ P!Holds(t, UniqueNamespace, UniqueTail, uni)
  BY <1>1, NamesDiffer, TailsApart, P!WriteElsewhere DEF Laid, Names
<1>5. QED
  BY <1>2, <1>3, <1>4 DEF Laid

LEMMA WriteCheckpoint ==
    ASSUME NEW s, NEW rec, NEW chk, DOMAIN chk = Heights, NEW log, NEW mul, NEW uni,
           Laid(s, rec, chk, log, mul, uni), NEW h \in Heights, NEW t, NEW v,
           P!Differs(s, t, P!length_prefixed_with_key(CheckpointsNamespace, CheckpointTail[h]), v)
    PROVE  Laid(t, rec, [chk EXCEPT ![h] = v], log, mul, uni)
<1> DEFINE ns == CheckpointsNamespace
           r == CheckpointTail[h]
<1>1. /\ ns \in Names /\ Names \in SUBSET P!Text /\ Names \in SUBSET P!Short
      /\ r \in P!Bytes
  BY NamesDiffer, TailsApart DEF Names, P!Text, P!Apart
<1>2. P!Shaped(t, Names)
  BY <1>1, P!WriteShapes DEF Laid
<1>3. P!Holds(t, ns, CheckpointTail, [chk EXCEPT ![h] = v])
  BY <1>1, TailsApart, P!WriteHeld DEF Laid
<1>4. /\ P!Holds(t, RecordsNamespace, RecordTail, rec)
      /\ P!Holds(t, ChangelogNamespace, LogTail, log)
      /\ P!Holds(t, MultiNamespace, MultiTail, mul)
      /\ P!Holds(t, UniqueNamespace, UniqueTail, uni)
  BY <1>1, NamesDiffer, TailsApart, P!WriteElsewhere DEF Laid, Names
<1>5. QED
  BY <1>2, <1>3, <1>4 DEF Laid

LEMMA WriteLog ==
    ASSUME NEW s, NEW rec, NEW chk, NEW log, DOMAIN log = Keys \X Heights, NEW mul, NEW uni,
           Laid(s, rec, chk, log, mul, uni), NEW d \in Keys \X Heights, NEW t, NEW v,
           P!Differs(s, t, P!length_prefixed_with_key(ChangelogNamespace, LogTail[d]), v)
    PROVE  Laid(t, rec, chk, [log EXCEPT ![d] = v], mul, uni)
<1> DEFINE ns == ChangelogNamespace
           r == LogTail[d]
<1>1. /\ ns \in Names /\ Names \in SUBSET P!Text /\ Names \in SUBSET P!Short
      /\ r \in P!Bytes
  BY NamesDiffer, TailsApart DEF Names, P!Text, P!Apart
<1>2. P!Shaped(t, Names)
  BY <1>1, P!WriteShapes DEF Laid
<1>3. P!Holds(t, ns, LogTail, [log EXCEPT ![d] = v])
  BY <1>1, TailsApart, P!WriteHeld DEF Laid
<1>4. /\ P!Holds(t, RecordsNamespace, RecordTail, rec)
      /\ P!Holds(t, CheckpointsNamespace, CheckpointTail, chk)
      /\ P!Holds(t, MultiNamespace, MultiTail, mul)
      /\ P!Holds(t, UniqueNamespace, UniqueTail, uni)
  BY <1>1, NamesDiffer, TailsApart, P!WriteElsewhere DEF Laid, Names
<1>5. QED
  BY <1>2, <1>3, <1>4 DEF Laid

LEMMA WriteMulti ==
    ASSUME NEW s, NEW rec, NEW chk, NEW log, NEW mul, DOMAIN mul = MultiKeys \X Keys, NEW uni,
           Laid(s, rec, chk, log, mul, uni), NEW d \in MultiKeys \X Keys, NEW t, NEW v,
           P!Differs(s, t, P!length_prefixed_with_key(MultiNamespace, MultiTail[d]), v)
    PROVE  Laid(t, rec, chk, log, [mul EXCEPT ![d] = v], uni)
<1> DEFINE ns == MultiNamespace
           r == MultiTail[d]
<1>1. /\ ns \in Names /\ Names \in SUBSET P!Text /\ Names \in SUBSET P!Short
      /\ r \in P!Bytes
  BY NamesDiffer, TailsApart DEF Names, P!Text, P!Apart
<1>2. P!Shaped(t, Names)
  BY <1>1, P!WriteShapes DEF Laid
<1>3. P!Holds(t, ns, MultiTail, [mul EXCEPT ![d] = v])
  BY <1>1, TailsApart, P!WriteHeld DEF Laid
<1>4. /\ P!Holds(t, RecordsNamespace, RecordTail, rec)
      /\ P!Holds(t, CheckpointsNamespace, CheckpointTail, chk)
      /\ P!Holds(t, ChangelogNamespace, LogTail, log)
      /\ P!Holds(t, UniqueNamespace, UniqueTail, uni)
  BY <1>1, NamesDiffer, TailsApart, P!WriteElsewhere DEF Laid, Names
<1>5. QED
  BY <1>2, <1>3, <1>4 DEF Laid

LEMMA WriteUnique ==
    ASSUME NEW s, NEW rec, NEW chk, NEW log, NEW mul, NEW uni, DOMAIN uni = UniqueKeys,
           Laid(s, rec, chk, log, mul, uni), NEW u \in UniqueKeys, NEW t, NEW v,
           P!Differs(s, t, P!length_prefixed_with_key(UniqueNamespace, UniqueTail[u]), v)
    PROVE  Laid(t, rec, chk, log, mul, [uni EXCEPT ![u] = v])
<1> DEFINE ns == UniqueNamespace
           r == UniqueTail[u]
<1>1. /\ ns \in Names /\ Names \in SUBSET P!Text /\ Names \in SUBSET P!Short
      /\ r \in P!Bytes
  BY NamesDiffer, TailsApart DEF Names, P!Text, P!Apart
<1>2. P!Shaped(t, Names)
  BY <1>1, P!WriteShapes DEF Laid
<1>3. P!Holds(t, ns, UniqueTail, [uni EXCEPT ![u] = v])
  BY <1>1, TailsApart, P!WriteHeld DEF Laid
<1>4. /\ P!Holds(t, RecordsNamespace, RecordTail, rec)
      /\ P!Holds(t, CheckpointsNamespace, CheckpointTail, chk)
      /\ P!Holds(t, ChangelogNamespace, LogTail, log)
      /\ P!Holds(t, MultiNamespace, MultiTail, mul)
  BY <1>1, NamesDiffer, TailsApart, P!WriteElsewhere DEF Laid, Names
<1>5. QED
  BY <1>2, <1>3, <1>4 DEF Laid

\* Where the map has its records, its checkpoints, its changelog and its indexes.
LEMMA Places ==
    /\ \A k \in Keys : S!PrimaryPath(map, KeyParts[k])
                         = P!length_prefixed_with_key(RecordsNamespace, RecordTail[k])
    /\ \A h \in Heights : S!CheckpointPath(map, h)
                            = P!length_prefixed_with_key(CheckpointsNamespace, CheckpointTail[h])
    /\ \A k \in Keys, h \in Heights : S!ChangelogPath(map, KeyParts[k], h)
         = P!length_prefixed_with_key(ChangelogNamespace, LogTail[<<k, h>>])
    /\ \A k \in Keys, v \in Values : S!MultiPath(multiIndex, S!joined_key(KeyParts[k]), v)
         = P!length_prefixed_with_key(MultiNamespace, MultiTail[<<MultiKey[v], k>>])
    /\ \A v \in Values : S!UniquePath(uniqueIndex, v)
         = P!length_prefixed_with_key(UniqueNamespace, UniqueTail[UniqueKey[v]])
    /\ \A u \in UniqueKeys : S!Path(UniqueNamespace, UniqueParts[u])
         = P!length_prefixed_with_key(UniqueNamespace, UniqueTail[u])
<1>1. \A n \in Names : n \in P!Short
  BY NamesDiffer DEF P!Text
<1>2. ASSUME NEW n \in Names
      PROVE  /\ \A k \in Keys : /\ KeyParts[k] # <<>>
                                /\ P!Path(n, KeyParts[k]) = P!length_prefixed_with_key(n, RecordTail[k])
             /\ \A h \in Heights : P!Path(n, <<P!u64_key(h)>>)
                                     = P!length_prefixed_with_key(n, CheckpointTail[h])
             /\ \A k \in Keys, h \in Heights : P!Path(n, Append(KeyParts[k], P!u64_key(h)))
                  = P!length_prefixed_with_key(n, LogTail[<<k, h>>])
             /\ \A m \in MultiKeys, k \in Keys :
                  P!Path(n, <<P!joined_extra_key(MultiParts[m], P!joined_key(KeyParts[k]))>>)
                  = P!length_prefixed_with_key(n, MultiTail[<<m, k>>])
             /\ \A u \in UniqueKeys : P!Path(n, UniqueParts[u])
                                        = P!length_prefixed_with_key(n, UniqueTail[u])
  BY <1>1, PartsKnown, P!SnapshotPaths DEF RecordTail, CheckpointTail, LogTail, MultiTail, UniqueTail
<1>3. /\ \A v \in Values : MultiKey[v] \in MultiKeys /\ UniqueKey[v] \in UniqueKeys
      /\ \A v \in Values : multiIndex.index[v] = MultiParts[MultiKey[v]]
      /\ \A v \in Values : uniqueIndex.index[v] = UniqueParts[UniqueKey[v]]
      /\ multiIndex.namespace = MultiNamespace /\ uniqueIndex.namespace = UniqueNamespace
  BY IndexAssumption DEF multiIndex, uniqueIndex
<1>4. /\ map.namespace = RecordsNamespace /\ map.checkpoints = CheckpointsNamespace
      /\ map.changelog = ChangelogNamespace
  BY DEF map
<1>5. /\ RecordsNamespace \in Names /\ CheckpointsNamespace \in Names /\ ChangelogNamespace \in Names
      /\ MultiNamespace \in Names /\ UniqueNamespace \in Names
  BY DEF Names
<1> HIDE DEF multiIndex, uniqueIndex, map, Names
<1>6. \A k \in Keys : S!PrimaryPath(map, KeyParts[k])
                        = P!length_prefixed_with_key(RecordsNamespace, RecordTail[k])
  BY <1>2, <1>4, <1>5, SamePaths DEF S!PrimaryPath
<1>7. \A h \in Heights : S!CheckpointPath(map, h)
                           = P!length_prefixed_with_key(CheckpointsNamespace, CheckpointTail[h])
  BY <1>2, <1>4, <1>5, SamePaths, SameKeys DEF S!CheckpointPath
<1>8. \A k \in Keys, h \in Heights : S!ChangelogPath(map, KeyParts[k], h)
        = P!length_prefixed_with_key(ChangelogNamespace, LogTail[<<k, h>>])
  BY <1>2, <1>4, <1>5, SamePaths, SameKeys DEF S!ChangelogPath
<1>9. \A k \in Keys, v \in Values : S!MultiPath(multiIndex, S!joined_key(KeyParts[k]), v)
        = P!length_prefixed_with_key(MultiNamespace, MultiTail[<<MultiKey[v], k>>])
  BY <1>2, <1>3, <1>5, SamePaths, SameKeys DEF S!MultiPath
<1>10. \A v \in Values : S!UniquePath(uniqueIndex, v)
        = P!length_prefixed_with_key(UniqueNamespace, UniqueTail[UniqueKey[v]])
  BY <1>2, <1>3, <1>5, SamePaths DEF S!UniquePath
<1>11. \A u \in UniqueKeys : S!Path(UniqueNamespace, UniqueParts[u])
        = P!length_prefixed_with_key(UniqueNamespace, UniqueTail[u])
  BY <1>2, <1>5, SamePaths
<1>12. QED
  BY <1>6, <1>7, <1>8, <1>9, <1>10, <1>11

\* A write changes what is there at one path.
LEMMA Writes ==
    ASSUME NEW s, P!Storage(s), NEW x, NEW v
    PROVE  /\ v # None => P!Differs(s, S!save(s, x, v), x, v)
           /\ P!Differs(s, S!remove(s, x), x, None)
BY SameStorage, P!SetReads, P!RemoveReads DEF S!save

\* What is read of the storage, by its contents,
LEMMA Reads ==
    ASSUME NEW s, NEW rec, NEW chk, NEW log, NEW mul, NEW uni, Laid(s, rec, chk, log, mul, uni)
    PROVE  /\ P!Storage(s)
           /\ \A k \in Keys : S!primary_may_load(s, map, KeyParts[k]) = rec[k]
           /\ \A h \in Heights : /\ S!Count(s, map, h) = IF chk[h] = None THEN 0 ELSE chk[h]
                                 /\ S!has(s, S!CheckpointPath(map, h)) <=> chk[h] # None
           /\ \A k \in Keys, h \in Heights :
                S!has_changelog(s, map, KeyParts[k], h) <=> log[<<k, h>>] # None
           /\ \A v \in Values : S!has(s, S!UniquePath(uniqueIndex, v)) <=> uni[UniqueKey[v]] # None
           /\ \A u \in UniqueKeys : S!may_load(s, S!Path(UniqueNamespace, UniqueParts[u])) = uni[u]
<1>1. P!Storage(s)
  BY DEF Laid, P!Shaped
<1>2. /\ \A k \in Keys : P!get(s, P!length_prefixed_with_key(RecordsNamespace, RecordTail[k])) = rec[k]
      /\ \A h \in Heights : P!get(s, P!length_prefixed_with_key(CheckpointsNamespace, CheckpointTail[h])) = chk[h]
      /\ \A d \in Keys \X Heights : P!get(s, P!length_prefixed_with_key(ChangelogNamespace, LogTail[d])) = log[d]
      /\ \A u \in UniqueKeys : P!get(s, P!length_prefixed_with_key(UniqueNamespace, UniqueTail[u])) = uni[u]
  BY TailsApart DEF Laid, P!Holds, P!Apart
<1>3. \A x : /\ S!may_load(s, x) = P!get(s, x)
             /\ S!has(s, x) <=> P!get(s, x) # None
  BY <1>1, SameStorage, P!HasIs DEF P!may_load
<1>4. \A k \in Keys : S!primary_may_load(s, map, KeyParts[k]) = rec[k]
  BY <1>2, <1>3, Places DEF S!primary_may_load
<1>5. ASSUME NEW h \in Heights
      PROVE  /\ S!Count(s, map, h) = IF chk[h] = None THEN 0 ELSE chk[h]
             /\ S!has(s, S!CheckpointPath(map, h)) <=> chk[h] # None
  <2> DEFINE x == S!CheckpointPath(map, h)
  <2>1. S!may_load(s, x) = chk[h] /\ (S!has(s, x) <=> chk[h] # None)
    BY <1>2, <1>3, Places
  <2>2. QED
    BY <2>1 DEF S!Count
<1>6. ASSUME NEW k \in Keys, NEW h \in Heights
      PROVE  S!has_changelog(s, map, KeyParts[k], h) <=> log[<<k, h>>] # None
  <2>1. <<k, h>> \in Keys \X Heights
    OBVIOUS
  <2>2. S!ChangelogPath(map, KeyParts[k], h)
          = P!length_prefixed_with_key(ChangelogNamespace, LogTail[<<k, h>>])
    BY Places
  <2>3. P!get(s, S!ChangelogPath(map, KeyParts[k], h)) = log[<<k, h>>]
    BY <1>2, <2>1, <2>2
  <2>4. QED
    BY <1>3, <2>3 DEF S!has_changelog
<1>7. \A v \in Values : S!has(s, S!UniquePath(uniqueIndex, v)) <=> uni[UniqueKey[v]] # None
  BY <1>2, <1>3, Places, IndexAssumption
<1>8. \A u \in UniqueKeys : S!may_load(s, S!Path(UniqueNamespace, UniqueParts[u])) = uni[u]
  BY <1>2, <1>3, Places
<1>9. QED
  BY <1>1, <1>4, <1>5, <1>6, <1>7, <1>8

\* and what a write of one record leaves there.

LEMMA PutRecord ==
    ASSUME NEW s, NEW rec, DOMAIN rec = Keys, NEW chk, NEW log, NEW mul, NEW uni,
           Laid(s, rec, chk, log, mul, uni), NEW k \in Keys, NEW v
    PROVE  /\ v # None => Laid(S!save(s, S!PrimaryPath(map, KeyParts[k]), v),
                              [rec EXCEPT ![k] = v], chk, log, mul, uni)
           /\ Laid(S!remove(s, S!PrimaryPath(map, KeyParts[k])),
                   [rec EXCEPT ![k] = None], chk, log, mul, uni)
<1> DEFINE x == S!PrimaryPath(map, KeyParts[k])
           d == k
<1>1. /\ d \in Keys
      /\ x = P!length_prefixed_with_key(RecordsNamespace, RecordTail[d])
  BY Places, IndexAssumption
<1>2. /\ v # None => P!Differs(s, S!save(s, x, v), x, v)
      /\ P!Differs(s, S!remove(s, x), x, None)
  BY Reads, Writes
<1> HIDE DEF x, d
<1>3. v # None => Laid(S!save(s, x, v), [rec EXCEPT ![d] = v], chk, log, mul, uni)
  BY <1>1, <1>2, WriteRecord
<1>4. Laid(S!remove(s, x), [rec EXCEPT ![d] = None], chk, log, mul, uni)
  BY <1>1, <1>2, WriteRecord
<1>5. QED
  BY <1>3, <1>4 DEF x, d

LEMMA PutCheckpoint ==
    ASSUME NEW s, NEW rec, NEW chk, DOMAIN chk = Heights, NEW log, NEW mul, NEW uni,
           Laid(s, rec, chk, log, mul, uni), NEW h \in Heights, NEW v
    PROVE  /\ v # None => Laid(S!save(s, S!CheckpointPath(map, h), v),
                              rec, [chk EXCEPT ![h] = v], log, mul, uni)
           /\ Laid(S!remove(s, S!CheckpointPath(map, h)),
                   rec, [chk EXCEPT ![h] = None], log, mul, uni)
<1> DEFINE x == S!CheckpointPath(map, h)
           d == h
<1>1. /\ d \in Heights
      /\ x = P!length_prefixed_with_key(CheckpointsNamespace, CheckpointTail[d])
  BY Places, IndexAssumption
<1>2. /\ v # None => P!Differs(s, S!save(s, x, v), x, v)
      /\ P!Differs(s, S!remove(s, x), x, None)
  BY Reads, Writes
<1> HIDE DEF x, d
<1>3. v # None => Laid(S!save(s, x, v), rec, [chk EXCEPT ![d] = v], log, mul, uni)
  BY <1>1, <1>2, WriteCheckpoint
<1>4. Laid(S!remove(s, x), rec, [chk EXCEPT ![d] = None], log, mul, uni)
  BY <1>1, <1>2, WriteCheckpoint
<1>5. QED
  BY <1>3, <1>4 DEF x, d

LEMMA PutLog ==
    ASSUME NEW s, NEW rec, NEW chk, NEW log, DOMAIN log = Keys \X Heights, NEW mul, NEW uni,
           Laid(s, rec, chk, log, mul, uni), NEW k \in Keys, NEW h \in Heights, NEW v
    PROVE  /\ v # None => Laid(S!save(s, S!ChangelogPath(map, KeyParts[k], h), v),
                              rec, chk, [log EXCEPT ![<<k, h>>] = v], mul, uni)
           /\ Laid(S!remove(s, S!ChangelogPath(map, KeyParts[k], h)),
                   rec, chk, [log EXCEPT ![<<k, h>>] = None], mul, uni)
<1> DEFINE x == S!ChangelogPath(map, KeyParts[k], h)
           d == <<k, h>>
<1>1. /\ d \in Keys \X Heights
      /\ x = P!length_prefixed_with_key(ChangelogNamespace, LogTail[d])
  BY Places, IndexAssumption
<1>2. /\ v # None => P!Differs(s, S!save(s, x, v), x, v)
      /\ P!Differs(s, S!remove(s, x), x, None)
  BY Reads, Writes
<1> HIDE DEF x, d
<1>3. v # None => Laid(S!save(s, x, v), rec, chk, [log EXCEPT ![d] = v], mul, uni)
  BY <1>1, <1>2, WriteLog
<1>4. Laid(S!remove(s, x), rec, chk, [log EXCEPT ![d] = None], mul, uni)
  BY <1>1, <1>2, WriteLog
<1>5. QED
  BY <1>3, <1>4 DEF x, d

LEMMA PutMulti ==
    ASSUME NEW s, NEW rec, NEW chk, NEW log, NEW mul, DOMAIN mul = MultiKeys \X Keys, NEW uni,
           Laid(s, rec, chk, log, mul, uni), NEW k \in Keys, NEW w \in Values, NEW v
    PROVE  /\ v # None => Laid(S!save(s, S!MultiPath(multiIndex, S!joined_key(KeyParts[k]), w), v),
                              rec, chk, log, [mul EXCEPT ![<<MultiKey[w], k>>] = v], uni)
           /\ Laid(S!remove(s, S!MultiPath(multiIndex, S!joined_key(KeyParts[k]), w)),
                   rec, chk, log, [mul EXCEPT ![<<MultiKey[w], k>>] = None], uni)
<1> DEFINE x == S!MultiPath(multiIndex, S!joined_key(KeyParts[k]), w)
           d == <<MultiKey[w], k>>
<1>1. /\ d \in MultiKeys \X Keys
      /\ x = P!length_prefixed_with_key(MultiNamespace, MultiTail[d])
  BY Places, IndexAssumption
<1>2. /\ v # None => P!Differs(s, S!save(s, x, v), x, v)
      /\ P!Differs(s, S!remove(s, x), x, None)
  BY Reads, Writes
<1> HIDE DEF x, d
<1>3. v # None => Laid(S!save(s, x, v), rec, chk, log, [mul EXCEPT ![d] = v], uni)
  BY <1>1, <1>2, WriteMulti
<1>4. Laid(S!remove(s, x), rec, chk, log, [mul EXCEPT ![d] = None], uni)
  BY <1>1, <1>2, WriteMulti
<1>5. QED
  BY <1>3, <1>4 DEF x, d

LEMMA PutUnique ==
    ASSUME NEW s, NEW rec, NEW chk, NEW log, NEW mul, NEW uni, DOMAIN uni = UniqueKeys,
           Laid(s, rec, chk, log, mul, uni), NEW w \in Values, NEW v
    PROVE  /\ v # None => Laid(S!save(s, S!UniquePath(uniqueIndex, w), v),
                              rec, chk, log, mul, [uni EXCEPT ![UniqueKey[w]] = v])
           /\ Laid(S!remove(s, S!UniquePath(uniqueIndex, w)),
                   rec, chk, log, mul, [uni EXCEPT ![UniqueKey[w]] = None])
<1> DEFINE x == S!UniquePath(uniqueIndex, w)
           d == UniqueKey[w]
<1>1. /\ d \in UniqueKeys
      /\ x = P!length_prefixed_with_key(UniqueNamespace, UniqueTail[d])
  BY Places, IndexAssumption
<1>2. /\ v # None => P!Differs(s, S!save(s, x, v), x, v)
      /\ P!Differs(s, S!remove(s, x), x, None)
  BY Reads, Writes
<1> HIDE DEF x, d
<1>3. v # None => Laid(S!save(s, x, v), rec, chk, log, mul, [uni EXCEPT ![d] = v])
  BY <1>1, <1>2, WriteUnique
<1>4. Laid(S!remove(s, x), rec, chk, log, mul, [uni EXCEPT ![d] = None])
  BY <1>1, <1>2, WriteUnique
<1>5. QED
  BY <1>3, <1>4 DEF x, d

-----------------------------------------------------------------------------
(* What the storage has when it is that of the map.                        *)

\* No entry is a height that is not checkpointed, and a block that is not logged.
ChkOf == [h \in Heights |-> IF checkpoints[h] = 0 THEN None ELSE checkpoints[h]]
LogOf == [d \in Keys \X Heights |-> IF changelog[d[1]][d[2]] = Unlogged THEN None
                                    ELSE [old |-> changelog[d[1]][d[2]]]]

\* None is neither a count nor a change set.
LEMMA ContentsTypes ==
    ASSUME TypeOK
    PROVE  /\ DOMAIN ChkOf = Heights /\ DOMAIN LogOf = Keys \X Heights
           /\ \A h \in Heights : ChkOf[h] # None <=> checkpoints[h] > 0
           /\ \A k \in Keys, h \in Heights : LogOf[<<k, h>>] # None <=> changelog[k][h] # Unlogged
           /\ \A k \in Keys, h \in Heights :
                changelog[k][h] # Unlogged => LogOf[<<k, h>>] = [old |-> changelog[k][h]]
           /\ \A v \in Stored : [old |-> v] # None /\ [old |-> v] # NotFound
           /\ NotFound # None
<1>1. /\ checkpoints \in [Heights -> Nat]
      /\ changelog \in [Keys -> [Heights -> Stored \cup {Unlogged}]]
  BY DEF TypeOK
<1>2. /\ None \notin Nat /\ None \notin [old : Stored]
      /\ NotFound # None /\ NotFound \notin [old : Stored]
  BY StoredAssumption
<1>3. \A v \in Stored : [old |-> v] # None /\ [old |-> v] # NotFound
  <2>1. \A v \in Stored : [old |-> v] \in [old : Stored]
    OBVIOUS
  <2>2. QED
    BY <1>2, <2>1
<1>4. ASSUME NEW h \in Heights
      PROVE  ChkOf[h] # None <=> checkpoints[h] > 0
  <2>1. checkpoints[h] \in Nat /\ ChkOf[h] = IF checkpoints[h] = 0 THEN None ELSE checkpoints[h]
    BY <1>1 DEF ChkOf
  <2>2. QED
    BY <1>2, <2>1
<1>5. ASSUME NEW k \in Keys, NEW h \in Heights
      PROVE  /\ LogOf[<<k, h>>] # None <=> changelog[k][h] # Unlogged
             /\ changelog[k][h] # Unlogged => LogOf[<<k, h>>] = [old |-> changelog[k][h]]
  <2> DEFINE d == <<k, h>>
             v == changelog[k][h]
  <2>1. d \in Keys \X Heights /\ d[1] = k /\ d[2] = h
    OBVIOUS
  <2>2. LogOf[d] = IF v = Unlogged THEN None ELSE [old |-> v]
    BY <2>1 DEF LogOf
  <2>3. v # Unlogged => v \in Stored
    BY <1>1
  <2> HIDE DEF d, v
  <2>4. (LogOf[d] # None <=> v # Unlogged) /\ (v # Unlogged => LogOf[d] = [old |-> v])
    BY <1>3, <2>2, <2>3
  <2>5. QED
    BY <2>4 DEF d, v
<1>6. DOMAIN ChkOf = Heights /\ DOMAIN LogOf = Keys \X Heights
  BY DEF ChkOf, LogOf
<1>7. QED
  BY <1>2, <1>3, <1>4, <1>5, <1>6

\* The first entry of a key since a height is the earliest that the changelog has.
LEMMA LoggedIs ==
    ASSUME TypeOK, NEW s, NEW rec, NEW mul, NEW uni, Laid(s, rec, ChkOf, LogOf, mul, uni),
           NEW k \in Keys, NEW h \in Heights,
           NEW first, first = S!LoggedSince(s, map, KeyParts[k], h)
    PROVE  /\ first = <<>> <=> LoggedIn(k, h) = {}
           /\ first # <<>> => /\ Earliest(LoggedIn(k, h)) \in Heights
                              /\ changelog[k][Earliest(LoggedIn(k, h))] \in Stored
                              /\ first[1][2] = [old |-> changelog[k][Earliest(LoggedIn(k, h))]]
<1> DEFINE e == <<>>
           Q == LoggedIn(k, h)
<1>1. first = P!LoggedSince(s, map, KeyParts[k], h)
  BY SameLogged
<1>2. /\ Names \in SUBSET P!Text /\ P!Shaped(s, Names) /\ map.changelog \in Names
      /\ P!Holds(s, map.changelog, LogTail, LogOf)
      /\ P!OnePartKeys(KeyParts, Keys) /\ P!U64(Heights)
  <2>1. map.changelog = ChangelogNamespace
    BY DEF map
  <2>2. QED
    BY <2>1, NamesDiffer, PartsKnown DEF Laid, Names
<1>3. None \notin [kind : {"Inclusive"}, limit : P!Bytes]
  BY StoredAssumption DEF P!Bytes, P!Byte
<1>4. P!FirstLogged(first, LogOf, Heights, k, h)
  BY <1>1, <1>2, <1>3, P!LoggedFirst DEF LogTail
<1> HIDE DEF e
<1>5. Heights \in SUBSET Int
  BY SnapshotAssumption DEF Heights
<1>6. first = <<>> <=> \A g \in Heights : h <= g => LogOf[<<k, g>>] = None
  BY <1>4, <1>5 DEF P!FirstLogged
<1>7. first # <<>> => \E g \in Heights :
           /\ h <= g /\ LogOf[<<k, g>>] # None
           /\ first[1][2] = LogOf[<<k, g>>]
           /\ \A f \in Heights : h <= f /\ LogOf[<<k, f>>] # None => g <= f
  BY <1>4, <1>5 DEF P!FirstLogged
<1>8. \A g : g \in Q <=> g \in Heights /\ h <= g /\ LogOf[<<k, g>>] # None
  <2>1. \A g : g \in Q <=> g \in h .. MaxHeight /\ changelog[k][g] # Unlogged
    BY DEF LoggedIn
  <2>2. h \in Nat /\ h >= 1 /\ MaxHeight \in Nat
    BY SnapshotAssumption DEF Heights
  <2>3. \A g : g \in h .. MaxHeight <=> g \in Heights /\ h <= g
    BY <2>2 DEF Heights
  <2>4. QED
    BY <2>1, <2>3, ContentsTypes
<1>9. Q \in SUBSET Nat
  BY LoggedInHeights
<1>10. first = e <=> Q = {}
  BY <1>6, <1>8 DEF e
<1>11. ASSUME first # e
      PROVE  Earliest(Q) \in Heights /\ changelog[k][Earliest(Q)] \in Stored
             /\ first[1][2] = [old |-> changelog[k][Earliest(Q)]]
  <2>1. PICK g \in Heights :
           /\ h <= g /\ LogOf[<<k, g>>] # None
           /\ first[1][2] = LogOf[<<k, g>>]
           /\ \A f \in Heights : h <= f /\ LogOf[<<k, f>>] # None => g <= f
    BY <1>7, <1>11 DEF e
  <2>2. g \in Q /\ \A f \in Q : g <= f
    BY <1>8, <2>1
  <2> HIDE DEF Q
  <2>3. Earliest(Q) = g
    BY <1>9, <2>2, EarliestUnique
  <2>4. changelog[k][g] # Unlogged /\ LogOf[<<k, g>>] = [old |-> changelog[k][g]]
    BY <2>1, ContentsTypes
  <2>5. changelog[k][g] \in Stored
    BY <2>4 DEF TypeOK
  <2>6. QED
    BY <2>1, <2>3, <2>4, <2>5
<1>12. QED
  BY <1>10, <1>11 DEF e

\* A write is logged exactly when the map logs it.
LEMMA ShouldIs ==
    ASSUME TypeOK, NEW s, NEW rec, NEW mul, NEW uni, Laid(s, rec, ChkOf, LogOf, mul, uni),
           NEW k \in Keys
    PROVE  S!should_checkpoint(s, map, KeyParts[k]) <=> should_checkpoint(k)
<1> DEFINE open == S!range(s, S!Prefix(map.checkpoints, <<>>), 1, None, None, "Descending")
           e == <<>>
           top == S!cw_uint_from_cw_bytes(open[1][1][1])
<1>1. open = P!range(s, P!Prefix(map.checkpoints, <<>>), 1, None, None, "Descending")
  BY SamePaths, SameRaw
<1>2. /\ Names \in SUBSET P!Text /\ P!Shaped(s, Names) /\ map.checkpoints \in Names
      /\ P!Holds(s, map.checkpoints, CheckpointTail, ChkOf) /\ P!U64(Heights)
  <2>1. map.checkpoints = CheckpointsNamespace
    BY DEF map
  <2>2. QED
    BY <2>1, NamesDiffer, PartsKnown DEF Laid, Names
<1>3. S!should_checkpoint_selected(s, map, KeyParts[k])
        <=> open # e /\ S!LoggedSince(s, map, KeyParts[k], top) = e
  BY DEF S!should_checkpoint_selected
<1>4. top = P!cw_uint_from_cw_bytes(open[1][1][1])
  BY SameUnsigned
<1> HIDE DEF open, top
<1>5. P!LastOpen(open, ChkOf, Heights)
  BY <1>1, <1>2, P!OpenLatest DEF CheckpointTail
<1>6. open = <<>> <=> \A h \in Heights : ChkOf[h] = None
  BY <1>5 DEF P!LastOpen
<1>7. open # <<>> => \E h \in Heights :
           /\ ChkOf[h] # None
           /\ P!cw_uint_from_cw_bytes(open[1][1][1]) = h
           /\ \A g \in Heights : ChkOf[g] # None => g <= h
  <2>1. Heights \in SUBSET Int
    BY SnapshotAssumption DEF Heights
  <2>2. QED
    BY <1>5, <2>1 DEF P!LastOpen
<1>8. \A h : h \in Open <=> h \in Heights /\ ChkOf[h] # None
  BY ContentsTypes DEF Open
<1>9. open = e <=> Open = {}
  BY <1>6, <1>8
<1>10. ASSUME open # e
      PROVE  top \in Heights /\ top = Latest(Open)
  <2>1. PICK h \in Heights : /\ ChkOf[h] # None
                             /\ P!cw_uint_from_cw_bytes(open[1][1][1]) = h
                             /\ \A g \in Heights : ChkOf[g] # None => g <= h
    BY <1>7, <1>10
  <2>2. h \in Open /\ \A g \in Open : g <= h
    BY <1>8, <2>1
  <2>3. Open \in SUBSET Heights
    BY DEF Open
  <2>4. Latest(Open) \in Open /\ h <= Latest(Open)
    BY <2>2, <2>3, LatestExists
  <2>5. Latest(Open) <= h /\ Latest(Open) \in Heights /\ top = h
    BY <1>4, <2>1, <2>2, <2>3, <2>4
  <2>6. \A a, b \in Heights : a <= b /\ b <= a => a = b
    BY SnapshotAssumption DEF Heights
  <2>7. QED
    BY <2>4, <2>5, <2>6
<1>11. ASSUME open # e
      PROVE  S!LoggedSince(s, map, KeyParts[k], top) = e <=> LoggedIn(k, Latest(Open)) = {}
  <2>1. ASSUME NEW h \in Heights
        PROVE  LET first == S!LoggedSince(s, map, KeyParts[k], h)
               IN  /\ first = <<>> <=> LoggedIn(k, h) = {}
                   /\ first # <<>> => /\ changelog[k][Earliest(LoggedIn(k, h))] \in Stored
                                      /\ first[1][2] = [old |-> changelog[k][Earliest(LoggedIn(k, h))]]
    BY LoggedIs
  <2>2. QED
    BY <1>10, <1>11, <2>1
<1> HIDE DEF e
<1>12. S!should_checkpoint_selected(s, map, KeyParts[k]) <=> should_checkpoint_selected(k)
  BY <1>3, <1>9, <1>11 DEF should_checkpoint_selected
<1>13. /\ map.strategy = Strategy /\ Strategy \in {"EveryBlock", "Never", "Selected"}
  BY SnapshotAssumption DEF map
<1>14. QED
  BY <1>12, <1>13 DEF S!should_checkpoint, should_checkpoint

\* A height answers exactly when the map's does, and as the map's does.
LEMMA AnswersAt ==
    ASSUME TypeOK, NEW s, NEW mul, NEW uni, Laid(s, primary, ChkOf, LogOf, mul, uni),
           NEW k \in Keys, NEW h \in Heights
    PROVE  S!may_load_at_height(s, map, KeyParts[k], h)
             = IF assert_checkpointed(h) THEN may_load_at_height(k, h) ELSE NotFound
<1> DEFINE first == S!LoggedSince(s, map, KeyParts[k], h)
           snap == S!snapshot_may_load_at_height(s, map, KeyParts[k], h)
           Q == LoggedIn(k, h)
           e == <<>>
           now == S!primary_may_load(s, map, KeyParts[k])
           answer == S!may_load_at_height(s, map, KeyParts[k], h)
<1>1. S!assert_checkpointed(s, map, h) <=> assert_checkpointed(h)
  <2>1. map.strategy = Strategy /\ Strategy \in {"EveryBlock", "Never", "Selected"}
    BY SnapshotAssumption DEF map
  <2>2. S!has(s, S!CheckpointPath(map, h)) <=> checkpoints[h] > 0
    BY Reads, ContentsTypes
  <2>3. QED
    BY <2>1, <2>2 DEF S!assert_checkpointed, assert_checkpointed
<1>2. /\ first = e <=> Q = {}
      /\ first # e => /\ changelog[k][Earliest(Q)] \in Stored
                      /\ first[1][2] = [old |-> changelog[k][Earliest(Q)]]
  BY LoggedIs
<1>3. now = primary[k]
  BY Reads
<1>4. /\ ~S!assert_checkpointed(s, map, h) => snap = NotFound
      /\ S!assert_checkpointed(s, map, h) /\ first # e => snap = first[1][2]
      /\ S!assert_checkpointed(s, map, h) /\ first = e => snap = None
  BY DEF S!snapshot_may_load_at_height
<1>5. /\ snap = NotFound => answer = NotFound
      /\ snap # NotFound /\ snap = None => answer = now
      /\ snap # NotFound /\ snap # None => answer = snap.old
  BY ContentsTypes DEF S!may_load_at_height
<1>6. may_load_at_height(k, h) = IF Q = {} THEN primary[k] ELSE changelog[k][Earliest(Q)]
  BY DEF may_load_at_height
<1> HIDE DEF first, snap, Q, e, now, answer
<1>7. \A v \in Stored : [old |-> v] # None /\ [old |-> v] # NotFound /\ [old |-> v].old = v
  BY ContentsTypes
<1>8. NotFound # None
  BY ContentsTypes
<1>9. answer = IF assert_checkpointed(h) THEN may_load_at_height(k, h) ELSE NotFound
  BY <1>1, <1>2, <1>3, <1>4, <1>5, <1>6, <1>7, <1>8
<1>10. QED
  BY <1>9 DEF answer

-----------------------------------------------------------------------------
(* What an operation leaves in the storage.                                *)

\* The changelog once a write of a key is about to be made.
LogWith(k) ==
    IF should_checkpoint(k) /\ changelog[k][height] = Unlogged
    THEN [LogOf EXCEPT ![<<k, height>>] = [old |-> primary[k]]] ELSE LogOf

\* Snapped: the value goes to the changelog, once in a block.
LEMMA SnappedLaid ==
    ASSUME TypeOK, NEW s, NEW mul, NEW uni, Laid(s, primary, ChkOf, LogOf, mul, uni),
           NEW k \in Keys
    PROVE  Laid(S!Snapped(s, map, KeyParts[k], height), primary, ChkOf, LogWith(k), mul, uni)
<1> DEFINE t == S!Snapped(s, map, KeyParts[k], height)
           p == S!ChangelogPath(map, KeyParts[k], height)
           set == [old |-> primary[k]]
<1>1. height \in Heights /\ primary[k] \in Stored
  BY DEF TypeOK
<1>2. S!should_checkpoint(s, map, KeyParts[k]) <=> should_checkpoint(k)
  BY ShouldIs
<1>3. S!has_changelog(s, map, KeyParts[k], height) <=> changelog[k][height] # Unlogged
  <2>1. \A g \in Heights : S!has_changelog(s, map, KeyParts[k], g) <=> LogOf[<<k, g>>] # None
    BY Reads
  <2>2. \A g \in Heights : LogOf[<<k, g>>] # None <=> changelog[k][g] # Unlogged
    BY ContentsTypes
  <2>3. QED
    BY <1>1, <2>1, <2>2
<1>4. S!primary_may_load(s, map, KeyParts[k]) = primary[k]
  BY Reads
<1>5. /\ should_checkpoint(k) /\ changelog[k][height] = Unlogged => t = S!save(s, p, set)
      /\ ~(should_checkpoint(k) /\ changelog[k][height] = Unlogged) => t = s
  BY <1>2, <1>3, <1>4 DEF S!Snapped, S!write_change, S!write_changelog, S!ChangeSet
<1>6. DOMAIN LogOf = Keys \X Heights /\ set # None
  BY <1>1, ContentsTypes
<1> HIDE DEF set
<1>7. Laid(S!save(s, p, set), primary, ChkOf, [LogOf EXCEPT ![<<k, height>>] = set], mul, uni)
  BY <1>1, <1>6, PutLog
<1> HIDE DEF t, p
<1>8. Laid(t, primary, ChkOf, LogWith(k), mul, uni)
  BY <1>5, <1>7 DEF LogWith, set
<1>9. QED
  BY <1>8 DEF t

\* The changelog as Write leaves it.
LEMMA LogNext ==
    ASSUME TypeOK, NEW k \in Keys, NEW v \in Stored, Write(k, v)
    PROVE  LogOf' = LogWith(k) /\ ChkOf' = ChkOf /\ primary' = [primary EXCEPT ![k] = v]
<1>1. /\ changelog \in [Keys -> [Heights -> Stored \cup {Unlogged}]]
      /\ height \in Heights /\ primary[k] \in Stored /\ Unlogged \notin Stored
  BY SnapshotAssumption DEF TypeOK, Stored
<1>2. ChkOf' = ChkOf /\ primary' = [primary EXCEPT ![k] = v]
  BY DEF Write, ChkOf
<1>3. CASE should_checkpoint(k) /\ changelog[k][height] = Unlogged
  <2>1. changelog' = [changelog EXCEPT ![k][height] = primary[k]]
    BY <1>3 DEF Write, write_change
  <2> DEFINE f(c) == [d \in Keys \X Heights |-> IF c[d[1]][d[2]] = Unlogged THEN None
                                                ELSE [old |-> c[d[1]][d[2]]]]
             g == [LogOf EXCEPT ![<<k, height>>] = [old |-> primary[k]]]
  <2>2. LogOf' = f(changelog') /\ LogOf = f(changelog)
    BY DEF LogOf
  <2>3. DOMAIN g = Keys \X Heights /\ g = [d \in Keys \X Heights |-> g[d]]
    BY DEF LogOf
  <2>4. ASSUME NEW j \in Keys, NEW h \in Heights
        PROVE  f(changelog')[<<j, h>>] = g[<<j, h>>]
    <3>1. /\ f(changelog')[<<j, h>>] = IF changelog'[j][h] = Unlogged THEN None
                                       ELSE [old |-> changelog'[j][h]]
          /\ LogOf[<<j, h>>] = IF changelog[j][h] = Unlogged THEN None
                               ELSE [old |-> changelog[j][h]]
      BY <2>2
    <3>2. CASE j = k /\ h = height
      <4>1. changelog'[j][h] = primary[k]
        BY <1>1, <2>1, <3>2
      <4>2. g[<<j, h>>] = [old |-> primary[k]]
        BY <3>2 DEF LogOf
      <4>3. QED
        BY <1>1, <3>1, <4>1, <4>2
    <3>3. CASE ~(j = k /\ h = height)
      <4>1. changelog'[j][h] = changelog[j][h]
        BY <1>1, <2>1, <3>3
      <4>2. g[<<j, h>>] = LogOf[<<j, h>>]
        BY <3>3 DEF LogOf
      <4>3. QED
        BY <3>1, <4>1, <4>2
    <3>4. QED
      BY <3>2, <3>3
  <2>5. \A d \in Keys \X Heights : f(changelog')[d] = g[d]
    <3>1. \A d \in Keys \X Heights : d[1] \in Keys /\ d[2] \in Heights /\ d = <<d[1], d[2]>>
      OBVIOUS
    <3> HIDE DEF f, g
    <3>2. QED
      BY <2>4, <3>1
  <2>6. f(changelog') = [d \in Keys \X Heights |-> f(changelog')[d]]
    OBVIOUS
  <2> HIDE DEF f, g
  <2>7. LogOf' = g
    BY <2>2, <2>3, <2>5, <2>6
  <2>8. QED
    BY <1>2, <1>3, <2>7 DEF LogWith, g
<1>4. CASE ~(should_checkpoint(k) /\ changelog[k][height] = Unlogged)
  <2>1. changelog' = changelog
    BY <1>1, <1>4 DEF Write, write_change
  <2>2. QED
    BY <1>2, <1>4, <2>1 DEF LogWith, LogOf
<1>5. QED
  BY <1>3, <1>4

\* SnapshotMap::save and remove do to the storage what Write does to the map.
LEMMA WriteLaid ==
    ASSUME TypeOK, NEW s, NEW mul, NEW uni, Laid(s, primary, ChkOf, LogOf, mul, uni),
           NEW k \in Keys, NEW v \in Stored, Write(k, v)
    PROVE  /\ v # None => Laid(S!snapshot_save(s, map, KeyParts[k], v, height),
                               primary', ChkOf', LogOf', mul, uni)
           /\ v = None => Laid(S!snapshot_remove(s, map, KeyParts[k], height),
                               primary', ChkOf', LogOf', mul, uni)
<1> DEFINE t == S!Snapped(s, map, KeyParts[k], height)
           p == S!PrimaryPath(map, KeyParts[k])
           rec == [primary EXCEPT ![k] = v]
           log == LogWith(k)
<1>1. Laid(t, primary, ChkOf, log, mul, uni)
  BY SnappedLaid
<1>2. LogOf' = log /\ ChkOf' = ChkOf /\ primary' = rec
  BY LogNext
<1>3. DOMAIN primary = Keys
  BY DEF TypeOK
<1>4. /\ S!snapshot_save(s, map, KeyParts[k], v, height) = S!save(t, p, v)
      /\ S!snapshot_remove(s, map, KeyParts[k], height) = S!remove(t, p)
  BY DEF S!snapshot_save, S!snapshot_remove
<1> HIDE DEF t, log
<1>5. v # None => Laid(S!save(t, p, v), rec, ChkOf, log, mul, uni)
  BY <1>1, <1>3, PutRecord
<1>6. Laid(S!remove(t, p), [primary EXCEPT ![k] = None], ChkOf, log, mul, uni)
  BY <1>1, <1>3, PutRecord
<1> HIDE DEF p
<1>7. v # None => Laid(S!save(t, p, v), primary', ChkOf', LogOf', mul, uni)
  BY <1>2, <1>5
<1>8. v = None => Laid(S!remove(t, p), primary', ChkOf', LogOf', mul, uni)
  BY <1>2, <1>6
<1>9. QED
  BY <1>4, <1>7, <1>8

\* add_checkpoint and remove_checkpoint count in the storage as they do in the map.
LEMMA CheckpointsLaid ==
    ASSUME TypeOK, NEW s, NEW mul, NEW uni, Laid(s, primary, ChkOf, LogOf, mul, uni),
           NEW c \in Clients, NEW h \in Heights
    PROVE  /\ add_checkpoint(c, h) =>
                Laid(S!add_checkpoint(s, map, h), primary', ChkOf', LogOf', mul, uni)
           /\ remove_checkpoint(c, h) =>
                Laid(S!remove_checkpoint(s, map, h), primary', ChkOf', LogOf', mul, uni)
<1> DEFINE p == S!CheckpointPath(map, h)
           n == checkpoints[h]
<1>1. checkpoints \in [Heights -> Nat] /\ n \in Nat
  BY DEF TypeOK
<1>2. S!Count(s, map, h) = n
  <2>1. S!Count(s, map, h) = IF ChkOf[h] = None THEN 0 ELSE ChkOf[h]
    BY Reads
  <2>2. ChkOf[h] = IF n = 0 THEN None ELSE n
    BY DEF ChkOf
  <2>3. None \notin Nat
    BY StoredAssumption
  <2>4. QED
    BY <1>1, <2>1, <2>2, <2>3
<1>3. /\ S!add_checkpoint(s, map, h) = S!save(s, p, n + 1)
      /\ n <= 1 => S!remove_checkpoint(s, map, h) = S!remove(s, p)
      /\ ~(n <= 1) => S!remove_checkpoint(s, map, h) = S!save(s, p, n - 1)
  BY <1>2 DEF S!add_checkpoint, S!remove_checkpoint
<1>4. DOMAIN ChkOf = Heights /\ None \notin Nat
  BY ContentsTypes, StoredAssumption
<1>5. /\ \A v \in Nat : Laid(S!save(s, p, v), primary, [ChkOf EXCEPT ![h] = v], LogOf, mul, uni)
      /\ Laid(S!remove(s, p), primary, [ChkOf EXCEPT ![h] = None], LogOf, mul, uni)
  BY <1>4, PutCheckpoint
<1>6. ASSUME NEW m \in Nat, checkpoints' = [checkpoints EXCEPT ![h] = m]
      PROVE  ChkOf' = [ChkOf EXCEPT ![h] = IF m = 0 THEN None ELSE m]
  <2>1. ChkOf' = [g \in Heights |-> IF checkpoints'[g] = 0 THEN None ELSE checkpoints'[g]]
    BY DEF ChkOf
  <2>2. \A g \in Heights : checkpoints'[g] = IF g = h THEN m ELSE checkpoints[g]
    BY <1>1, <1>6
  <2>3. QED
    BY <2>1, <2>2 DEF ChkOf
<1>7. ASSUME UNCHANGED <<primary, changelog>>
      PROVE  primary' = primary /\ LogOf' = LogOf
  BY <1>7 DEF LogOf
<1> HIDE DEF p, n
<1>8. ASSUME add_checkpoint(c, h)
      PROVE  Laid(S!add_checkpoint(s, map, h), primary', ChkOf', LogOf', mul, uni)
  <2>1. n + 1 \in Nat /\ n + 1 # 0
    BY <1>1
  <2>2. checkpoints' = [checkpoints EXCEPT ![h] = n + 1] /\ UNCHANGED <<primary, changelog>>
    BY <1>8 DEF add_checkpoint, n
  <2>3. ChkOf' = [ChkOf EXCEPT ![h] = n + 1] /\ primary' = primary /\ LogOf' = LogOf
    BY <1>6, <1>7, <2>1, <2>2
  <2>4. QED
    BY <1>3, <1>5, <2>1, <2>3
<1>9. ASSUME remove_checkpoint(c, h)
      PROVE  Laid(S!remove_checkpoint(s, map, h), primary', ChkOf', LogOf', mul, uni)
  <2>1. /\ checkpoints' = [checkpoints EXCEPT ![h] = IF n <= 1 THEN 0 ELSE n - 1]
        /\ UNCHANGED <<primary, changelog>>
    BY <1>9 DEF remove_checkpoint, n
  <2>2. CASE n <= 1
    <3>1. ChkOf' = [ChkOf EXCEPT ![h] = None] /\ primary' = primary /\ LogOf' = LogOf
      BY <1>6, <1>7, <2>1, <2>2
    <3>2. QED
      BY <1>3, <1>5, <2>2, <3>1
  <2>3. CASE ~(n <= 1)
    <3>1. n - 1 \in Nat /\ n - 1 # 0
      BY <1>1, <2>3
    <3>2. ChkOf' = [ChkOf EXCEPT ![h] = n - 1] /\ primary' = primary /\ LogOf' = LogOf
      BY <1>6, <1>7, <2>1, <2>3, <3>1
    <3>3. QED
      BY <1>3, <1>5, <2>3, <3>1, <3>2
  <2>4. QED
    BY <2>2, <2>3
<1>10. QED
  BY <1>8, <1>9

-----------------------------------------------------------------------------
(* The indexes in the storage.                                             *)

\* A multi index has the length of the primary key, a unique index the primary key
\* and its value.
Pk(k) == S!joined_key(KeyParts[k])
MulFor(index) == [d \in MultiKeys \X Keys |-> IF index[d[1]][d[2]] = PkLen THEN Len(Pk(d[2]))
                                              ELSE None]
RefFor(ref) == IF ref = None THEN None ELSE [pk |-> Pk(ref[1]), value |-> ref[2]]
UniFor(index) == [u \in UniqueKeys |-> RefFor(index[u])]

MultiType == [MultiKeys -> [Keys -> {None, PkLen}]]
UniqueType == [UniqueKeys -> UniqueRef \cup {None}]

\* What is put in an index is not None.
LEMMA RefsKnown ==
    /\ \A k \in Keys : Pk(k) \in P!Bytes /\ Len(Pk(k)) # None
    /\ \A k \in Keys, v \in Values : /\ RefFor(<<k, v>>) = [pk |-> Pk(k), value |-> v]
                                     /\ RefFor(<<k, v>>) # None
    /\ RefFor(None) = None
<1>1. ASSUME NEW k \in Keys
      PROVE  Pk(k) \in P!Bytes
  <2>1. P!Apart(RecordTail, Keys)
    BY TailsApart
  <2>2. RecordTail[k] = Pk(k)
    BY SameKeys DEF RecordTail, P!RecordTail, Pk
  <2>3. QED
    BY <2>1, <2>2 DEF P!Apart
<1>2. ASSUME NEW k \in Keys
      PROVE  Len(Pk(k)) # None
  <2>1. Len(Pk(k)) \in Nat
    BY <1>1 DEF P!Bytes
  <2>2. QED
    BY <2>1, StoredAssumption
<1>3. ASSUME NEW k \in Keys, NEW v \in Values
      PROVE  /\ RefFor(<<k, v>>) = [pk |-> Pk(k), value |-> v]
             /\ RefFor(<<k, v>>) # None
  <2>1. <<k, v>> # None /\ <<k, v>>[1] = k /\ <<k, v>>[2] = v
    BY IndexAssumption
  <2>2. RefFor(<<k, v>>) = [pk |-> Pk(k), value |-> v]
    BY <2>1 DEF RefFor
  <2>3. Pk(k) \in Seq(0 .. 255)
    BY <1>1 DEF P!Bytes, P!Byte
  <2>4. [pk |-> Pk(k), value |-> v] \in [pk : Seq(0 .. 255), value : Values]
    BY <2>3
  <2>5. QED
    BY <2>2, <2>4, StoredAssumption
<1>4. RefFor(None) = None
  BY DEF RefFor
<1>5. QED
  BY <1>1, <1>2, <1>3, <1>4

\* A place of a multi index, in the map and in the storage.
MultiPut(index, m, k, v) == [index EXCEPT ![m][k] = v]
Put(c, d, v) == [c EXCEPT ![d] = v]

LEMMA MulPut ==
    ASSUME NEW index \in MultiType, NEW m \in MultiKeys, NEW k \in Keys, NEW v \in {None, PkLen}
    PROVE  /\ MultiPut(index, m, k, v) \in MultiType
           /\ MulFor(MultiPut(index, m, k, v))
                = Put(MulFor(index), <<m, k>>, IF v = PkLen THEN Len(Pk(k)) ELSE None)
<1> DEFINE f == [index EXCEPT ![m][k] = v]
           w == IF v = PkLen THEN Len(Pk(k)) ELSE None
           g == [MulFor(index) EXCEPT ![<<m, k>>] = w]
           D == MultiKeys \X Keys
<1>1. /\ f \in MultiType
      /\ \A n \in MultiKeys, j \in Keys :
           f[n][j] = IF n = m /\ j = k THEN v ELSE index[n][j]
  BY DEF MultiType
<1>2. g = [d \in D |-> IF d = <<m, k>> THEN w ELSE MulFor(index)[d]]
  BY DEF MulFor
<1>3. MulFor(f) = [d \in D |-> IF f[d[1]][d[2]] = PkLen THEN Len(Pk(d[2])) ELSE None]
  BY DEF MulFor
<1> HIDE DEF f
<1>4. ASSUME NEW d \in D
      PROVE  (IF f[d[1]][d[2]] = PkLen THEN Len(Pk(d[2])) ELSE None)
               = IF d = <<m, k>> THEN w ELSE MulFor(index)[d]
  <2>1. d[1] \in MultiKeys /\ d[2] \in Keys /\ d = <<d[1], d[2]>>
    OBVIOUS
  <2>2. MulFor(index)[d] = IF index[d[1]][d[2]] = PkLen THEN Len(Pk(d[2])) ELSE None
    BY DEF MulFor
  <2>3. d = <<m, k>> <=> d[1] = m /\ d[2] = k
    BY <2>1
  <2> HIDE DEF D
  <2>4. QED
    BY <1>1, <2>1, <2>2, <2>3
<1> HIDE DEF g, w, D
<1>5. MulFor(f) = g
  BY <1>2, <1>3, <1>4
<1>6. QED
  BY <1>1, <1>5 DEF f, g, w, MultiPut, Put

\* A place of a unique index.
LEMMA UniPut ==
    ASSUME NEW index \in UniqueType, NEW u \in UniqueKeys, NEW ref \in UniqueRef \cup {None}
    PROVE  /\ UniFor([index EXCEPT ![u] = ref]) = [UniFor(index) EXCEPT ![u] = RefFor(ref)]
           /\ [index EXCEPT ![u] = ref] \in UniqueType
BY DEF UniFor, UniqueType

\* Index::remove of both indexes, in their order.
LEMMA WithoutBoth ==
    ASSUME NEW s, NEW pk, NEW old, old # None
    PROVE  S!WithoutOld(s, map, pk, old)
             = S!remove(S!remove(s, S!MultiPath(multiIndex, pk, old)), S!UniquePath(uniqueIndex, old))
<1> DEFINE Solves(h) == h = [n \in 0 .. Len(map.idx) |->
                          IF n = 0 THEN s ELSE S!index_remove(h[n-1], map.idx[n], pk, old)]
           d == CHOOSE h : Solves(h)
           s1 == S!remove(s, S!MultiPath(multiIndex, pk, old))
           s2 == S!remove(s1, S!UniquePath(uniqueIndex, old))
           f == [n \in 0 .. 2 |-> IF n = 0 THEN s ELSE IF n = 1 THEN s1 ELSE s2]
<1>1. Len(map.idx) = 2 /\ map.idx[1] = multiIndex /\ map.idx[2] = uniqueIndex
  BY DEF map
<1>2. \A x : S!index_remove(x, multiIndex, pk, old) = S!remove(x, S!MultiPath(multiIndex, pk, old))
  BY DEF S!index_remove, S!multi_remove, multiIndex
<1>3. \A x : S!index_remove(x, uniqueIndex, pk, old) = S!remove(x, S!UniquePath(uniqueIndex, old))
  BY DEF S!index_remove, S!unique_remove, uniqueIndex
<1>4. S!WithoutOld(s, map, pk, old) = d[Len(map.idx)]
  BY DEF S!WithoutOld
<1>5. S!index_remove(s, multiIndex, pk, old) = s1 /\ S!index_remove(s1, uniqueIndex, pk, old) = s2
  BY <1>2, <1>3
<1> HIDE DEF s1, s2
<1>6. Solves(f)
  <2>1. f[0] = s /\ f[1] = s1 /\ f[2] = s2
    OBVIOUS
  <2>2. ASSUME NEW n \in 0 .. 2
        PROVE  f[n] = IF n = 0 THEN s ELSE S!index_remove(f[n-1], map.idx[n], pk, old)
    <3>1. n = 0 \/ n = 1 \/ n = 2
      OBVIOUS
    <3> HIDE DEF f
    <3>2. QED
      BY <1>1, <1>5, <2>1, <3>1
  <2>3. f = [n \in 0 .. 2 |->
               IF n = 0 THEN s ELSE S!index_remove(f[n-1], map.idx[n], pk, old)]
    BY <2>2
  <2>4. QED
    BY <1>1, <2>3
<1> HIDE DEF f
<1>7. Solves(d)
  BY <1>6
<1> HIDE DEF d
<1>8. \A n \in 0 .. 2 :
        d[n] = IF n = 0 THEN s ELSE S!index_remove(d[n-1], map.idx[n], pk, old)
  BY <1>1, <1>7
<1>9. d[0] = s /\ d[1] = S!index_remove(d[0], multiIndex, pk, old)
      /\ d[2] = S!index_remove(d[1], uniqueIndex, pk, old)
  BY <1>1, <1>8
<1>10. QED
  BY <1>1, <1>4, <1>5, <1>9 DEF s2, s1

\* Index::save of both; the second may refuse.
LEMMA WithBoth ==
    ASSUME NEW s, NEW pk, NEW data
    PROVE  S!WithNew(s, map, pk, data)
             = S!unique_save(S!save(s, S!MultiPath(multiIndex, pk, data), Len(pk)),
                             uniqueIndex, pk, data)
<1> DEFINE Solves(h) == h = [n \in 0 .. Len(map.idx) |->
                          CASE n = 0 -> S!Ok(s)
                            [] n > 0 /\ h[n-1].ok -> S!index_save(h[n-1].store, map.idx[n], pk, data)
                            [] OTHER -> h[n-1]]
           d == CHOOSE h : Solves(h)
           s1 == S!Ok(S!save(s, S!MultiPath(multiIndex, pk, data), Len(pk)))
           s2 == S!unique_save(s1.store, uniqueIndex, pk, data)
           f == [n \in 0 .. 2 |-> IF n = 0 THEN S!Ok(s) ELSE IF n = 1 THEN s1 ELSE s2]
<1>1. Len(map.idx) = 2 /\ map.idx[1] = multiIndex /\ map.idx[2] = uniqueIndex
  BY DEF map
<1>2. S!index_save(S!Ok(s).store, multiIndex, pk, data) = s1 /\ S!Ok(s).ok /\ s1.ok
  BY DEF S!index_save, S!multi_save, multiIndex, S!Ok
<1>3. S!index_save(s1.store, uniqueIndex, pk, data) = s2
  BY DEF S!index_save, uniqueIndex
<1>4. S!WithNew(s, map, pk, data) = d[Len(map.idx)]
  BY DEF S!WithNew
<1>5. s1.store = S!save(s, S!MultiPath(multiIndex, pk, data), Len(pk))
  BY DEF S!Ok
<1> DEFINE o == S!Ok(s)
<1> HIDE DEF s1, s2, o
<1>6. Solves(f)
  <2>1. f[0] = o /\ f[1] = s1 /\ f[2] = s2
    BY DEF o
  <2>2. ASSUME NEW n \in 0 .. 2
        PROVE  f[n] = CASE n = 0 -> S!Ok(s)
                        [] n > 0 /\ f[n-1].ok -> S!index_save(f[n-1].store, map.idx[n], pk, data)
                        [] OTHER -> f[n-1]
    <3> HIDE DEF f
    <3>1. CASE n = 0
      BY <2>1, <3>1 DEF o
    <3>2. CASE n = 1
      <4>1. f[n-1] = o /\ n > 0 /\ n # 0 /\ map.idx[n] = multiIndex
        BY <1>1, <2>1, <3>2
      <4>2. o.ok /\ S!index_save(o.store, multiIndex, pk, data) = s1
        BY <1>2 DEF o
      <4>3. QED
        BY <2>1, <3>2, <4>1, <4>2
    <3>3. CASE n = 2
      <4>1. f[n-1] = s1 /\ n > 0 /\ n # 0 /\ map.idx[n] = uniqueIndex
        BY <1>1, <2>1, <3>3
      <4>2. QED
        BY <1>2, <1>3, <2>1, <3>3, <4>1
    <3>4. QED
      BY <3>1, <3>2, <3>3
  <2>3. f = [n \in 0 .. 2 |->
               CASE n = 0 -> S!Ok(s)
                 [] n > 0 /\ f[n-1].ok -> S!index_save(f[n-1].store, map.idx[n], pk, data)
                 [] OTHER -> f[n-1]]
    BY <2>2
  <2>4. QED
    BY <1>1, <2>3
<1> HIDE DEF f
<1>7. Solves(d)
  BY <1>6
<1> HIDE DEF d
<1>8. \A n \in 0 .. 2 :
        d[n] = CASE n = 0 -> S!Ok(s)
                 [] n > 0 /\ d[n-1].ok -> S!index_save(d[n-1].store, map.idx[n], pk, data)
                 [] OTHER -> d[n-1]
  BY <1>1, <1>7
<1>9. d[0] = o
  BY <1>8 DEF o
<1>10. d[1] = s1
  <2>1. 1 \in 0 .. 2 /\ 1 > 0 /\ 1 # 0 /\ 1 - 1 = 0
    OBVIOUS
  <2>2. d[0].ok /\ S!index_save(d[0].store, multiIndex, pk, data) = s1
    BY <1>2, <1>9 DEF o
  <2>3. QED
    BY <1>1, <1>8, <2>1, <2>2
<1>11. d[2] = s2
  <2>1. 2 \in 0 .. 2 /\ 2 > 0 /\ 2 # 0 /\ 2 - 1 = 1
    OBVIOUS
  <2>2. QED
    BY <1>1, <1>2, <1>3, <1>8, <1>10, <2>1
<1>12. QED
  BY <1>1, <1>4, <1>5, <1>11 DEF s2

\* The old value leaves both indexes.
LEMMA OldGone ==
    ASSUME multi \in MultiType, unique \in UniqueType,
           NEW s, NEW rec, NEW chk, NEW log, Laid(s, rec, chk, log, MulFor(multi), UniFor(unique)),
           NEW k \in Keys, NEW old \in Stored
    PROVE  /\ Laid(S!WithoutOld(s, map, Pk(k), old), rec, chk, log,
                   MulFor(MultiWithout(k, old)), UniFor(UniqueWithout(k, old)))
           /\ MultiWithout(k, old) \in MultiType /\ UniqueWithout(k, old) \in UniqueType
<1>1. CASE old = None
  <2>1. /\ S!WithoutOld(s, map, Pk(k), old) = s
        /\ MultiWithout(k, old) = multi /\ UniqueWithout(k, old) = unique
    BY <1>1 DEF S!WithoutOld, MultiWithout, UniqueWithout
  <2>2. QED
    BY <2>1
<1>2. CASE old # None
  <2> DEFINE m == MultiKey[old]
             u == UniqueKey[old]
             t == S!remove(s, S!MultiPath(multiIndex, S!joined_key(KeyParts[k]), old))
             t2 == S!remove(t, S!UniquePath(uniqueIndex, old))
             mul == MulFor(MultiWithout(k, old))
  <2>1. old \in Values /\ m \in MultiKeys /\ u \in UniqueKeys
    BY <1>2, IndexAssumption DEF Stored
  <2>2. S!WithoutOld(s, map, Pk(k), old) = t2
    BY <1>2, WithoutBoth DEF Pk
  <2>3. MultiWithout(k, old) = [multi EXCEPT ![m][k] = None]
    BY <1>2 DEF MultiWithout
  <2>4. UniqueWithout(k, old) = [unique EXCEPT ![u] = None]
    BY <1>2 DEF UniqueWithout
  <2>5. mul = [MulFor(multi) EXCEPT ![<<m, k>>] = None] /\ MultiWithout(k, old) \in MultiType
    <3> DEFINE v == None
    <3>1. v \in {None, PkLen} /\ v # PkLen
      BY IndexAssumption
    <3> HIDE DEF m, mul, v
    <3>2. /\ MultiPut(multi, m, k, v) \in MultiType
          /\ MulFor(MultiPut(multi, m, k, v))
               = Put(MulFor(multi), <<m, k>>, IF v = PkLen THEN Len(Pk(k)) ELSE None)
      BY <2>1, <3>1, MulPut
    <3>3. mul = MulFor(MultiWithout(k, old))
      BY DEF mul
    <3>4. QED
      BY <2>3, <3>1, <3>2, <3>3 DEF v, MultiPut, Put
  <2>6. UniFor(UniqueWithout(k, old)) = [UniFor(unique) EXCEPT ![u] = None]
        /\ UniqueWithout(k, old) \in UniqueType
    <3> DEFINE r == None
    <3>1. r \in UniqueRef \cup {None} /\ RefFor(r) = None
      BY RefsKnown
    <3> HIDE DEF u, r
    <3>2. /\ UniFor([unique EXCEPT ![u] = r]) = [UniFor(unique) EXCEPT ![u] = RefFor(r)]
          /\ [unique EXCEPT ![u] = r] \in UniqueType
      BY <2>1, <3>1, UniPut
    <3>3. QED
      BY <2>4, <3>1, <3>2 DEF r
  <2>7. DOMAIN MulFor(multi) = MultiKeys \X Keys /\ DOMAIN UniFor(unique) = UniqueKeys
    BY DEF MulFor, UniFor
  <2>8. Laid(t, rec, chk, log, [MulFor(multi) EXCEPT ![<<m, k>>] = None], UniFor(unique))
    BY <2>1, <2>7, PutMulti
  <2> HIDE DEF t, mul
  <2>9. Laid(t, rec, chk, log, mul, UniFor(unique))
    BY <2>5, <2>8
  <2>10. Laid(t2, rec, chk, log, mul, [UniFor(unique) EXCEPT ![u] = None])
    BY <2>1, <2>7, <2>9, PutUnique
  <2> HIDE DEF t2
  <2>11. Laid(t2, rec, chk, log, mul, UniFor(UniqueWithout(k, old)))
    BY <2>6, <2>10
  <2>12. QED
    BY <2>2, <2>5, <2>6, <2>11 DEF mul
<1>3. QED
  BY <1>1, <1>2

\* The new value is put in both, unless another key has its place in the second.
LEMMA NewEnters ==
    ASSUME NEW mm \in MultiType, NEW uu \in UniqueType,
           NEW s, NEW rec, NEW chk, NEW log, Laid(s, rec, chk, log, MulFor(mm), UniFor(uu)),
           NEW k \in Keys, NEW data \in Values,
           NEW w, w = S!WithNew(s, map, Pk(k), data)
    PROVE  /\ w.ok <=> uu[UniqueKey[data]] = None
           /\ w.ok => Laid(w.store, rec, chk, log,
                           MulFor([mm EXCEPT ![MultiKey[data]][k] = PkLen]),
                           UniFor([uu EXCEPT ![UniqueKey[data]] = <<k, data>>]))
<1> DEFINE m == MultiKey[data]
           u == UniqueKey[data]
           n == Len(Pk(k))
           ref == RefFor(<<k, data>>)
           t == S!save(s, S!MultiPath(multiIndex, S!joined_key(KeyParts[k]), data), n)
           p == S!UniquePath(uniqueIndex, data)
           mul == [MulFor(mm) EXCEPT ![<<m, k>>] = n]
<1>1. m \in MultiKeys /\ u \in UniqueKeys /\ n # None /\ ref # None
      /\ ref = [pk |-> Pk(k), value |-> data]
  BY IndexAssumption, RefsKnown
<1>2. DOMAIN MulFor(mm) = MultiKeys \X Keys /\ DOMAIN UniFor(uu) = UniqueKeys
      /\ UniFor(uu)[u] = RefFor(uu[u])
  BY <1>1 DEF MulFor, UniFor
<1>3. w = S!unique_save(t, uniqueIndex, Pk(k), data)
  BY WithBoth DEF Pk
<1>4. /\ S!has(t, p) => ~w.ok
      /\ ~S!has(t, p) => w.ok /\ w.store = S!save(t, p, ref)
  BY <1>1, <1>3 DEF S!unique_save, S!Ok, S!Err, S!UniqueRef
<1> HIDE DEF n, ref
<1>5. Laid(t, rec, chk, log, mul, UniFor(uu))
  BY <1>1, <1>2, PutMulti
<1> HIDE DEF t
<1>6. S!has(t, p) <=> UniFor(uu)[u] # None
  <2> HIDE DEF mul
  <2>1. \A v \in Values : S!has(t, S!UniquePath(uniqueIndex, v)) <=> UniFor(uu)[UniqueKey[v]] # None
    BY <1>5, Reads
  <2>2. QED
    BY <2>1
<1>7. UniFor(uu)[u] # None <=> uu[u] # None
  <2>1. uu[u] = None \/ uu[u] \in Keys \X Values
    BY <1>1 DEF UniqueType, UniqueRef
  <2>2. CASE uu[u] = None
    BY <1>2, <2>2, RefsKnown
  <2>3. CASE uu[u] \in Keys \X Values
    <3>1. PICK j \in Keys, v \in Values : uu[u] = <<j, v>>
      BY <2>3
    <3>2. uu[u] # None /\ RefFor(uu[u]) # None
      BY <3>1, IndexAssumption, RefsKnown
    <3>3. QED
      BY <1>2, <3>2
  <2>4. QED
    BY <2>1, <2>2, <2>3
<1>8. w.ok <=> uu[u] = None
  BY <1>4, <1>6, <1>7
<1>9. ASSUME w.ok
      PROVE  Laid(w.store, rec, chk, log, MulFor([mm EXCEPT ![m][k] = PkLen]),
                  UniFor([uu EXCEPT ![u] = <<k, data>>]))
  <2>1. w.store = S!save(t, p, ref)
    BY <1>4, <1>9
  <2>2. MulFor([mm EXCEPT ![m][k] = PkLen]) = mul
    <3> DEFINE v == PkLen
    <3>1. v \in {None, PkLen} /\ v = PkLen
      OBVIOUS
    <3> HIDE DEF m, mul, v
    <3>2. /\ MultiPut(mm, m, k, v) \in MultiType
          /\ MulFor(MultiPut(mm, m, k, v))
               = Put(MulFor(mm), <<m, k>>, IF v = PkLen THEN Len(Pk(k)) ELSE None)
      BY <1>1, <3>1, MulPut
    <3>3. QED
      BY <3>1, <3>2 DEF mul, n, v, MultiPut, Put
  <2>3. UniFor([uu EXCEPT ![u] = <<k, data>>]) = [UniFor(uu) EXCEPT ![u] = ref]
    <3> DEFINE r == <<k, data>>
    <3>1. r \in UniqueRef \cup {None}
      BY DEF UniqueRef
    <3> HIDE DEF r, u
    <3>2. UniFor([uu EXCEPT ![u] = r]) = [UniFor(uu) EXCEPT ![u] = RefFor(r)]
      BY <1>1, <3>1, UniPut
    <3>3. QED
      BY <3>2 DEF ref, r
  <2> HIDE DEF mul
  <2>4. Laid(S!save(t, p, ref), rec, chk, log, mul, [UniFor(uu) EXCEPT ![u] = ref])
    BY <1>1, <1>2, <1>5, PutUnique
  <2>5. QED
    BY <2>1, <2>2, <2>3, <2>4
<1>10. QED
  BY <1>8, <1>9

-----------------------------------------------------------------------------
(* Every step.                                                             *)

\* The storage has what the map has: the records, the checkpoints, the changelog and
\* both indexes, each below a name of its own, and nothing else.
StoredInv ==
    /\ IndexInv
    /\ Laid(store, primary, ChkOf, LogOf, MulFor(multi), UniFor(unique))

\* What the invariant says of the state.
LEMMA InvTypes ==
    ASSUME StoredInv
    PROVE  /\ TypeOK /\ multi \in MultiType /\ unique \in UniqueType
           /\ Laid(store, primary, ChkOf, LogOf, MulFor(multi), UniFor(unique))
           /\ \A k \in Keys : primary[k] \in Stored
           /\ \A k \in Keys : S!primary_may_load(store, map, KeyParts[k]) = primary[k]
<1>1. Laid(store, primary, ChkOf, LogOf, MulFor(multi), UniFor(unique))
  BY DEF StoredInv
<1>2. \A k \in Keys : S!primary_may_load(store, map, KeyParts[k]) = primary[k]
  BY <1>1, Reads
<1>3. QED
  BY <1>1, <1>2 DEF StoredInv, IndexInv, IndexTypeOK, MultiType, UniqueType, TypeOK

\* replace: it is refused when the map refuses it, and else it leaves in the storage
\* what the map has then.
LEMMA ReplaceLaid ==
    ASSUME StoredInv, NEW k \in Keys, NEW data \in Values,
           NEW result, result = S!snapshot_replace(store, map, KeyParts[k], data, primary[k], height)
    PROVE  /\ result.ok <=> ~Violates(k, data)
           /\ replace(k, data) => Laid(result.store, primary', ChkOf', LogOf',
                                       MulFor(multi'), UniFor(unique'))
<1> DEFINE mm == MultiWithout(k, primary[k])
           uu == UniqueWithout(k, primary[k])
           s == S!WithoutOld(store, map, Pk(k), primary[k])
           w == S!WithNew(s, map, Pk(k), data)
           mul == MulFor([mm EXCEPT ![MultiKey[data]][k] = PkLen])
           uni == UniFor([uu EXCEPT ![UniqueKey[data]] = <<k, data>>])
           t == S!snapshot_save(w.store, map, KeyParts[k], data, height)
<1>1. data # None /\ data \in Stored
  BY SnapshotAssumption DEF Stored
<1>2. /\ w.ok => result = S!Ok(t)
      /\ ~w.ok => result = w
  BY <1>1 DEF S!snapshot_replace, Pk
<1>3. (w.ok => result.ok /\ result.store = t) /\ (~w.ok => ~result.ok)
  <2> HIDE DEF w, t
  <2>1. QED
    BY <1>2 DEF S!Ok
<1>4. Laid(s, primary, ChkOf, LogOf, MulFor(mm), UniFor(uu)) /\ mm \in MultiType /\ uu \in UniqueType
  BY InvTypes, OldGone
<1>5. /\ w.ok <=> uu[UniqueKey[data]] = None
      /\ w.ok => Laid(w.store, primary, ChkOf, LogOf, mul, uni)
  <2> HIDE DEF mm, uu, s
  <2>1. w = S!WithNew(s, map, Pk(k), data)
    OBVIOUS
  <2> HIDE DEF w
  <2>2. QED
    BY <1>4, <2>1, NewEnters
<1>6. Violates(k, data) <=> uu[UniqueKey[data]] # None
  BY DEF Violates
<1>7. ASSUME replace(k, data)
      PROVE  Laid(result.store, primary', ChkOf', LogOf', MulFor(multi'), UniFor(unique'))
  <2>1. w.ok
    BY <1>5, <1>6, <1>7 DEF replace
  <2>2. Write(k, data) /\ MulFor(multi') = mul /\ UniFor(unique') = uni
    BY <1>7 DEF replace, save, IndexAs
  <2>3. TypeOK
    BY InvTypes
  <2>4. Laid(w.store, primary, ChkOf, LogOf, mul, uni)
    BY <1>5, <2>1
  <2> HIDE DEF w, mul, uni
  <2>5. Laid(t, primary', ChkOf', LogOf', mul, uni)
    BY <1>1, <2>2, <2>3, <2>4, WriteLaid
  <2> HIDE DEF t
  <2>6. QED
    BY <1>3, <2>1, <2>2, <2>5
<1> HIDE DEF w, uu
<1>8. QED
  BY <1>3, <1>5, <1>6, <1>7

\* A removal always succeeds.
LEMMA RemovalLaid ==
    ASSUME StoredInv, NEW k \in Keys, replace_none(k),
           NEW result, result = S!indexed_snapshot_remove(store, map, KeyParts[k], height)
    PROVE  result.ok /\ Laid(result.store, primary', ChkOf', LogOf', MulFor(multi'), UniFor(unique'))
<1> DEFINE mm == MultiWithout(k, primary[k])
           uu == UniqueWithout(k, primary[k])
           s == S!WithoutOld(store, map, Pk(k), primary[k])
           t == S!snapshot_remove(s, map, KeyParts[k], height)
<1>1. result = S!Ok(t)
  <2>1. S!primary_may_load(store, map, KeyParts[k]) = primary[k]
    BY InvTypes
  <2>2. result = S!snapshot_replace(store, map, KeyParts[k], None, primary[k], height)
    BY <2>1 DEF S!indexed_snapshot_remove
  <2>3. QED
    BY <2>2 DEF S!snapshot_replace, Pk
<1>2. Laid(s, primary, ChkOf, LogOf, MulFor(mm), UniFor(uu))
  BY InvTypes, OldGone
<1>3. Write(k, None) /\ MulFor(multi') = MulFor(mm) /\ UniFor(unique') = UniFor(uu)
  BY DEF replace_none, remove
<1>4. TypeOK /\ None \in Stored
  BY InvTypes DEF Stored
<1> HIDE DEF mm, uu, s
<1>5. Laid(t, primary', ChkOf', LogOf', MulFor(mm), UniFor(uu))
  BY <1>2, <1>3, <1>4, WriteLaid
<1> HIDE DEF t
<1>6. result.ok /\ result.store = t
  BY <1>1 DEF S!Ok
<1>7. QED
  BY <1>3, <1>5, <1>6

\* An empty storage is that of an empty map.
LEMMA InvInit == StoredInit => StoredInv
<1> SUFFICES ASSUME StoredInit
             PROVE  StoredInv
  OBVIOUS
<1>1. IndexInv
  BY IndexInit DEF StoredInit
<1> DEFINE e == <<>>
           log == LogOf
           mul == MulFor(multi)
           uni == UniFor(unique)
<1>2. /\ DOMAIN RecordTail = Keys /\ DOMAIN CheckpointTail = Heights
      /\ DOMAIN LogTail = Keys \X Heights /\ DOMAIN MultiTail = MultiKeys \X Keys
      /\ DOMAIN UniqueTail = UniqueKeys
  BY TailsApart DEF P!Apart
<1>3. \A k \in Keys : primary[k] = None
  BY DEF StoredInit, IndexedInit, Init
<1>4. \A h \in Heights : ChkOf[h] = None
  BY DEF StoredInit, IndexedInit, Init, ChkOf
<1>5. \A d \in Keys \X Heights : log[d] = None
  <2>1. \A k \in Keys, h \in Heights : changelog[k][h] = Unlogged
    BY DEF StoredInit, IndexedInit, Init
  <2>2. QED
    BY <2>1 DEF LogOf
<1>6. \A d \in MultiKeys \X Keys : mul[d] = None
  <2>1. \A m \in MultiKeys, k \in Keys : multi[m][k] = None
    BY DEF StoredInit, IndexedInit
  <2>2. PkLen # None
    BY IndexAssumption
  <2>3. QED
    BY <2>1, <2>2 DEF MulFor
<1>7. \A u \in UniqueKeys : uni[u] = None
  BY DEF StoredInit, IndexedInit, UniFor, RefFor
<1> HIDE DEF e, log, mul, uni
<1>8. /\ P!Shaped(e, Names)
      /\ P!Holds(e, RecordsNamespace, RecordTail, primary)
      /\ P!Holds(e, CheckpointsNamespace, CheckpointTail, ChkOf)
      /\ P!Holds(e, ChangelogNamespace, LogTail, log)
      /\ P!Holds(e, MultiNamespace, MultiTail, mul)
      /\ P!Holds(e, UniqueNamespace, UniqueTail, uni)
  BY <1>2, <1>3, <1>4, <1>5, <1>6, <1>7, P!EmptyHolds DEF e
<1>9. Laid(e, primary, ChkOf, log, mul, uni)
  BY <1>8 DEF Laid
<1>10. store = e
  BY DEF StoredInit, e
<1>11. QED
  BY <1>1, <1>9, <1>10 DEF StoredInv, log, mul, uni

\* Beside the storage, every step is one of the indexed snapshot map.
LEMMA StoredMapStep == StoredInv /\ [StoredNext]_storedVars => [IndexedNext]_indexedVars
<1> SUFFICES ASSUME StoredInv, [StoredNext]_storedVars
             PROVE  [IndexedNext]_indexedVars
  OBVIOUS
<1>1. ASSUME NEW k \in Keys, NEW data \in Values, StoredSave(k, data)
      PROVE  IndexedNext
  BY <1>1 DEF StoredSave, IndexedNext
<1>2. ASSUME NEW k \in Keys, NEW output \in Values \cup {Failed}, StoredUpdate(k, output)
      PROVE  [IndexedNext]_indexedVars
  <2>1. CASE output = Failed
    BY <1>2, <2>1 DEF StoredUpdate
  <2>2. CASE output # Failed
    <3>1. output \in Values
      BY <2>2
    <3>2. CASE indexed_update(k, [v \in {primary[k]} |-> output])
      <4>1. replace(k, output)
        BY <3>2 DEF indexed_update
      <4>2. QED
        BY <3>1, <4>1 DEF IndexedNext
    <3>3. CASE replace_fails(k, output)
      BY <3>1, <3>3 DEF IndexedNext
    <3>4. QED
      BY <1>2, <2>2, <3>2, <3>3 DEF StoredUpdate
  <2>3. QED
    BY <2>1, <2>2
<1>3. ASSUME NEW k \in Keys, StoredRemove(k)
      PROVE  IndexedNext
  BY <1>3 DEF StoredRemove, IndexedNext
<1>4. ASSUME NEW c \in Clients, NEW h \in Heights,
             StoredAddCheckpoint(c, h) \/ StoredRemoveCheckpoint(c, h)
      PROVE  IndexedNext
  BY <1>4 DEF StoredAddCheckpoint, StoredRemoveCheckpoint, IndexedNext, PassThrough
<1>5. ASSUME StoredNextBlock
      PROVE  IndexedNext
  BY <1>5 DEF StoredNextBlock, IndexedNext, PassThrough
<1>6. ASSUME UNCHANGED storedVars
      PROVE  UNCHANGED indexedVars
  BY <1>6 DEF storedVars
<1>7. QED
  BY <1>1, <1>2, <1>3, <1>4, <1>5, <1>6 DEF StoredNext

\* A write that is refused leaves the storage as it was, and one that is not leaves in
\* it what the map has then.
LEMMA HandledLaid ==
    ASSUME StoredInv, NEW k \in Keys, NEW data \in Values,
           NEW result, result = S!snapshot_replace(store, map, KeyParts[k], data, primary[k], height),
           replace(k, data) \/ replace_fails(k, data), Handled(result)
    PROVE  Laid(store, primary, ChkOf, LogOf, MulFor(multi), UniFor(unique))'
<1>1. /\ result.ok <=> ~Violates(k, data)
      /\ replace(k, data) => Laid(result.store, primary', ChkOf', LogOf',
                                  MulFor(multi'), UniFor(unique'))
  BY ReplaceLaid
<1>2. CASE replace(k, data)
  <2>1. result.ok
    BY <1>1, <1>2 DEF replace
  <2>2. store' = result.store
    BY <2>1 DEF Handled
  <2>3. QED
    BY <1>1, <1>2, <2>2 DEF MulFor, UniFor, ChkOf, LogOf, Laid
<1>3. CASE replace_fails(k, data)
  <2>1. ~result.ok
    BY <1>1, <1>3 DEF replace_fails
  <2>2. store' = store /\ UNCHANGED indexedVars
    BY <1>3, <2>1 DEF Handled, replace_fails
  <2>3. QED
    BY <2>2 DEF StoredInv, indexedVars, vars, indexes, Laid, ChkOf, LogOf, MulFor, UniFor
<1>4. QED
  BY <1>2, <1>3

\* After every operation the storage has what the map has.
LEMMA InvStep == StoredInv /\ [StoredNext]_storedVars => StoredInv'
<1> SUFFICES ASSUME StoredInv, [StoredNext]_storedVars
             PROVE  StoredInv'
  OBVIOUS
<1> DEFINE Here == Laid(store, primary, ChkOf, LogOf, MulFor(multi), UniFor(unique))
<1>1. IndexInv'
  BY StoredMapStep, IndexStep DEF StoredInv
<1>2. /\ TypeOK /\ Here
      /\ \A k \in Keys : S!primary_may_load(store, map, KeyParts[k]) = primary[k]
  BY InvTypes
<1>3. ASSUME primary' = primary, ChkOf' = ChkOf, LogOf' = LogOf, UNCHANGED indexes, store' = store
      PROVE  Here'
  BY <1>2, <1>3 DEF indexes, Laid, MulFor, UniFor
<1>4. ASSUME NEW t, store' = t, Laid(t, primary', ChkOf', LogOf', MulFor(multi'), UniFor(unique'))
      PROVE  Here'
  BY <1>4 DEF MulFor, UniFor, ChkOf, LogOf, Laid
<1>5. ASSUME NEW k \in Keys, NEW data \in Values, StoredSave(k, data)
      PROVE  Here'
  <2> DEFINE result == S!snapshot_replace(store, map, KeyParts[k], data, primary[k], height)
  <2>1. (replace(k, data) \/ replace_fails(k, data)) /\ Handled(result)
    BY <1>2, <1>5 DEF StoredSave, S!indexed_snapshot_save
  <2>2. QED
    BY <2>1, HandledLaid
<1>6. ASSUME NEW k \in Keys, NEW output \in Values \cup {Failed}, StoredUpdate(k, output)
      PROVE  Here'
  <2> DEFINE result == S!indexed_snapshot_update(store, map, KeyParts[k], height, LAMBDA v : output)
  <2>1. CASE output = Failed
    <3>1. result = S!Err(store)
      BY <2>1 DEF S!indexed_snapshot_update
    <3>2. ~result.ok
      <4> HIDE DEF result
      <4>1. QED
        BY <3>1 DEF S!Err
    <3>3. store' = store /\ UNCHANGED indexedVars
      BY <1>6, <2>1, <3>2 DEF StoredUpdate, Handled
    <3>4. QED
      BY <1>3, <3>3 DEF indexedVars, vars, indexes, ChkOf, LogOf
  <2>2. CASE output # Failed
    <3> DEFINE replaced == S!snapshot_replace(store, map, KeyParts[k], output, primary[k], height)
    <3>1. output \in Values
      BY <2>2
    <3>2. result = replaced
      BY <1>2, <2>2 DEF S!indexed_snapshot_update
    <3>3. replace(k, output) \/ replace_fails(k, output)
      <4>1. indexed_update(k, [v \in {primary[k]} |-> output]) => replace(k, output)
        BY DEF indexed_update
      <4>2. QED
        BY <1>6, <2>2, <4>1 DEF StoredUpdate
    <3>4. Handled(result)
      BY <1>6 DEF StoredUpdate
    <3> HIDE DEF result
    <3>5. Handled(replaced)
      BY <3>2, <3>4
    <3>6. QED
      BY <3>1, <3>3, <3>5, HandledLaid
  <2>3. QED
    BY <2>1, <2>2
<1>7. ASSUME NEW k \in Keys, StoredRemove(k)
      PROVE  Here'
  <2> DEFINE result == S!indexed_snapshot_remove(store, map, KeyParts[k], height)
  <2>1. replace_none(k) /\ Handled(result)
    BY <1>7 DEF StoredRemove
  <2>2. result.ok /\ Laid(result.store, primary', ChkOf', LogOf', MulFor(multi'), UniFor(unique'))
    BY <2>1, RemovalLaid
  <2>3. store' = result.store
    BY <2>1, <2>2 DEF Handled
  <2> HIDE DEF result, Here
  <2>4. QED
    BY <1>4, <2>2, <2>3
<1>8. ASSUME NEW c \in Clients, NEW h \in Heights, StoredAddCheckpoint(c, h)
      PROVE  Here'
  <2> DEFINE t == S!add_checkpoint(store, map, h)
             mul == MulFor(multi)
             uni == UniFor(unique)
  <2>1. add_checkpoint(c, h) /\ store' = t /\ mul = MulFor(multi') /\ uni = UniFor(unique')
    BY <1>8 DEF StoredAddCheckpoint, indexes
  <2>2. Laid(store, primary, ChkOf, LogOf, mul, uni)
    BY <1>2
  <2> HIDE DEF mul, uni, t, Here
  <2>3. Laid(t, primary', ChkOf', LogOf', mul, uni)
    BY <1>2, <2>1, <2>2, CheckpointsLaid DEF t
  <2>4. QED
    BY <1>4, <2>1, <2>3
<1>9. ASSUME NEW c \in Clients, NEW h \in Heights, StoredRemoveCheckpoint(c, h)
      PROVE  Here'
  <2> DEFINE t == S!remove_checkpoint(store, map, h)
             mul == MulFor(multi)
             uni == UniFor(unique)
  <2>1. remove_checkpoint(c, h) /\ store' = t /\ mul = MulFor(multi') /\ uni = UniFor(unique')
    BY <1>9 DEF StoredRemoveCheckpoint, indexes
  <2>2. Laid(store, primary, ChkOf, LogOf, mul, uni)
    BY <1>2
  <2> HIDE DEF mul, uni, t, Here
  <2>3. Laid(t, primary', ChkOf', LogOf', mul, uni)
    BY <1>2, <2>1, <2>2, CheckpointsLaid DEF t
  <2>4. QED
    BY <1>4, <2>1, <2>3
<1>10. ASSUME StoredNextBlock
       PROVE  Here'
  BY <1>3, <1>10 DEF StoredNextBlock, NextBlock, ChkOf, LogOf
<1>11. ASSUME UNCHANGED storedVars
       PROVE  Here'
  BY <1>3, <1>11 DEF storedVars, indexedVars, vars, indexes, ChkOf, LogOf
<1>12. Here'
  <2> HIDE DEF Here
  <2>1. QED
    BY <1>5, <1>6, <1>7, <1>8, <1>9, <1>10, <1>11 DEF StoredNext
<1>13. QED
  BY <1>1, <1>12 DEF StoredInv

-----------------------------------------------------------------------------
(* The answers.                                                            *)

\* MultiIndex: the keys of the records that have an index key now.
LEMMA MultiAnswers ==
    ASSUME StoredInv, NEW m \in MultiKeys,
           NEW answers, answers = S!multi_range(store, map, multiIndex, MultiParts[m], None, None,
                                                "Ascending"),
           NEW holders, holders = {k \in Keys : multi[m][k] = PkLen}
    PROVE  Listed(answers) = {KeyParts[k] : k \in holders} /\ Len(answers) = Cardinality(holders)
<1> DEFINE c == MulFor(multi)
<1>1. Laid(store, primary, ChkOf, LogOf, c, UniFor(unique))
  BY InvTypes
<1>2. answers = P!multi_range(store, map, multiIndex, MultiParts[m], None, None, "Ascending")
  BY SameMulti
<1>3. map.parts = 1 /\ multiIndex.namespace = MultiNamespace /\ MultiNamespace \in Names
  BY DEF map, multiIndex, Names
<1>4. \A k \in Keys : c[<<m, k>>] # None <=> multi[m][k] = PkLen
  <2>1. ASSUME NEW k \in Keys
        PROVE  c[<<m, k>>] # None <=> multi[m][k] = PkLen
    <3>1. c[<<m, k>>] = IF multi[m][k] = PkLen THEN Len(Pk(k)) ELSE None
      BY DEF MulFor
    <3>2. Len(Pk(k)) # None
      BY RefsKnown
    <3> HIDE DEF c
    <3>3. QED
      BY <3>1, <3>2
  <2>2. QED
    BY <2>1
<1>5. P!Lengths(c, MultiKeys, Keys, KeyParts)
  <2>1. ASSUME NEW d \in MultiKeys \X Keys, c[d] # None
        PROVE  c[d] = Len(P!joined_key(KeyParts[d[2]]))
    <3>1. c[d] = IF multi[d[1]][d[2]] = PkLen THEN Len(Pk(d[2])) ELSE None
      BY DEF MulFor
    <3>2. Pk(d[2]) = P!joined_key(KeyParts[d[2]])
      BY SameKeys DEF Pk
    <3> HIDE DEF c
    <3>3. QED
      BY <2>1, <3>1, <3>2
  <2>2. QED
    BY <2>1 DEF P!Lengths
<1>6. /\ Names \in SUBSET P!Text /\ P!Shaped(store, Names)
      /\ P!OnePartKeys(KeyParts, Keys) /\ P!IndexParts(MultiParts, MultiKeys)
      /\ P!Holds(store, MultiNamespace, P!MultiTail(MultiParts, MultiKeys, KeyParts, Keys), c)
  BY <1>1, NamesDiffer, PartsKnown DEF Laid, MultiTail
<1> HIDE DEF c
<1>7. P!Lists(answers, c, m, Keys, KeyParts)
  <2> DEFINE i == multiIndex
             a == map
  <2>1. a.parts = 1 /\ i.namespace \in Names
        /\ P!Holds(store, i.namespace, P!MultiTail(MultiParts, MultiKeys, KeyParts, Keys), c)
        /\ answers = P!multi_range(store, a, i, MultiParts[m], None, None, "Ascending")
    BY <1>2, <1>3, <1>6
  <2> HIDE DEF i, a
  <2>2. QED
    BY <1>5, <1>6, <2>1, P!MultiFound
<1>8. holders = {k \in Keys : c[<<m, k>>] # None}
  BY <1>4
<1>9. QED
  BY <1>7, <1>8, SameCardinality DEF P!Lists, Listed

\* UniqueIndex: the record that has the index key now.
LEMMA UniqueAnswers ==
    ASSUME StoredInv, NEW u \in UniqueKeys
    PROVE  S!item(store, map, uniqueIndex, UniqueParts[u])
             = IF unique[u] = None THEN None
               ELSE <<S!joined_key(KeyParts[unique[u][1]]), unique[u][2]>>
<1> DEFINE found == S!may_load(store, S!Path(uniqueIndex.namespace, UniqueParts[u]))
           c == UniFor(unique)
<1>1. found = RefFor(unique[u])
  <2>1. Laid(store, primary, ChkOf, LogOf, MulFor(multi), c)
    BY InvTypes
  <2>2. c[u] = RefFor(unique[u]) /\ uniqueIndex.namespace = UniqueNamespace
    BY DEF UniFor, uniqueIndex
  <2> HIDE DEF c
  <2>3. S!may_load(store, S!Path(UniqueNamespace, UniqueParts[u])) = c[u]
    BY <2>1, Reads
  <2>4. QED
    BY <2>2, <2>3
<1>2. S!item(store, map, uniqueIndex, UniqueParts[u])
        = IF found = None THEN None ELSE <<found.pk, found.value>>
  BY DEF S!item
<1> HIDE DEF found
<1>3. unique[u] \in UniqueRef \cup {None}
  BY InvTypes DEF UniqueType
<1>4. CASE unique[u] = None
  BY <1>1, <1>2, <1>4, RefsKnown
<1>5. CASE unique[u] # None
  <2>1. PICK k \in Keys, v \in Values : unique[u] = <<k, v>>
    BY <1>3, <1>5 DEF UniqueRef
  <2>2. found = [pk |-> Pk(k), value |-> v] /\ found # None
    BY <1>1, <2>1, RefsKnown
  <2>3. QED
    BY <1>2, <1>5, <2>1, <2>2 DEF Pk
<1>6. QED
  BY <1>4, <1>5

\* From what it has the storage answers as the map does.
LEMMA InvAnswers == StoredInv => StoreAnswersAsMap
<1> SUFFICES ASSUME StoredInv
             PROVE  StoreAnswersAsMap
  OBVIOUS
<1>1. /\ TypeOK
      /\ Laid(store, primary, ChkOf, LogOf, MulFor(multi), UniFor(unique))
      /\ \A k \in Keys : S!primary_may_load(store, map, KeyParts[k]) = primary[k]
  BY InvTypes
<1>2. \A k \in Keys, h \in Heights :
        S!may_load_at_height(store, map, KeyParts[k], h)
          = IF assert_checkpointed(h) THEN may_load_at_height(k, h) ELSE NotFound
  BY <1>1, AnswersAt
<1>3. ASSUME NEW m \in MultiKeys
      PROVE  LET answers == S!multi_range(store, map, multiIndex, MultiParts[m], None, None,
                                          "Ascending")
                 holders == {k \in Keys : multi[m][k] = PkLen}
             IN  /\ Listed(answers) = {KeyParts[k] : k \in holders}
                 /\ Len(answers) = Cardinality(holders)
  BY MultiAnswers
<1>4. \A u \in UniqueKeys : S!item(store, map, uniqueIndex, UniqueParts[u])
        = IF unique[u] = None THEN None
          ELSE <<S!joined_key(KeyParts[unique[u][1]]), unique[u][2]>>
  BY UniqueAnswers
<1>5. QED
  BY <1>1, <1>2, <1>3, <1>4 DEF StoreAnswersAsMap

\* Whatever was written, refused, removed or checkpointed, the storage answers as the map
\* does: each key now and at each height, and each index key.
THEOREM StoreAnswers == StoredSpec => []StoreAnswersAsMap
<1>1. StoredInit => StoredInv
  BY InvInit
<1>2. StoredInv /\ [StoredNext]_storedVars => StoredInv'
  BY InvStep
<1>3. StoredInv => StoreAnswersAsMap
  BY InvAnswers
<1>4. QED
  BY <1>1, <1>2, <1>3, PTL DEF StoredSpec

-----------------------------------------------------------------------------
(* What a client reads from the bytes, without the map beside them.        *)

\* The storage's own answers: a key at a height, and a key now.
ReadAt(k, h) == S!may_load_at_height(store, map, KeyParts[k], h)
LatestRead(k) == S!primary_may_load(store, map, KeyParts[k])

\* A height that is read at all is read as a value the key had in that block.
BytesAreHistorical ==
    \A k \in Keys, h \in 1 .. height :
        ReadAt(k, h) # NotFound => ReadAt(k, h) \in started[h][k]

\* A step changes no read of a height that is read before and after it.
BytesNeverChange ==
    \A k \in Keys, h \in 1 .. height :
        ReadAt(k, h) # NotFound /\ ReadAt(k, h)' # NotFound => ReadAt(k, h)' = ReadAt(k, h)

\* Through either index there are the records read now that have the index key, no other.
BytesAreIndexed ==
    /\ \A m \in MultiKeys :
         Listed(S!multi_range(store, map, multiIndex, MultiParts[m], None, None, "Ascending"))
           = {KeyParts[k] : k \in {j \in Keys : LatestRead(j) # None
                                                /\ MultiKey[LatestRead(j)] = m}}
    /\ \A u \in UniqueKeys, k \in Keys, v \in Values :
         S!item(store, map, uniqueIndex, UniqueParts[u]) = <<Pk(k), v>>
           <=> LatestRead(k) = v /\ UniqueKey[v] = u

\* Beside its bytes, the storage is an indexed snapshot map.
LEMMA StoredRefinement == StoredSpec => IndexedSpec
<1>1. StoredInit => StoredInv /\ IndexedInit
  BY InvInit DEF StoredInit
<1>2. StoredInv /\ [StoredNext]_storedVars => StoredInv' /\ [IndexedNext]_indexedVars
  BY InvStep, StoredMapStep
<1>3. QED
  BY <1>1, <1>2, PTL DEF StoredSpec, IndexedSpec

\* What the storage answers at a height is what the map does, where it answers.
LEMMA AnswersKnown ==
    ASSUME StoreAnswersAsMap, NEW k \in Keys, NEW h \in Heights, ReadAt(k, h) # NotFound
    PROVE  assert_checkpointed(h) /\ ReadAt(k, h) = may_load_at_height(k, h)
BY DEF StoreAnswersAsMap, ReadAt

\* For all names, keys, strategies and heights: what may_load_at_height finds in the bytes
\* for a past height is a value of that block, and the next read finds the same, whatever
\* is written, refused, removed or checkpointed between (snapshot/map.rs).
THEOREM StoredReadsCorrect ==
    StoredSpec => []BytesAreHistorical /\ [][BytesNeverChange]_storedVars
<1> DEFINE Unchanged ==
      \A k \in Keys, h \in 1 .. height :
        assert_checkpointed(h) /\ assert_checkpointed(h)'
          => may_load_at_height(k, h)' = may_load_at_height(k, h)
<1>1. TypeOK /\ StoreAnswersAsMap /\ ReadsAreHistorical => BytesAreHistorical
  <2> SUFFICES ASSUME TypeOK, StoreAnswersAsMap, ReadsAreHistorical,
                      NEW k \in Keys, NEW h \in 1 .. height, ReadAt(k, h) # NotFound
               PROVE  ReadAt(k, h) \in started[h][k]
    BY DEF BytesAreHistorical
  <2>1. h \in Heights
    BY SnapshotAssumption DEF TypeOK, Heights
  <2>2. assert_checkpointed(h) /\ ReadAt(k, h) = may_load_at_height(k, h)
    BY <2>1, AnswersKnown
  <2>3. QED
    BY <2>2 DEF ReadsAreHistorical
<1>2. TypeOK /\ StoreAnswersAsMap /\ StoreAnswersAsMap' /\ [Unchanged]_vars
        => [BytesNeverChange]_storedVars
  <2> SUFFICES ASSUME TypeOK, StoreAnswersAsMap, StoreAnswersAsMap', [Unchanged]_vars,
                      NEW k \in Keys, NEW h \in 1 .. height,
                      ReadAt(k, h) # NotFound, ReadAt(k, h)' # NotFound
               PROVE  ReadAt(k, h)' = ReadAt(k, h)
    BY DEF BytesNeverChange
  <2>1. h \in Heights
    BY SnapshotAssumption DEF TypeOK, Heights
  <2>2. assert_checkpointed(h) /\ ReadAt(k, h) = may_load_at_height(k, h)
    BY <2>1, AnswersKnown
  <2>3. assert_checkpointed(h)' /\ ReadAt(k, h)' = may_load_at_height(k, h)'
    BY <2>1 DEF StoreAnswersAsMap, ReadAt
  <2>4. CASE Unchanged
    BY <2>2, <2>3, <2>4
  <2>5. CASE UNCHANGED vars
    BY <2>2, <2>3, <2>5 DEF vars, may_load_at_height, LoggedIn
  <2>6. QED
    BY <2>4, <2>5
<1>3. StoredInv => TypeOK
  BY InvTypes
<1>4. StoredInit => StoredInv
  BY InvInit
<1>5. StoredInv /\ [StoredNext]_storedVars => StoredInv'
  BY InvStep
<1>6. StoredSpec => [](TypeOK /\ StoreAnswersAsMap)
  BY <1>3, <1>4, <1>5, StoreAnswers, PTL DEF StoredSpec
<1>7. StoredSpec => []ReadsAreHistorical /\ [][Unchanged]_vars
  BY StoredRefinement, IndexedRefinement, ReadsCorrect, ReadsAreStable
     DEF ImplementsSnapshotMap, ReadsNeverChange
<1>8. QED
  BY <1>1, <1>2, <1>6, <1>7, PTL

\* From what the storage has the indexes list the records.
LEMMA InvIndexed == StoredInv => BytesAreIndexed
<1> SUFFICES ASSUME StoredInv
             PROVE  BytesAreIndexed
  OBVIOUS
<1>1. /\ \A k \in Keys : LatestRead(k) = primary[k]
      /\ unique \in UniqueType
  BY InvTypes DEF LatestRead
<1>2. /\ \A m \in MultiKeys, k \in Keys :
           multi[m][k] = PkLen <=> primary[k] # None /\ MultiKey[primary[k]] = m
      /\ \A u \in UniqueKeys, k \in Keys, v \in Values :
           unique[u] = <<k, v>> <=> primary[k] = v /\ UniqueKey[v] = u
  BY DEF StoredInv, IndexInv, IndexesMatchPrimary
<1>3. ASSUME NEW m \in MultiKeys
      PROVE  Listed(S!multi_range(store, map, multiIndex, MultiParts[m], None, None,
                                  "Ascending"))
               = {KeyParts[k] : k \in {j \in Keys : LatestRead(j) # None
                                                    /\ MultiKey[LatestRead(j)] = m}}
  <2> DEFINE found == Listed(S!multi_range(store, map, multiIndex, MultiParts[m], None, None,
                                           "Ascending"))
  <2>1. found = {KeyParts[k] : k \in {j \in Keys : multi[m][j] = PkLen}}
    BY MultiAnswers
  <2> HIDE DEF found
  <2>2. {j \in Keys : multi[m][j] = PkLen}
          = {j \in Keys : LatestRead(j) # None /\ MultiKey[LatestRead(j)] = m}
    BY <1>1, <1>2
  <2>3. QED
    BY <2>1, <2>2 DEF found
<1>4. ASSUME NEW u \in UniqueKeys, NEW k \in Keys, NEW v \in Values
      PROVE  S!item(store, map, uniqueIndex, UniqueParts[u]) = <<Pk(k), v>>
               <=> LatestRead(k) = v /\ UniqueKey[v] = u
  <2> DEFINE found == S!item(store, map, uniqueIndex, UniqueParts[u])
  <2>1. found = IF unique[u] = None THEN None ELSE <<Pk(unique[u][1]), unique[u][2]>>
    BY UniqueAnswers DEF Pk
  <2> HIDE DEF found
  <2>2. \A j \in Keys : Pk(j) = Pk(k) => j = k
    <3>1. P!Apart(RecordTail, Keys) /\ \A j \in Keys : RecordTail[j] = Pk(j)
      BY TailsApart, SameKeys DEF RecordTail, P!RecordTail, Pk
    <3>2. QED
      BY <3>1 DEF P!Apart
  <2>3. CASE unique[u] = None
    <3>1. None # <<Pk(k), v>> /\ None # <<k, v>>
      <4>1. Pk(k) \in Seq(0 .. 255)
        BY RefsKnown DEF P!Bytes, P!Byte
      <4>2. None \notin Seq(0 .. 255) \X Values /\ None \notin Keys \X Values
        BY IndexAssumption, StoredAssumption
      <4>3. <<Pk(k), v>> \in Seq(0 .. 255) \X Values /\ <<k, v>> \in Keys \X Values
        BY <4>1
      <4>4. QED
        BY <4>2, <4>3
    <3>2. QED
      BY <1>1, <1>2, <2>1, <2>3, <3>1 DEF found
  <2>4. CASE unique[u] # None
    <3>1. PICK j \in Keys, w \in Values : unique[u] = <<j, w>>
      BY <1>1, <2>4 DEF UniqueType, UniqueRef
    <3>2. found = <<Pk(k), v>> <=> unique[u] = <<k, v>>
      BY <2>1, <2>2, <2>4, <3>1
    <3>3. QED
      BY <1>1, <1>2, <3>2 DEF found
  <2>5. QED
    BY <2>3, <2>4
<1>5. QED
  BY <1>3, <1>4 DEF BytesAreIndexed

\* For all names, keys and index functions: what is read through the bytes of either index
\* is what the bytes of the records say now, with no stale entry and none missing, whatever
\* was written, refused half-way or removed (indexed_map.rs, multi.rs, unique.rs).
THEOREM StoredIndexesCorrect == StoredSpec => []BytesAreIndexed
<1>1. StoredInit => StoredInv
  BY InvInit
<1>2. StoredInv /\ [StoredNext]_storedVars => StoredInv'
  BY InvStep
<1>3. QED
  BY <1>1, <1>2, InvIndexed, PTL DEF StoredSpec

=============================================================================
