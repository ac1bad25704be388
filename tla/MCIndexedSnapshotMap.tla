------------------------ MODULE MCIndexedSnapshotMap ------------------------
(***************************************************************************)
(* Three values: two share the multi index, two the unique one.  Names and *)
(* keys begin with one another, as "a" and "aa" do.                        *)
(***************************************************************************)
EXTENDS StoredSnapshots, TLC

CONSTANTS k1, k2, v1, v2, v3, m1, m2, u1, u2

MCKeys == {k1, k2}
MCValues == {v1, v2, v3}
MCMultiKey == v1 :> m1 @@ v2 :> m1 @@ v3 :> m2
MCUniqueKey == v1 :> u1 @@ v2 :> u2 @@ v3 :> u2

MCRecordsNamespace == <<97>>
MCCheckpointsNamespace == <<97, 97>>
MCChangelogNamespace == <<97, 97, 97>>
MCMultiNamespace == <<97, 98>>
MCUniqueNamespace == <<98>>

MCKeyParts == k1 :> <<<<97>>>> @@ k2 :> <<<<97, 0>>>>
MCMultiParts == m1 :> <<<<97>>>> @@ m2 :> <<<<97, 0>>>>
MCUniqueParts == u1 :> <<<<0>>, <<>>>> @@ u2 :> <<<<0>>, <<255>>>>

\* The states without the histories, which no guard of a step reads and which change by
\* adding to them: what a step does to them is the same after every history.
WithoutHistory == <<primary, checkpoints, changelog, height, holds, multi, unique, store>>

=============================================================================
