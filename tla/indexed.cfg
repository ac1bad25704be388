\* Three records under two keys, with checkpoints, and the bytes they are stored in.
CONSTANTS
    k1 = k1  k2 = k2
    v1 = v1  v2 = v2  v3 = v3
    m1 = m1  m2 = m2
    u1 = u1  u2 = u2
    Keys <- MCKeys
    Values <- MCValues
    None = None
    NotFound = NotFound
    Failed = Failed
    Unlogged = Unlogged
    Strategy = "Selected"
    Clients = {c1}
    MaxHeight = 2
    MultiKeys = {m1, m2}
    MultiKey <- MCMultiKey
    UniqueKeys = {u1, u2}
    UniqueKey <- MCUniqueKey
    PkLen = PkLen
    RecordsNamespace <- MCRecordsNamespace
    CheckpointsNamespace <- MCCheckpointsNamespace
    ChangelogNamespace <- MCChangelogNamespace
    MultiNamespace <- MCMultiNamespace
    UniqueNamespace <- MCUniqueNamespace
    KeyParts <- MCKeyParts
    MultiParts <- MCMultiParts
    UniqueParts <- MCUniqueParts
VIEW WithoutHistory
SPECIFICATION StoredSpec
INVARIANTS
    IndexesMatchPrimary
    StoreAnswersAsMap
PROPERTY ImplementsSnapshotMap
