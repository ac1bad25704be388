\* Checkpoints of two clients, opened and closed in any order, over four blocks.
CONSTANTS
    Keys = {k1}
    Values = {v1}
    None = None
    Unlogged = Unlogged
    Strategy = "Selected"
    Clients = {c1, c2}
    MaxHeight = 4
SPECIFICATION Spec
INVARIANTS
    ReadsAreHistorical
    HeldCheckpointsAnswer
PROPERTY ReadsNeverChange
