\* Three nested transactions on three keys, and every range over them.
CONSTANTS
    Keys = {1, 2, 3}
    Values = {v}
    Absent = Absent
    Untouched = Untouched
    MaxDepth = 3
    MaxWrites = 3
SPECIFICATION Spec
INVARIANTS
    LogMakesView
    RangesReadView
PROPERTY ImplementsSavepoints
