SPECIFICATION Spec
CONSTANTS
    u1 = u1
    u2 = u2
    User = {u1, u2}
    Value = {v1}
    Absent = Absent
    Untouched = Untouched
    Kinds <- MCKinds
    MaxPendingOps = 2
    MaxSubids = 3
INVARIANTS
    TypeOK
    CachesMatchTables
    EveryLevelResolves
