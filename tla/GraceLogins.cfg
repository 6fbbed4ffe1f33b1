SPECIFICATION FairSpec
CONSTANTS
    User = {u1, u2}
    Session = {s1}
    Client = {c1, c2}
    Grant = 2
    Capacity = 2
    MaxChanges = 2
    MaxFaults = 2
    Overlap = FALSE
INVARIANTS
    GrantRespected
    RowCountsPersisted
    ReadyMatchesRows
PROPERTIES
    QueueDrains
