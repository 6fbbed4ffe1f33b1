SPECIFICATION Spec
CONSTANTS
    User = {u1}
    Session = {s1}
    Client = {c1}
    Grant = 1
    Capacity = 1
    MaxChanges = 1
    MaxFaults = 1
    Overlap = TRUE
INVARIANTS
    GrantRespected
