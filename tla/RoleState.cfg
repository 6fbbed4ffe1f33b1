SPECIFICATION Spec
CONSTANTS
    Name = {1, 2}
    Admin = {a, b}
    MaxFails = 2
    Grace = 1
    MaxRoles = 2
    MaxOps = 2
    MaxLogins = 2
CHECK_DEADLOCK FALSE
INVARIANTS
    CachesMatchRows
    StateFollowsRole
    RoleKeepsState
    RoleStateCallsInOrder
PROPERTIES
    EventsDrain
