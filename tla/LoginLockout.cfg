SPECIFICATION FairSpec
CONSTANTS
    User = {u1, u2}
    Backend = {b1}
    Worker = w
    MaxFails = 2
    Minutes = {2}
    Capacity = 1
    MaxTime = 2
    MaxFaults = 1
INVARIANTS
    ReadyCoversLockouts
    ThresholdLocks
PROPERTIES
    CacheComesBack
