SPECIFICATION Spec
CONSTANTS
    Session = {s1, s2}
    Password = {p, q}
    HistoryCount = 1
    ReuseDays = 2
    MaxTime = 3
    MaxChanges = 4
    ManualAlone = TRUE
SYMMETRY Symmetry
INVARIANTS
    TypeOK
    RecentNotReused
    ReusePeriodKept
PROPERTIES
    GenerationGrows
