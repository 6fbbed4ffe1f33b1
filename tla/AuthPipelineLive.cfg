SPECIFICATION FairSpec
CONSTANTS
    RingSlots = 2
    U64Max = 5
    EventId = {e1, e2}
    NoEvent = NoEvent
    RecordSize = 2
    FragmentLengths = {0, 2}
    BufferSize = 3
    Undone = {{"rename"}, {"remove"}, {"rename", "remove"}}
    MaxFaults = 3
INVARIANTS
    DurableIsKept
PROPERTIES
    EventuallyApplied
    OverflowHeals
CHECK_DEADLOCK FALSE
