SPECIFICATION Spec
CONSTANTS
    RingSlots = 2
    U64Max = 5
    EventId = {e1, e2, e3}
    NoEvent = NoEvent
    RecordSize = 2
    FragmentLengths = {0, 1, 2}
    BufferSize = 4
    Undone = {}
    MaxFaults = 1
INVARIANTS
    DurableIsKept
CHECK_DEADLOCK FALSE
