SPECIFICATION Spec
CONSTANTS
    RingSlots = 2
    U64Max = 3
    EventId = {e1, e2, e3}
    NoEvent = NoEvent
    RecordSize = 2
    FragmentLengths = {0, 1, 2}
    BufferSize = 4
    Undone = {{"rename"}, {"remove"}}
    MaxFaults = 2
SYMMETRY Symmetry
INVARIANTS
    AppliedInJournalOrder
    ReplayHasReceipt
    RamCopiesPending
PROPERTIES
    RemovedWhenApplied
    QueueSpec
CHECK_DEADLOCK FALSE
