SPECIFICATION Spec
CONSTANTS
    RingSlots = 3
    U64Max = 8
    EventId = {e1, e2, e3, e4}
    NoEvent = NoEvent
SYMMETRY Symmetry
INVARIANTS
    SeqsConsecutive
    CountersAgree
    ClaimIsTailOrStale
PROPERTIES
    AckRemovesClaimedEvent
    FifoSpec
