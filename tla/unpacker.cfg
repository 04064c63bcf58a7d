SPECIFICATION FairSpec
CONSTANTS
    Cells <- ThreeMessages
    CounterSize = 1
    InitialSize = 2
    Sizes = {1, 2}
    Failing = {"malloc", "realloc", "finalizer", "zone"}
    Buffers = {1, 2, 3, 4}
    Zones = {1, 2, 3, 4}
    NoZone = NoZone
INVARIANTS
    TypeOK
    RawsIntact
    CountsExact
    WindowExact
PROPERTIES
    MessagesDelivered
CHECK_DEADLOCK FALSE
