\* Two vrefbuffers, an sbuffer, a zbuffer, two zones, or a variable.
SPECIFICATION MCSpec
CONSTANTS
    k1 = k1
    k2 = k2
    k3 = k3
    y1 = y1
    y2 = y2
    y3 = y3
    s1 = s1
    s2 = s2
    Null = Null
    Vbufs = {1, 2}
    Writes <- MCWrites
    RefSize = 3
    ChunkSize <- MCChunkSize
    Capacities = {1, 2}
    Chunks = {k1, k2, k3}
    SimpleWrites <- MCSimpleWrites
    SimpleInit = 1
    SimpleMax = 4
    Addresses = {s1, s2}
    CompressedWrites <- MCCompressedWrites
    CompressedInit = 1
    ReserveSize = 2
    CompressedMax = 4
    MaxWritten = 4
    Zones = {1, 2}
    Sizes = {1, 2}
    Align = 2
    FirstSize <- MCFirstSize
    FirstFins = 1
    MaxFins = 2
    Places = {y1, y2, y3}
SYMMETRY Symmetry
INVARIANTS
    TypeOK
    ChunksOwnedOnce
    RoomIsThere
    SBufferReleasedIntact
    ZBufferFlushedIsWritten
    ZonePiecesApart
    ZoneFinalizersMatch
    VariableReceived
    VariablePacksAsObject
PROPERTIES
    HoldsWhatWasWritten
    SBufferAppends
\* A buffer that was overrun does nothing more, nor does a zone after a fault.
CHECK_DEADLOCK FALSE
