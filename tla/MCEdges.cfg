CONSTANTS
    Order <- MCOrder
    Signals = {15}
    Codes <- MCCodes
    Stubborn = {"engine"}
    Grace = 3
    ReapWait = 1
    MaxSignals = 2
    PlainFields = {"x-trace"}
    Statuses = {200, 404, 500}
    Upstreams <- MCUpstreams
    MaxPayload = 2
    MaxLease = 45
    Payloads <- MCPayloads
    Streams = {1, 256, 65535}
    Leases = {0, 7, 10, 45}
    Edited = {0, 1, 2, 3, 4, 5, 6, 7, 8, 9, 10, 11, 127}
    ChunkData <- MCChunkData
    SizeForms = {"plain", "padded", "extended"}
    Spoilt = {"no", "size", "huge", "crlf"}
    MaxSize = 11
    MaxChunks = 2
    MaxPiece = 20
SPECIFICATION EdgesSpec
CHECK_DEADLOCK FALSE
INVARIANTS
    NoChildLeft
    OnlyEndToEndCrosses
    AnswerIsTheEngines
    EngineIsGuarded
    ReadAsWritten
    DecodesExactly
PROPERTIES
    ContainerEnds
