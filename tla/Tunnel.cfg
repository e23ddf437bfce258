CONSTANTS
    Streams = {1}
    RequestChunks = 2
    ResponseChunks = 1
    MaxPings = 1
    MaxStreams = 1
    InputCapacity = 1
    DownCapacity = 1
    UpCapacity = 1
SPECIFICATION FairSpec
CHECK_DEADLOCK FALSE
INVARIANTS
    SlotIsHeld
PROPERTIES
    ImplementsExchange
    AbandonedWorkStops
    AnswerReachesCaller
