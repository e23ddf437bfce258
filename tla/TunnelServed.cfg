CONSTANTS
    Streams = {1, 2}
    RequestChunks = 1
    ResponseChunks = 1
    MaxPings = 0
    MaxStreams = 1
    InputCapacity = 1
    DownCapacity = 2
    UpCapacity = 1
SPECIFICATION Spec
CHECK_DEADLOCK FALSE
INVARIANTS
    AdmittedIsServed
