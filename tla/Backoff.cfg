CONSTANTS
    PingInterval = 2
    PingTimeout = 5
    RefreshFloor = 1
    ConnectTimeout = 2
    BackoffMin = 1
    BackoffMax = 3
    TetherTick = 1
    TetherPingInterval = 2
    TetherSilence = 6
    Lease = 10
    ShortLease = 1
    Delay = 1
    MaxFaults = 0
SPECIFICATION Spec
PROPERTIES
    BackoffResets
