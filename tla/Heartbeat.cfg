CONSTANTS
    PingInterval = 2
    PingTimeout = 4
    RefreshFloor = 1
    ConnectTimeout = 2
    BackoffMin = 1
    BackoffMax = 2
    TetherTick = 1
    TetherPingInterval = 1
    TetherSilence = 4
    Lease = 21
    ShortLease = 1
    Delay = 1
    MaxFaults = 2
SPECIFICATION Spec
INVARIANTS
    HealthySessionRefreshes
    HalfOpenSessionEnds
    RoutedLoopAnswers
    OutageBounded
