CONSTANTS
    Workers = {w1, w2}
    MaxVersion = 2
    SleepTicks = 1
    LimitTicks = 4
    Cleared = Cleared
SPECIFICATION FairSpec
INVARIANTS
    StalenessBounded
    LateResultIsDropped
PROPERTIES
  ChangeTakesEffect
