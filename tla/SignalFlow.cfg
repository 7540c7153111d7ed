SPECIFICATION Spec
CONSTANTS
    Window = 1
    Lookback = 2
    QNum = 3
    QDen = 5
    Stocks <- OneStock
    Strategies <- TwoStrategies
    GateStrategies <- GateOfW
    LastDay = 2
    Events <- LiveEvents
    Confirmed <- LiveConfirmed
    CovNum = 1
    CovDen = 1
    MaxRuns = 2
    MaxFaults = 0
    BufferCap = 1
    MaxSent = 1
    MaxBreaks = 2
INVARIANTS LogTrue
PROPERTIES FirstSeenKept QueueDrains
CHECK_DEADLOCK FALSE
