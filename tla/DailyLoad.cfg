SPECIFICATION BatchSpec
CONSTANTS
    Window = 1
    Lookback = 2
    QNum = 3
    QDen = 5
    Stocks <- ThreeStocks
    Strategies <- TwoStrategies
    GateStrategies <- GateOfW
    LastDay = 3
    Events <- SomeEvents
    Confirmed <- SomeEvents
    CovNum = 2
    CovDen = 3
    MaxRuns = 3
    MaxFaults = 1
INVARIANTS CleanLoadIsComplete PastDecisionsStand
PROPERTIES NextRunFillsIn NoLateEod
CHECK_DEADLOCK FALSE
