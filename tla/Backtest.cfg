\* Every position, condition and candle order within four bars.
CONSTANTS
    LastBar = 4
    SellRows <- Strategy
    Weights <- WeightsInQuarters
    Full = 4
    Share <- Quarter
    Whole = 64
    Dust = 0
    SmallRemaining = 16
    MinimumExecution = 4
    MaxHolding = 2
    MinHolding = 2
    AutoLiquidate = TRUE
    DefaultCount = 3
    DefaultRatio = 5
    Threshold <- Thresholds
    StrongAt = 10
    MediumAt = 6
    StrongWeight = 4
    MediumWeight = 2
    WeakWeight = 1
    TargetWeight = 2
    TimeExitBars = 2
    PerCandleRules = {"T01"}
    Cooldown = 1
    MaxDaily = 1
    MaxPerCandle = 2
SPECIFICATION Spec
INVARIANTS BooksSound ExitsInOrder ExpirySettled HoldingsTracked
\* The candles run out.
CHECK_DEADLOCK FALSE
