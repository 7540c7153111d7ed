\* One run at a time under fairness: matured positions give their slot back.
CONSTANTS
    NumStocks = 1
    LastDay = 5
    MaxPositions = 1
    DefaultHolding = 2
    MaxHolding = 3
    DefBoxTimeout = 2
    Procs <- OneProc
    Backdate = FALSE
    BarHistories <- TradingBars
    SignalHistories <- FirstDaySignals
SPECIFICATION FairSpec
PROPERTIES MaturedCloses
