\* One stock, every candle history: the replay against history.
CONSTANTS
    NumStocks = 1
    LastDay = 5
    MaxPositions = 1
    DefaultHolding = 2
    MaxHolding = 3
    DefBoxTimeout = 2
    Procs <- OneProc
    Backdate = TRUE
    BarHistories <- AllBars
    SignalHistories <- OneStockSignals
SPECIFICATION Spec
INVARIANTS FaithfulReplay
PROPERTIES ImplementsBook
