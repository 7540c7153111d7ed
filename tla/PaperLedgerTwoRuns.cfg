\* Two stocks competing for one slot, two overlapping runs, today's date only.
CONSTANTS
    NumStocks = 2
    LastDay = 3
    MaxPositions = 1
    DefaultHolding = 1
    MaxHolding = 2
    DefBoxTimeout = 1
    Procs <- TwoProcs
    Backdate = FALSE
    BarHistories <- ShortBars
    SignalHistories <- ShortSignals
SPECIFICATION Spec
INVARIANTS LedgerSound SlotLimit
