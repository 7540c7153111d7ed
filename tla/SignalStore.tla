---------------------------- MODULE SignalStore ----------------------------
(***************************************************************************)
(* The two tables of the han database that the nightly batch and the       *)
(* signal consumer share: StrategySignalDaily (the number of buy signals   *)
(* of a strategy on a date: the gate's input) and StrategyTradeLog (the    *)
(* events, one row per event and source).                                  *)
(*                                                                         *)
(* An event is a buy or a sale of a stock by a strategy on a date; reason, *)
(* weight and return are functions of the event (daily_batch.sh:25-26      *)
(* measured that signals do not change between runs).                      *)
(***************************************************************************)
EXTENDS DensityGate, Sequences, FiniteSetsExt

CONSTANTS Stocks,          \* in the order the candle tables are loaded
          Strategies,      \* in the order the script runs them
          GateStrategies,  \* OverlayConfig.Strategies
          LastDay,         \* the days are 1 .. LastDay, all of them traded
          Events,          \* what bars, virtual ones included, may give
          Confirmed        \* the events the final bars give

StockSet    == {Stocks[i] : i \in DOMAIN Stocks}
StrategySet == {Strategies[i] : i \in DOMAIN Strategies}
Days        == 1 .. LastDay
Sources     == {"LIVE", "EOD", "HIST"}

\* The script runs two strategies.
ASSUME StoreAssumption ==
    /\ Stocks \in Seq(StockSet)
    /\ Strategies \in Seq(StrategySet) /\ Len(Strategies) = 2 /\ Strategies[1] # Strategies[2]
    /\ LastDay \in Nat \ {0}
    /\ GateStrategies \subseteq StrategySet
    /\ Events \subseteq [strategy : StrategySet, kind : {"BUY", "SELL"},
                         stock : StockSet, date : Days]
    /\ Confirmed \subseteq Events

VARIABLES day,    \* the wall-clock date
          daily,  \* StrategySignalDaily: <<strategy, date>> -> signal_count
          log     \* StrategyTradeLog: [event, source] -> as_of_date

Row(e, source) == [event |-> e, source |-> source]

MergeLatest(rows, asOf) ==
    [r \in DOMAIN log \union rows |-> IF r \in rows THEN asOf ELSE log[r]]

\* The MERGE of StrategyTradeLog: a new row keeps its first date, an old one
\* the earlier of the two.
Merge(rows, asOf) ==
    [r \in DOMAIN log \union rows |->
        IF r \notin DOMAIN log THEN asOf
        ELSE IF r \in rows /\ asOf < log[r] THEN asOf
        ELSE log[r]]

\* FetchSignalDailyCounts: the counts of the gate's strategies by date; their sum is the number
\* of signals, as in DensityGate.
SignalsOn(d) == UNION {{r} \X (1 .. daily[r]) : r \in {q \in DOMAIN daily : q[1] \in GateStrategies /\ q[2] = d}}

History ==
    [d \in {r[2] : r \in {q \in DOMAIN daily : q[1] \in GateStrategies}} |-> Cardinality(SignalsOn(d))]

StoreTypeOK ==
    /\ day \in Days
    /\ DOMAIN daily \subseteq StrategySet \X Days
    /\ \A r \in DOMAIN daily : daily[r] \in Nat
    /\ DOMAIN log \subseteq [event : Events, source : Sources]
    /\ \A r \in DOMAIN log : log[r] \in Days
=============================================================================
