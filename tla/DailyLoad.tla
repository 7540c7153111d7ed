----------------------------- MODULE DailyLoad -----------------------------
(***************************************************************************)
(* The nightly batch (daily_batch.sh): the two batch analyses of all       *)
(* stocks (handleBatch, one after the other, each reading the candle table *)
(* while it may still be loading), the SQL made from both results, its     *)
(* statements one at a time, and the decision of the density gate.         *)
(*                                                                         *)
(* bars[s] is the last date the candle table holds of stock s; a run reads *)
(* it stock by stock, in any order (a pool of 20 goroutines).              *)
(***************************************************************************)
EXTENDS SignalStore

CONSTANTS CovNum, CovDen,  \* RESTGO_DATA_DATE_COVERAGE = CovNum / CovDen
          MaxRuns,         \* bound: runs of the script
          MaxFaults        \* bound: failures and kills

ASSUME LoadAssumption ==
    /\ CovNum \in Nat \ {0} /\ CovDen \in Nat \ {0} /\ CovNum <= CovDen
    /\ MaxRuns \in Nat /\ MaxFaults \in Nat

VARIABLES bars,      \* the candle table
          step,      \* where the script is
          batch,     \* the strategy whose batch is running, by its number
          dataDate,  \* DATA_DATE of the run
          seen,      \* the two JSON files: the last date read of each stock
          sql,       \* the statements still to be sent
          failures,  \* did a statement fail (LOAD_FAIL > 0)
          runs, faults,
          partial,   \* has any run missed a stock (for the properties)
          decided    \* the decisions printed after loads without failures

loadVars == <<bars, step, batch, seen, dataDate, sql, failures, runs, faults, partial, decided>>

Unread == -1
NoBars == 0       \* no candles, fewer than six, or the query failed

Analysed(st) == {s \in StockSet : seen[st][s] > NoBars}

\* resolveDataDate: the latest last date that at least the coverage share of
\* the analysed stocks has reached, else the oldest one.
Covered(st, d) == Cardinality({s \in Analysed(st) : seen[st][s] >= d})

ResolveDataDate(st) ==
    LET lasts == {seen[st][s] : s \in Analysed(st)}
        full  == {d \in lasts : Covered(st, d) * CovDen >= Cardinality(Analysed(st)) * CovNum}
    IN  IF lasts = {} THEN 0 ELSE IF full = {} THEN Min(lasts) ELSE Max(full)

\* The script's data date: the later of the two files'.
LaterDataDate == Max({ResolveDataDate(st) : st \in StrategySet})

\* trading_dates of both files: up to the data date of each.
Calendar == {d \in Days : \E st \in StrategySet : /\ d <= ResolveDataDate(st)
                                                  /\ \E s \in StockSet : d <= seen[st][s]}

FoundUndropped == {e \in Confirmed : e.date <= seen[e.strategy][e.stock]}

\* The events of the files; those after the data date are dropped.
Found == {e \in Confirmed : e.date <= seen[e.strategy][e.stock] /\ e.date <= dataDate}

Count(st, d) == Cardinality({e \in Found : e.strategy = st /\ e.kind = "BUY" /\ e.date = d})

SourceOf(e) == IF e.date = dataDate THEN "EOD" ELSE "HIST"

Statements ==
    LET replace(st) == <<[op |-> "delete", strategy |-> st], [op |-> "insert", strategy |-> st]>>
    IN  replace(Strategies[1]) \o replace(Strategies[2])
          \o <<[op |-> "fill", strategy |-> "all"], [op |-> "log", strategy |-> "all"]>>

LoadInit ==
    /\ bars = [s \in StockSet |-> 1]
    /\ step = "idle" /\ batch = 1
    /\ seen = [st \in StrategySet |-> [s \in StockSet |-> Unread]]
    /\ dataDate = 0 /\ sql = <<>> /\ failures = FALSE
    /\ runs = 0 /\ faults = 0 /\ partial = FALSE
    /\ decided = <<>>

----------------------------------------------------------------------------
\* The candle table is loaded in the order of the stock codes.
LoadBars ==
    \E i \in DOMAIN Stocks :
        /\ bars[Stocks[i]] < day
        /\ \A j \in 1 .. i - 1 : bars[Stocks[j]] = day
        /\ bars' = [bars EXCEPT ![Stocks[i]] = day]
        /\ UNCHANGED <<day, daily, log, step, batch, seen, dataDate, sql, failures, runs, faults,
                       partial, decided>>

\* A run of a past date ends before the next one (runs are minutes long).
NextDay ==
    /\ step = "idle" /\ day < LastDay
    /\ day' = day + 1
    /\ UNCHANGED <<daily, log>> /\ UNCHANGED loadVars

StartRun ==
    /\ step = "idle" /\ runs < MaxRuns
    /\ step' = "batch" /\ batch' = 1 /\ runs' = runs + 1
    /\ seen' = [seen EXCEPT ![Strategies[1]] = [s \in StockSet |-> Unread]]
    /\ UNCHANGED <<day, daily, log, bars, dataDate, sql, failures, faults, partial, decided>>

Current == Strategies[batch]

\* fetchCandles of one stock; a failed query skips the stock without a word.
Fetch(s) ==
    /\ step = "batch" /\ seen[Current][s] = Unread
    /\ \/ /\ seen' = [seen EXCEPT ![Current][s] = bars[s]]
          /\ UNCHANGED <<faults, partial>>
       \/ /\ faults < MaxFaults /\ faults' = faults + 1
          /\ seen' = [seen EXCEPT ![Current][s] = NoBars]
          /\ partial' = TRUE
    /\ UNCHANGED <<day, daily, log, bars, step, batch, dataDate, sql, failures, runs, decided>>

\* The pool is empty: the file is written and the next batch starts, or the
\* statements are made of both files.
EndBatch ==
    /\ step = "batch"
    /\ \A s \in StockSet : seen[Current][s] # Unread
    /\ IF batch < Len(Strategies)
       THEN /\ batch' = batch + 1
            /\ seen' = [seen EXCEPT ![Strategies[batch + 1]] = [s \in StockSet |-> Unread]]
            /\ UNCHANGED <<step, dataDate, sql, failures>>
       ELSE IF LaterDataDate = 0
       THEN /\ step' = "idle"
            /\ UNCHANGED <<batch, seen, dataDate, sql, failures>>
       ELSE /\ step' = "load" /\ dataDate' = LaterDataDate
            /\ sql' = Statements /\ failures' = FALSE
            /\ UNCHANGED <<batch, seen>>
    /\ UNCHANGED <<day, daily, log, bars, runs, faults, partial, decided>>

\* ./RESTGo sqlquery, once a statement.
Replaced(st) == <<st, dataDate>>

Delete(st) == daily' = [r \in DOMAIN daily \ {Replaced(st)} |-> daily[r]]

Insert(st) ==
    daily' = [r \in DOMAIN daily \union {Replaced(st)} |->
                IF r = Replaced(st) THEN Count(st, dataDate) ELSE daily[r]]

FillHistoryOver ==
    daily' = LET past == StrategySet \X {d \in Calendar : d < dataDate}
             IN  [r \in DOMAIN daily \union past |->
                    IF r \in past THEN Count(r[1], r[2]) ELSE daily[r]]

FillHistoryOfSignals ==
    daily' = LET missing == {r \in (StrategySet \X {d \in Calendar : d < dataDate}) \ DOMAIN daily :
                                Count(r[1], r[2]) > 0}
             IN  [r \in DOMAIN daily \union missing |->
                    IF r \in missing THEN Count(r[1], r[2]) ELSE daily[r]]

FillHistory ==
    daily' = LET missing == (StrategySet \X {d \in Calendar : d < dataDate}) \ DOMAIN daily
             IN  [r \in DOMAIN daily \union missing |->
                    IF r \in missing THEN Count(r[1], r[2]) ELSE daily[r]]

\* The primary key (strategy, trade_date) refuses a second row.
InsertRefused(q) == q.op = "insert" /\ Replaced(q.strategy) \in DOMAIN daily

Execute ==
    /\ step = "load" /\ sql # <<>>
    /\ LET q == Head(sql) IN
       /\ ~InsertRefused(q)
       /\ \/ q.op = "delete" /\ Delete(q.strategy) /\ UNCHANGED log
          \/ q.op = "insert" /\ Insert(q.strategy) /\ UNCHANGED log
          \/ q.op = "fill" /\ FillHistory /\ UNCHANGED log
          \/ q.op = "log" /\ log' = Merge({Row(e, SourceOf(e)) : e \in Found}, day)
                          /\ UNCHANGED daily
    /\ sql' = Tail(sql)
    /\ UNCHANGED <<day, bars, step, batch, seen, dataDate, failures, runs, faults, partial, decided>>

ExecuteFailsUncounted ==
    /\ step = "load" /\ sql # <<>>
    /\ \/ InsertRefused(Head(sql)) /\ UNCHANGED faults
       \/ faults < MaxFaults /\ faults' = faults + 1
    /\ failures' = failures /\ sql' = Tail(sql)
    /\ UNCHANGED <<day, daily, log, bars, step, batch, seen, dataDate, runs, partial, decided>>

\* A statement fails: it is counted and the script goes on to the next.
ExecuteFails ==
    /\ step = "load" /\ sql # <<>>
    /\ \/ InsertRefused(Head(sql)) /\ UNCHANGED faults
       \/ faults < MaxFaults /\ faults' = faults + 1
    /\ failures' = TRUE /\ sql' = Tail(sql)
    /\ UNCHANGED <<day, daily, log, bars, step, batch, seen, dataDate, runs, partial, decided>>

\* densitygate DATA_DATE, the summary, and the end of the script.
Gate ==
    /\ step = "load" /\ sql = <<>>
    /\ step' = "idle"
    /\ decided' = IF failures THEN decided
                  ELSE [d \in DOMAIN decided \union {dataDate} |->
                          IF d = dataDate THEN Evaluate(History, dataDate) ELSE decided[d]]
    /\ UNCHANGED <<day, daily, log, bars, batch, seen, dataDate, sql, failures, runs, faults, partial>>

\* The script is killed, or a batch exits with 1 (database, JSON file).
Kill ==
    /\ step # "idle" /\ faults < MaxFaults
    /\ step' = "idle" /\ sql' = <<>> /\ faults' = faults + 1
    /\ failures' = TRUE
    /\ UNCHANGED <<day, daily, log, bars, batch, seen, dataDate, runs, partial, decided>>

Script == StartRun \/ (\E s \in StockSet : Fetch(s)) \/ EndBatch \/ Execute \/ ExecuteFails \/ Gate

----------------------------------------------------------------------------
(* The batch on its own. *)

batchVars == <<day, daily, log, loadVars>>

BatchInit == day = 1 /\ daily = <<>> /\ log = <<>> /\ LoadInit

BatchNext == LoadBars \/ NextDay \/ Script \/ Kill

\* cron starts the script every weekday, its steps follow each other, the
\* candle table is loaded and the days go by: none of them waits for ever.
BatchSpec == BatchInit /\ [][BatchNext]_batchVars /\ WF_batchVars(BatchNext)

LoadTypeOK ==
    /\ StoreTypeOK
    /\ bars \in [StockSet -> Days]
    /\ step \in {"idle", "batch", "load"}
    /\ batch \in DOMAIN Strategies
    /\ seen \in [StrategySet -> [StockSet -> Unread .. LastDay]]
    /\ dataDate \in 0 .. LastDay
    /\ failures \in BOOLEAN /\ partial \in BOOLEAN
    /\ faults \in 0 .. MaxFaults /\ runs \in 0 .. MaxRuns
    /\ DOMAIN decided \subseteq Days

\* A load that reports no failure has left nothing out (daily_batch.sh:27-33):
\* every trading day up to the data date has a row of each strategy,
\* those without signals too, and every event of an analysed stock is in the
\* log, whatever earlier runs that failed or were killed left behind.
CleanLoadIsComplete ==
    step = "load" /\ sql = <<>> /\ ~failures =>
        /\ StrategySet \X (1 .. dataDate) \subseteq DOMAIN daily
        /\ \A e \in Confirmed :
              e.date <= dataDate /\ e.date <= seen[e.strategy][e.stock] =>
                  \E source \in {"EOD", "HIST"} : Row(e, source) \in DOMAIN log

\* Decisions of the past stand (daily_batch.sh:27-30): what the gate decided
\* for a data date after a load without failures, it would decide again at any
\* later time, whatever has been loaded since, as long as no query for a
\* stock's candles has failed (such a stock is not counted at all).
PastDecisionsStand ==
    ~partial => \A d \in DOMAIN decided : decided[d] = Evaluate(History, d)

\* An event that the batch has recorded as a past one is never recorded as one
\* of the data date afterwards (daily_batch.sh:99-102: it would be there
\* twice): the data date of a run is never before that of an earlier run,
\* unless stocks were left out.
NoLateEod ==
    [][\A e \in Confirmed :
          /\ ~partial /\ step = "load"
          /\ Row(e, "HIST") \in DOMAIN log
          /\ Row(e, "EOD") \notin DOMAIN log
          => Row(e, "EOD") \notin DOMAIN log']_batchVars

\* Whatever earlier runs have left out, the first run that nothing disturbs
\* fills in: every date then has its row of every strategy
\* (daily_batch.sh:27-33).
NextRunFillsIn ==
    /\ day = LastDay /\ \A s \in StockSet : bars[s] = LastDay
    /\ step = "idle" /\ faults = MaxFaults /\ runs < MaxRuns
    ~> StrategySet \X Days \subseteq DOMAIN daily

=============================================================================
