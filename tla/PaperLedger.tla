----------------------------- MODULE PaperLedger -----------------------------
(***************************************************************************)
(* The paper-trading ledger of the W-bottom + DefBox sleeve                *)
(* (stock/paper_wd.go).  A run of `stock paper_wd --date D` loads the      *)
(* ledger file, replays the candles of every open position up to D, opens  *)
(* positions for the signals dated D while a slot is free, replaces the    *)
(* file atomically and only then sends the trade alerts.  Runs are missed, *)
(* repeated, given an older date, die at any point, or overlap.            *)
(*                                                                         *)
(* Days are the market's trading days 1..LastDay; a stock may have no      *)
(* candle on some of them (suspended, delisted, not loaded).  Prices are   *)
(* abstracted to what the code distinguishes:                              *)
(*   "none"  no candle                                                     *)
(*   "low"   a usable close, not above the position's DefBox price         *)
(*   "break" a usable close above the DefBox price                         *)
(*   "dear"  above the DefBox price, and the allotment buys no share       *)
(*   "bad"   a close that is zero or not a number                          *)
(***************************************************************************)
EXTENDS Integers, FiniteSets

CONSTANTS
    NumStocks,        \* stocks, numbered in market|code order
    LastDay,          \* bound: trading days 1..LastDay
    MaxPositions,     \* paperWDMaxPositions (8)
    DefaultHolding,   \* paperWDDefaultHolding (20 bars)
    MaxHolding,       \* paperWDMaxHolding (30 bars)
    DefBoxTimeout,    \* paperWDDefBoxTimeout (20 bars)
    Procs,            \* processes that may run the command
    Backdate,         \* whether --date may name a day before today
    BarHistories,     \* bound: the candle histories a stock may have
    SignalHistories   \* bound: the W signals a stock may show

Stocks == 1..NumStocks
Days == 1..LastDay
BarKind == {"none", "low", "break", "dear", "bad"}
\* "plain": no DefBox before the first bottom; "badbox": a DefBox whose raw
\* price is not positive.
SignalKind == {"none", "plain", "box", "badbox"}

\* The relations among the code's constants that the replay relies on
\* (20 <= 20 <= 30), and the shape of the data.
ASSUME LedgerAssumption ==
    /\ NumStocks \in Nat \ {0} /\ LastDay \in Nat \ {0}
    /\ MaxPositions \in Nat
    /\ DefaultHolding \in Nat \ {0} /\ MaxHolding \in Nat /\ DefBoxTimeout \in Nat
    /\ DefBoxTimeout <= DefaultHolding /\ DefaultHolding <= MaxHolding
    /\ Backdate \in BOOLEAN
    /\ BarHistories \subseteq [Days -> BarKind]
    /\ SignalHistories \subseteq [Days -> SignalKind]

VARIABLES
    today,    \* the current trading day
    bar,      \* bar[s][d]: the daily candles (the price database)
    signal,   \* signal[s][d]: the W signal WDefBoxAnalyze finds at day d
    ledger,   \* ledger.json
    pc,       \* pc[p]: where process p is in HandlePaperWD
    work,     \* work[p]: the ledger in p's memory and its pending alerts
    alerted   \* the trade alerts handed to Telegram

vars == <<today, bar, signal, ledger, pc, work, alerted>>

\* A position is identified by stock and signal date (paperWDPositionID).
Ids == Stocks \X Days
Open == {"stage1", "stage2"}

Position == [status: {"none", "stage1", "stage2", "closed"}, box: SignalKind,
             s2: 0..LastDay, exit: 0..LastDay]
NoPosition == [status |-> "none", box |-> "none", s2 |-> 0, exit |-> 0]

Ledger == [pos: [Ids -> Position], trades: Nat,
           start: 0..LastDay, updated: 0..LastDay]
\* What loadPaperWDLedger returns when there is no file.
FreshLedger == [pos |-> [i \in Ids |-> NoPosition], trades |-> 0,
                start |-> 0, updated |-> 0]

AlertKind == {"stage2", "exit", "stage1"}
Alerts == Ids \X AlertKind
Idle == [ledger |-> FreshLedger, events |-> {}]

OpenIds(pos) == {i \in Ids : pos[i].status \in Open}

-----------------------------------------------------------------------------
\* Candle indexing.

HasBar(s, d) == bar[s][d] # "none"

\* candleIndexByDate(d) - candleIndexByDate(g): the stock's candles in (g, d].
BarsAfter(s, g, d) == Cardinality({x \in (g + 1)..d : HasBar(s, x)})

\* Day e holds the n-th candle after the signal.
IsNthBar(i, e, n) == /\ e \in Days /\ e > i[2] /\ HasBar(i[1], e)
                     /\ BarsAfter(i[1], i[2], e) = n

BreaksDefBox(s, d) == bar[s][d] \in {"break", "dear"}

\* Day e is the first close above the DefBox price, within the timeout.
IsFirstBreak(i, e) ==
    /\ e \in Days /\ e > i[2]
    /\ BreaksDefBox(i[1], e)
    /\ BarsAfter(i[1], i[2], e) <= DefBoxTimeout
    /\ \A x \in Days : i[2] < x /\ x < e => ~BreaksDefBox(i[1], x)

\* Both the signal day and the as-of day are trading days of the stock.
Dated(i, d) == /\ i[2] <= d /\ HasBar(i[1], i[2]) /\ HasBar(i[1], d)

\* The only element of a set of days.
TheDay(S) == CHOOSE e \in S : TRUE

HoldBars(r) == IF r.status = "stage2" THEN MaxHolding ELSE DefaultHolding

\* enterStage2 on the first break up to day d; an order that buys no share
\* leaves the position as it is.
EnterStage2(i, r, d) ==
    IF /\ r.status = "stage1" /\ r.box = "box"
       /\ \E e \in Days : e <= d /\ IsFirstBreak(i, e) /\ bar[i[1]][e] = "break"
    THEN [r EXCEPT !.status = "stage2",
                   !.s2 = TheDay({e \in Days : IsFirstBreak(i, e)})]
    ELSE r

\* Mutant: closes only when the run's day is the expiry candle itself.
CloseExpiredOnTheDay(i, r, d) ==
    IF IsNthBar(i, d, HoldBars(r)) /\ bar[i[1]][d] # "bad"
    THEN [r EXCEPT !.status = "closed", !.exit = d]
    ELSE r

\* closePaperPosition at the close of the expiry candle, once it is reached.
CloseExpired(i, r, d) ==
    IF \E e \in Days : e <= d /\ IsNthBar(i, e, HoldBars(r)) /\ bar[i[1]][e] # "bad"
    THEN [r EXCEPT !.status = "closed",
                   !.exit = TheDay({e \in Days : IsNthBar(i, e, HoldBars(r))})]
    ELSE r

\* Mutant: the expiry is examined before the DefBox break.
AdvanceExpiryFirst(i, r, snaps, d) ==
    IF r.status \in Open /\ i[1] \in snaps /\ Dated(i, d)
    THEN EnterStage2(i, CloseExpired(i, r, d), d)
    ELSE r

\* One open position in processOpenPaperWDPositions; snaps are the stocks whose
\* candles were fetched.
Advance(i, r, snaps, d) ==
    IF /\ r.status \in Open
       /\ i[1] \in snaps
       /\ Dated(i, d)
       /\ ~(r.status = "stage1" /\ r.box = "badbox")
    THEN CloseExpired(i, EnterStage2(i, r, d), d)
    ELSE r

Replayed(pos, snaps, d) == [i \in Ids |-> Advance(i, pos[i], snaps, d)]

-----------------------------------------------------------------------------
\* New entries.

\* DefBox signals first, then market|code.
Before(s, t, d) ==
    LET boxed(x) == signal[x][d] # "plain"
    IN  IF boxed(s) = boxed(t) THEN s < t ELSE boxed(s)

\* Mutant: the position ID is not looked up.
CandidatesNoIdCheck(pos, seen, d) ==
    {s \in seen : signal[s][d] # "none" /\ bar[s][d] \in {"low", "break"}}

\* The scanned stocks with a signal dated d that is not in the ledger yet and
\* that createPaperPosition accepts at the signal candle's close.
Candidates(pos, seen, d) ==
    {s \in seen : /\ signal[s][d] # "none"
                  /\ pos[<<s, d>>].status = "none"
                  /\ bar[s][d] \in {"low", "break"}}

\* Mutant: the slots already taken are not subtracted.
CanOpenIgnoringHeld(pos) == MaxPositions

CanOpen(pos) == MaxPositions - Cardinality(OpenIds(pos))

\* The loop over todaySignals: each entry takes a slot while one is left.
Entered(pos, seen, d) ==
    LET c == Candidates(pos, seen, d)
    IN  {s \in c : Cardinality({t \in c : Before(t, s, d)}) < CanOpen(pos)}

NewPosition(s, d) == [status |-> "stage1", box |-> signal[s][d], s2 |-> 0, exit |-> 0]

WithEntries(pos, seen, d) ==
    [i \in Ids |-> IF i[2] = d /\ i[1] \in Entered(pos, seen, d)
                   THEN NewPosition(i[1], d) ELSE pos[i]]

-----------------------------------------------------------------------------
\* The command.

Init ==
    /\ today = 1
    /\ bar \in [Stocks -> BarHistories]
    /\ signal \in {f \in [Stocks -> SignalHistories] :
                     \A s \in Stocks, d \in Days : f[s][d] # "none" => HasBar(s, d)}
    /\ ledger = FreshLedger
    /\ pc = [p \in Procs |-> "idle"]
    /\ work = [p \in Procs |-> Idle]
    /\ alerted = {}

NextDay ==
    /\ today < LastDay
    /\ today' = today + 1
    /\ UNCHANGED <<bar, signal, ledger, pc, work, alerted>>

ScanDates == IF Backdate THEN 1..today ELSE {today}

\* Mutants: every closed position counted again by each run; counted down.
TradesAfterRecount(l, pos) == l.trades + Cardinality({i \in Ids : pos[i].status = "closed"})
TradesAfterUncount(l, pos) == l.trades - Cardinality({i \in Ids : pos[i].status = "closed"})

TradesAfter(l, pos) ==
    l.trades + Cardinality({i \in Ids : l.pos[i].status \in Open /\ pos[i].status = "closed"})

Stage2Entered(old, new) ==
    {i \in Ids : old[i].status = "stage1" /\ new[i].s2 # 0}
ClosedToday(old, new) ==
    {i \in Ids : old[i].status \in Open /\ new[i].status = "closed"}
NewlyEntered(old, new) ==
    {i \in Ids : old[i].status = "none" /\ new[i].status # "none"}

EventsOf(old, new) ==
    (Stage2Entered(old, new) \X {"stage2"}) \cup (ClosedToday(old, new) \X {"exit"})
        \cup (NewlyEntered(old, new) \X {"stage1"})

\* Mutant: the start date follows every run.
StartAfterEveryRun(l, d) == d
StartAfter(l, d) == IF l.start = 0 THEN d ELSE l.start

\* HandlePaperWD up to the save, for date d.  `seen` are the stocks whose scan
\* got candles (a market whose database is down, a failed fetch and a short
\* history leave theirs out); `direct` those fillMissingOpenSnapshots fetched.
Scan(p, d, seen, direct) ==
    /\ pc[p] = "idle"
    /\ LET replayed == Replayed(ledger.pos, seen \cup direct, d)
           entered  == WithEntries(replayed, seen, d)
       IN  work' = [work EXCEPT ![p] =
                [ledger |-> [pos     |-> entered,
                             trades  |-> TradesAfter(ledger, replayed),
                             start   |-> StartAfter(ledger, d),
                             updated |-> d],
                 events |-> EventsOf(ledger.pos, entered)]]
    /\ pc' = [pc EXCEPT ![p] = "computed"]
    /\ UNCHANGED <<today, bar, signal, ledger, alerted>>

\* Back to idle, whatever was in memory gone.
Quit(p) == /\ pc' = [pc EXCEPT ![p] = "idle"]
           /\ work' = [work EXCEPT ![p] = Idle]

\* savePaperWDLedger: the rename is atomic, the alerts follow it.
Save(p) ==
    /\ pc[p] = "computed"
    /\ ledger' = work[p].ledger
    /\ IF work[p].events = {} THEN Quit(p)
       ELSE /\ pc' = [pc EXCEPT ![p] = "alerting"]
            /\ work' = [work EXCEPT ![p].ledger = FreshLedger]
    /\ UNCHANGED <<today, bar, signal, alerted>>

\* Mutant: the error of the write is ignored and the alerts go out.
SaveFailsAlertsAnyway(p) ==
    /\ pc[p] = "computed"
    /\ work[p].events # {}
    /\ pc' = [pc EXCEPT ![p] = "alerting"]
    /\ UNCHANGED <<today, bar, signal, ledger, work, alerted>>

\* The write fails: the run ends, no alert is sent.
SaveFails(p) ==
    /\ pc[p] = "computed"
    /\ Quit(p)
    /\ UNCHANGED <<today, bar, signal, ledger, alerted>>

\* Alerts go out in the order stage2, exit, entry.
AlertRank(a) == CASE a[2] = "stage2" -> 1 [] a[2] = "exit" -> 2 [] OTHER -> 3

SendAlert(p, a) ==
    /\ pc[p] = "alerting"
    /\ a \in work[p].events
    /\ \A b \in work[p].events : AlertRank(a) <= AlertRank(b)
    /\ alerted' = alerted \cup {a}
    /\ IF work[p].events = {a} THEN Quit(p)
       ELSE /\ work' = [work EXCEPT ![p].events = @ \ {a}]
            /\ UNCHANGED pc
    /\ UNCHANGED <<today, bar, signal, ledger>>

\* The process dies before the save or among the alerts.
Crash(p) ==
    /\ pc[p] # "idle"
    /\ Quit(p)
    /\ UNCHANGED <<today, bar, signal, ledger, alerted>>

\* fillMissingOpenSnapshots fetches only stocks with an open position that the
\* scan did not see.
Scans(p) ==
    \E d \in ScanDates, seen \in SUBSET Stocks :
        \E direct \in SUBSET ({i[1] : i \in OpenIds(ledger.pos)} \ seen) :
            Scan(p, d, seen, direct)

Next ==
    \/ NextDay
    \/ \E p \in Procs :
          \/ Scans(p)
          \/ Save(p)
          \/ SaveFails(p)
          \/ \E a \in work[p].events : SendAlert(p, a)
          \/ Crash(p)

Spec == Init /\ [][Next]_vars

\* The days pass, a run that started ends, and failures are transient: of the
\* runs for today's date, one in the end has all the candles and is saved.
FullScan(p) == Scan(p, today, Stocks, {})
UpToDate(pos) == Replayed(pos, Stocks, today) = pos
SaveFull(p) == UpToDate(work[p].ledger.pos) /\ Save(p)

FairSpec ==
    /\ Spec
    /\ WF_vars(NextDay)
    /\ \A p \in Procs : /\ SF_vars(FullScan(p)) /\ SF_vars(SaveFull(p))
                       /\ WF_vars(Save(p) \/ SaveFails(p))
                       /\ WF_vars(\E a \in work[p].events : SendAlert(p, a))

-----------------------------------------------------------------------------
\* Properties.

\* Type correctness of every variable.
TypeOK ==
    /\ today \in Days
    /\ bar \in [Stocks -> [Days -> BarKind]]
    /\ signal \in [Stocks -> [Days -> SignalKind]]
    /\ ledger \in Ledger
    /\ pc \in [Procs -> {"idle", "computed", "alerting"}]
    /\ work \in [Procs -> [ledger: Ledger, events: SUBSET Alerts]]
    /\ alerted \subseteq Alerts

\* What the candle history alone says of a position: the day its second half
\* was bought (0 if never).
ConfirmDay(i, box) ==
    IF box = "box" /\ \E e \in Days : IsFirstBreak(i, e) /\ bar[i[1]][e] = "break"
    THEN TheDay({e \in Days : IsFirstBreak(i, e)}) ELSE 0

\* The record agrees with the candle history.
TrueToHistory(i, r) ==
    /\ r.status = "stage1" => r.s2 = 0
    /\ r.status = "stage2" => r.s2 = ConfirmDay(i, r.box) /\ r.s2 # 0
    /\ r.status = "closed" =>
          /\ r.s2 = ConfirmDay(i, r.box)
          /\ IsNthBar(i, r.exit, IF r.s2 = 0 THEN DefaultHolding ELSE MaxHolding)
          /\ bar[i[1]][r.exit] # "bad"

\* The comment at paper_wd.go:635-636: whatever runs were missed, repeated,
\* backdated, overlapping or cut short, a trade in the ledger is filled on the
\* first DefBox break and at the expiry candle, never on the day of the run.
FaithfulReplay == \A i \in Ids : TrueToHistory(i, ledger.pos[i])

\* The ledger never holds more open positions than paperWDMaxPositions,
\* whichever run wrote it (paper_wd.go:279-300).
SlotLimit == Cardinality(OpenIds(ledger.pos)) <= MaxPositions

ClosedIds(pos) == {i \in Ids : pos[i].status = "closed"}

\* Every close is counted once in the ledger's totals (TradeCount, and ClosedPL
\* that changes with it), over reruns and failed saves (paper_wd.go:753-754).
TotalsReconcile == ledger.trades = Cardinality(ClosedIds(ledger.pos))

Recorded(a, pos) ==
    CASE a[2] = "stage1" -> pos[a[1]].status # "none"
      [] a[2] = "stage2" -> pos[a[1]].s2 # 0
      [] OTHER -> pos[a[1]].status = "closed"

\* Alerts follow the commit (paper_wd.go:310): a trade that was announced, or is
\* about to be, is in the ledger file from then on.
AlertedIsRecorded ==
    \A a \in alerted \cup UNION {work[p].events : p \in {q \in Procs : pc[q] = "alerting"}} :
        Recorded(a, ledger.pos)

\* A rerun, a failed save or a crash never announces the same trade twice.
AlertOnce ==
    [][\A p \in Procs : \A a \in work[p].events : SendAlert(p, a) => a \notin alerted]_vars

Stage(r) == CASE r.status = "none" -> 0 [] r.status = "stage1" -> 1
              [] r.status = "stage2" -> 2 [] OTHER -> 3

\* A saved run never rewrites a trade already booked: positions only move
\* forward, and a fill once recorded keeps its day.
BookedIsFinal ==
    [][\A i \in Ids :
          LET r == ledger.pos[i]
              q == ledger'.pos[i]
          IN  /\ Stage(r) <= Stage(q)
              /\ r.s2 # 0 => q.s2 = r.s2
              /\ r.exit # 0 => q.exit = r.exit
              /\ r.status # "none" => q.box = r.box]_vars

\* The ledger as its reader sees it, and what TradeBook promises of it: with one
\* run at a time, whatever dies or fails in between, the file changes as one
\* step per run, trades only move forward, and every alert follows the commit of
\* its trade and is sent once.
Page(r) == [stage |-> Stage(r), second |-> r.s2, sale |-> r.exit]
Book == INSTANCE TradeBook WITH
            Trades <- Ids, Slots <- MaxPositions,
            book <- [i \in Ids |-> Page(ledger.pos[i])],
            closes <- ledger.trades, told <- alerted
ImplementsBook == Book!Spec

\* Without backdated runs the report's period (paper_wd.go:387) covers every
\* trade of the ledger.
PeriodCoversTrades ==
    \A i \in Ids : LET r == ledger.pos[i] IN r.status # "none" =>
        /\ ledger.start <= i[2] /\ i[2] <= ledger.updated
        /\ r.s2 <= ledger.updated /\ r.exit <= ledger.updated

\* The market of stock i[1] trades through LastDay with usable closes.
TradesOn(i) == /\ \A d \in Days : d >= i[2] => bar[i[1]][d] \notin {"none", "bad"}
               /\ signal[i[1]][i[2]] # "badbox"

\* A position whose longest holding fits in the calendar gives its slot back,
\* if its stock keeps trading.
MaturedCloses ==
    \A i \in Ids : i[2] + MaxHolding <= LastDay =>
        (i \in OpenIds(ledger.pos) /\ TradesOn(i) ~> i \notin OpenIds(ledger.pos))

\* What every save leaves: a well-formed ledger, true to the candles, whose statistics are those
\* of its trades (paper_wd.go:143, 304, 753).
LedgerSound == TypeOK /\ FaithfulReplay /\ TotalsReconcile /\ PeriodCoversTrades
=============================================================================
