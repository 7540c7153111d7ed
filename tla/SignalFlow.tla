----------------------------- MODULE SignalFlow -----------------------------
(***************************************************************************)
(* The two writers of the signal tables together: the nightly batch        *)
(* (DailyLoad) and the queue's consumer (Listen), on one wall clock.       *)
(***************************************************************************)
EXTENDS DailyLoad, Listen

VARIABLES orderly   \* has every day so far been loaded and run in order

vars == <<day, daily, log, loadVars, listenVars, orderly>>

Init ==
    /\ day = 1 /\ daily = <<>> /\ log = <<>>
    /\ LoadInit /\ ListenInit
    /\ orderly = TRUE

\* The normal evening: the table is loaded, then a run ends well.
LoadedFor(d) == \A s \in StockSet : bars[s] = d

TheDay ==
    /\ NextDay
    /\ orderly' = (orderly /\ day \in DOMAIN decided)
    /\ UNCHANGED listenVars

TheRun ==
    /\ LoadBars \/ Script \/ Kill
    /\ orderly' = (orderly /\ (step = "idle" /\ step' = "batch" => LoadedFor(day)) /\ faults' = 0)
    /\ UNCHANGED listenVars

\* stock feed: the whole candle table of the batch as final messages.
HandleFeed ==
    /\ Publish({HistMessage(s, bars[s]) : s \in {x \in StockSet : bars[x] > NoBars}})
    /\ UNCHANGED <<day, daily, log, lsBars, sent, breaks, queue, link, connClosed, hanDB, buffer, work,
                   gateDate, gate, cache, told>>

TheConsumer == Consumer /\ UNCHANGED loadVars /\ UNCHANGED orderly

TheQueue ==
    /\ LoadLS \/ HandlePublishLive \/ HandlePublishHist \/ HandleFeed \/ Send \/ SendBad
         \/ ConnectionCloses \/ Redial \/ Crash
    /\ UNCHANGED loadVars /\ UNCHANGED orderly

Next == TheDay \/ TheRun \/ TheConsumer \/ TheQueue

\* The consumer's process is started anew (restart: unless-stopped), gets
\* what the broker has for it and works on it; nothing else has to happen.
Spec == Init /\ [][Next]_vars /\ WF_vars(TheConsumer)

----------------------------------------------------------------------------
\* connClosed waits on an open connection only, and is closed only after a loss.
LinkTypeOK ==
    /\ link \in {"none", "consuming", "lost", "redialled"}
    /\ connClosed \in {"none", "waiting", "closed"}
    /\ connClosed = "waiting" => link \in {"consuming", "redialled"}
    /\ connClosed = "closed" => link \in {"lost", "redialled"}

TypeOK ==
    /\ LoadTypeOK
    /\ orderly \in BOOLEAN
    /\ lsBars \in [StockSet -> Days]
    /\ LinkTypeOK /\ hanDB \in BOOLEAN
    /\ sent \in 0 .. MaxSent /\ breaks \in 0 .. MaxBreaks
    /\ Len(buffer) <= BufferCap
    /\ ~up => buffer = <<>> /\ work = {} /\ gate = None
    /\ gateDate \in 0 .. day
    /\ \A w \in work : w \in [event : Events, source : Sources]

\* The first observation is kept (daily_batch.sh:23-24, listen.go:412-413):
\* no writer removes a row of the log or moves its as_of_date to a later day,
\* and the rows of live trading are not touched by the batch.
FirstSeenKept ==
    [][/\ \A r \in DOMAIN log : r \in DOMAIN log' /\ log'[r] <= log[r]
       /\ step = "load" /\ sql # sql' => \A r \in DOMAIN log' :
              r.source = "LIVE" => r \in DOMAIN log /\ log'[r] = log[r]]_vars

\* Rows of final bars hold what final bars give: what a virtual bar made up is
\* found among the live rows only (listen.go:267-269, 397-402).
FinalRowsConfirmed ==
    \A r \in DOMAIN log : r.source \in {"EOD", "HIST"} => r.event \in Confirmed

\* The decision sent with a signal is the one the batch prints for its date
\* (listen.go:119-124: back-test and live trading agree), when every evening
\* was in order and the gate could be fetched.
LiveAgreesWithBatch ==
    orderly => \A t \in told :
        Gated(t.row.event) /\ t.verdict # Undecided /\ t.row.event.date \in DOMAIN decided =>
            t.verdict = decided[t.row.event.date]

\* Every message that reaches the queue is taken by a consumer or lost with a
\* connection: the queue does not stand for ever (listen.go:248-251,
\* rabbitmq.go:290-293: the process ends when its connection closes, so that
\* it is started anew). One case is excepted: a process that lost its
\* consumer before it watched the connection stays up and never drains it.
QueueDrains ==
    <>[]Unattended \/ <>[](queue = <<>> /\ buffer = <<>> /\ work = {})

\* The log and what was told of it agree with the batch: final rows hold what final bars give, and
\* a live decision is the one the batch comes to (listen.go:119, 267).
LogTrue == TypeOK /\ FinalRowsConfirmed /\ LiveAgreesWithBatch
=============================================================================
