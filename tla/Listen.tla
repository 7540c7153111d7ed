------------------------------- MODULE Listen -------------------------------
(***************************************************************************)
(* The way of a signal through the queue CMST_st2: a publisher that sends  *)
(* one message a stock (stock/publish.go: publish-live with a virtual bar  *)
(* of today, publish-hist with final bars of past dates), the broker's     *)
(* queue, and the consumer (stock/listen.go), which evaluates every        *)
(* message, tells the results queue of the events of the last bar, and     *)
(* records all of them.                                                    *)
(*                                                                         *)
(* A window of bars is abstracted to its last date and to whether that bar *)
(* is a virtual one.                                                       *)
(***************************************************************************)
EXTENDS SignalStore

CONSTANTS BufferCap,   \* the buffer of the consumer (4096)
          MaxSent,     \* bound: messages published
          MaxBreaks    \* bound: connections lost, failed fetches, sends and
                       \* writes, messages that are not understood

ASSUME ListenAssumption == BufferCap \in Nat \ {0} /\ MaxSent \in Nat /\ MaxBreaks \in Nat

VARIABLES lsBars,    \* ST.t8410: the last date of each stock
          pub,       \* the messages the running publisher has still to send, one a stock at most
          sent, breaks,
          queue,     \* CMST_st2 (not durable)
          link,      \* the consumer's process and its connection: "none" (it does not run),
                     \* "consuming", "lost" (s.Conn is closed), "redialled" (a new s.Conn, which
                     \* no consumer is registered on)
          connClosed,\* "none" (not asked for yet), "waiting", "closed" (it can be read)
          hanDB,     \* did it get its database handle at the start
          buffer,    \* msgChan
          work,      \* the events of the message at hand, still to be emitted
          gateDate,  \* gateHistDate; 0: not fetched yet
          gate,      \* the history of the gate, or none
          cache,     \* gateCache: bar date -> verdict
          told       \* what is handed to the results queue

listenVars == <<lsBars, pub, sent, breaks, queue, link, connClosed, hanDB, buffer, work, gateDate, gate, cache, told>>

None      == <<>>
Undecided == [pass |-> FALSE, density |-> -1, threshold |-> -1, samples |-> -1]
NoVerdict == [pass |-> FALSE, density |-> -2, threshold |-> -2, samples |-> -2]
Bad       == [stock |-> "none", last |-> 0, mode |-> "bad"]

ListenInit ==
    /\ lsBars = [s \in StockSet |-> 1]
    /\ pub = {} /\ sent = 0 /\ breaks = 0
    /\ queue = <<>> /\ link = "none" /\ connClosed = "none" /\ hanDB = FALSE /\ buffer = <<>> /\ work = {}
    /\ gateDate = 0 /\ gate = None /\ cache = <<>> /\ told = {}

----------------------------------------------------------------------------
(* The publishers. *)

\* ST.t8410 gets the bars of a stock, up to yesterday or today.
LoadLS ==
    \E s \in StockSet, d \in {day - 1, day} :
        /\ lsBars[s] < d
        /\ lsBars' = [lsBars EXCEPT ![s] = d]
        /\ UNCHANGED <<day, daily, log, pub, sent, breaks, queue, link, connClosed, hanDB, buffer, work,
                       gateDate, gate, cache, told>>

\* lsPrevTradingDate: the latest date of any stock before today.
Earlier(d)     == {x \in Days : x < d /\ \E s \in StockSet : x <= lsBars[s]}
LsPrevTradingDate == Max(Earlier(day))

\* windowEndingAt: the last bar at or before a date, 0 for none.
LastAtOrBefore(s, d) == IF lsBars[s] < d THEN lsBars[s] ELSE d

\* The messages go out in the order of the stock codes.
Code(s)     == CHOOSE i \in DOMAIN Stocks : Stocks[i] = s
NextMessage == CHOOSE m \in pub : \A q \in pub : Code(m.stock) <= Code(q.stock)

\* The publisher starts with a set of messages, within the bound.
Publish(messages) ==
    /\ pub = {} /\ pub' = messages
    /\ Cardinality(messages) + sent <= MaxSent

\* publish-live: the stocks that have a quote of today and whose bars end at
\* the previous trading date.
LiveStocks(quoted) == {s \in quoted : LastAtOrBefore(s, LsPrevTradingDate) = LsPrevTradingDate}

LiveMessage(s) == [stock |-> s, last |-> day, mode |-> "live"]

HandlePublishLive ==
    /\ Earlier(day) # {}
    /\ \E quoted \in SUBSET StockSet \ {{}} : Publish({LiveMessage(s) : s \in LiveStocks(quoted)})
    /\ UNCHANGED <<day, daily, log, lsBars, sent, breaks, queue, link, connClosed, hanDB, buffer, work,
                   gateDate, gate, cache, told>>

\* publish-hist of one date: the stocks with a bar of that very date.
HistMessage(s, d) == [stock |-> s, last |-> d, mode |-> "eod"]

HandlePublishHist ==
    /\ \E d \in Earlier(day + 1) :
          Publish({HistMessage(s, d) : s \in {x \in StockSet : LastAtOrBefore(x, d) = d}})
    /\ UNCHANGED <<day, daily, log, lsBars, sent, breaks, queue, link, connClosed, hanDB, buffer, work,
                   gateDate, gate, cache, told>>

\* publisher.send of one message; a failed one is logged and passed over.
Send ==
    /\ pub # {}
    /\ pub' = pub \ {NextMessage} /\ sent' = sent + 1
    /\ \/ queue' = Append(queue, NextMessage) /\ UNCHANGED breaks
       \/ breaks < MaxBreaks /\ breaks' = breaks + 1 /\ UNCHANGED queue
    /\ UNCHANGED <<day, daily, log, lsBars, link, connClosed, hanDB, buffer, work, gateDate, gate, cache, told>>

\* Another publisher of the queue sends what parseVirtualMsg refuses.
SendBad ==
    /\ breaks < MaxBreaks /\ breaks' = breaks + 1
    /\ queue' = Append(queue, Bad)
    /\ UNCHANGED <<day, daily, log, lsBars, pub, sent, link, connClosed, hanDB, buffer, work, gateDate,
                   gate, cache, told>>

----------------------------------------------------------------------------
(* The consumer. *)

\* The history is fetched once for a wall-clock date; the date is taken down
\* before the fetch, so that a failed fetch is not tried again that day.
Refetch(fetched) ==
    IF day # gateDate
    THEN gateDate' = day /\ gate' = fetched
    ELSE UNCHANGED <<gateDate, gate>>

\* What gateFor says of a bar date, after Refetch.
GateFor(date, cached) ==
    IF date \in DOMAIN cached THEN cached[date]
    ELSE IF gate' = None THEN Undecided
    ELSE Evaluate(gate'[1], date)

CacheNow == IF day # gateDate THEN <<>> ELSE cache

Remember(date, cached) ==
    cache' = [d \in DOMAIN cached \union {date} |->
                IF d = date THEN GateFor(date, cached) ELSE cached[d]]

\* The fetch may fail (configuration, connection, query).
Fetched(fails) == IF fails THEN None ELSE <<History>>

\* What fails of two things, within the bound.
Break(a, b) ==
    LET n == (IF a THEN 1 ELSE 0) + (IF b THEN 1 ELSE 0)
    IN  breaks + n <= MaxBreaks /\ breaks' = breaks + n

up        == link # "none"
consuming == link = "consuming"
serving   == connClosed # "none"   \* the main loop is reached

\* Start of the process (console/init.go) up to the registration of the consumer. A start that
\* fails is tried again.
StartListen ==
    /\ ~up
    /\ link' = "consuming"
    /\ UNCHANGED <<day, daily, log, lsBars, pub, sent, breaks, queue, connClosed, hanDB, buffer, work,
                   gateDate, gate, cache, told>>

\* The way to the main loop: the gate of today, for the first line, the handle for the log,
\* without which nothing is logged in the process's lifetime, and NotifyConnClose, which watches
\* whatever s.Conn is by now and reads as closed at once if that is.
Prepare ==
    /\ up /\ ~serving
    /\ \E noGate, noHandle \in BOOLEAN :
          /\ Break(noGate, noHandle)
          /\ Refetch(Fetched(noGate))
          /\ hanDB' = ~noHandle
    /\ Remember(day, <<>>)
    /\ connClosed' = IF link = "lost" THEN "closed" ELSE "waiting"
    /\ UNCHANGED <<day, daily, log, lsBars, pub, sent, queue, link, buffer, work, told>>

\* Messages are acknowledged on delivery (auto-ack).
Deliver ==
    /\ consuming /\ queue # <<>> /\ Len(buffer) < BufferCap
    /\ queue' = Tail(queue) /\ buffer' = Append(buffer, Head(queue))
    /\ UNCHANGED <<day, daily, log, lsBars, pub, sent, breaks, link, connClosed, hanDB, work, gateDate,
                   gate, cache, told>>

LastBarSourceFinal(m) == "EOD"

\* LastBarSource and sourceFor.
LastBarSource(m) == IF m.mode = "eod" THEN "EOD" ELSE "LIVE"

SourceFor(date, m) == IF date = m.last THEN LastBarSource(m) ELSE "HIST"

\* What the two strategies find in a window: the events of its dates; on a
\* virtual last bar (and only there) what the final bar gives may be missed,
\* and more may be found.
EventsOf(m) ==
    LET at(pool, P(_)) == {e \in pool : e.stock = m.stock /\ P(e.date)}
        past == at(Confirmed, LAMBDA d : d < m.last)
    IN  IF m.mode = "eod" THEN {past \union at(Confirmed, LAMBDA d : d = m.last)}
        ELSE {past \union x : x \in SUBSET at(Events, LAMBDA d : d = m.last)}

\* A message is taken from the buffer: parsed, refused or analysed.
Take ==
    /\ serving /\ work = {} /\ buffer # <<>>
    /\ buffer' = Tail(buffer)
    /\ LET m == Head(buffer) IN
       IF m.mode = "bad" THEN UNCHANGED work
       ELSE \E found \in EventsOf(m) :
                work' = {[event |-> e, source |-> SourceFor(e.date, m)] : e \in found}
    /\ UNCHANGED <<day, daily, log, lsBars, pub, sent, breaks, queue, link, connClosed, hanDB, gateDate,
                   gate, cache, told>>

\* The order of the events: by strategy, buys first, then by date.
Rank(r) ==
    LET e == r.event
    IN  (CHOOSE i \in DOMAIN Strategies : Strategies[i] = e.strategy) * 4 * LastDay
          + (IF e.kind = "BUY" THEN 0 ELSE 2 * LastDay) + e.date

NextEvent == CHOOSE r \in work : \A q \in work : Rank(r) <= Rank(q)

Gated(e) == e.strategy \in GateStrategies /\ e.kind = "BUY"

\* emit: a past event goes to the log only, one of the last bar to the
\* results queue too; a failed write is printed and forgotten.
Emit ==
    /\ serving /\ work # {}
    /\ work' = work \ {NextEvent}
    /\ LET r == NextEvent
           e == r.event
           tell(v) == told' = IF r.source = "HIST" THEN told
                              ELSE told \union {[row |-> r, verdict |-> v]}
       IN  \E noGate, noWrite \in BOOLEAN :
              /\ noGate => Gated(e) /\ day # gateDate
              /\ noWrite => hanDB
              /\ Break(noGate, noWrite)
              /\ IF Gated(e)
                 THEN /\ Refetch(Fetched(noGate))
                      /\ Remember(e.date, CacheNow)
                      /\ tell(GateFor(e.date, CacheNow))
                 ELSE tell(NoVerdict) /\ UNCHANGED <<gateDate, gate, cache>>
              /\ IF hanDB /\ ~noWrite THEN log' = Merge({r}, day) ELSE UNCHANGED log
    /\ UNCHANGED <<day, daily, lsBars, pub, sent, queue, link, connClosed, hanDB, buffer>>

\* The connection closes: the goroutine of Receive ends. A broker that
\* restarts loses the queue, which is not durable.
ConnectionCloses ==
    /\ link \in {"consuming", "redialled"} /\ breaks < MaxBreaks /\ breaks' = breaks + 1
    /\ link' = "lost"
    /\ connClosed' = IF connClosed = "waiting" THEN "closed" ELSE connClosed
    /\ queue' \in {queue, <<>>}
    /\ UNCHANGED <<day, daily, log, lsBars, pub, sent, hanDB, buffer, work, gateDate,
                   gate, cache, told>>

\* HandleReconnection dials again and opens the channels, but registers no consumer. It need not
\* come: a monitor may have missed the loss.
Redial ==
    /\ link = "lost" /\ link' = "redialled"
    /\ UNCHANGED <<day, daily, log, lsBars, pub, sent, breaks, queue, connClosed, hanDB, buffer, work,
                   gateDate, gate, cache, told>>

\* A process that runs on without a consumer: its connection was lost and redialled before
\* NotifyConnClose, which watches the new one.
Unattended == link = "redialled" /\ connClosed = "waiting"

EndsKeeping ==
    /\ link' = "none" /\ connClosed' = "none" /\ hanDB' = FALSE /\ work' = {}
    /\ gateDate' = 0 /\ gate' = None /\ cache' = <<>>
    /\ UNCHANGED <<day, daily, log, lsBars, pub, sent, queue, buffer, told>>

\* The process ends: what was delivered and not handled is lost.
Ends ==
    /\ link' = "none" /\ connClosed' = "none" /\ hanDB' = FALSE
    /\ buffer' = <<>> /\ work' = {}
    /\ gateDate' = 0 /\ gate' = None /\ cache' = <<>>
    /\ UNCHANGED <<day, daily, log, lsBars, pub, sent, queue, told>>

ExitAtMessage == connClosed = "closed" /\ work = {} /\ buffer # <<>> /\ Ends /\ UNCHANGED breaks

\* Between two messages the main loop may find the closed connection: exit(1).
Exit == connClosed = "closed" /\ work = {} /\ Ends /\ UNCHANGED breaks

\* The process is stopped or dies at any point.
Crash == up /\ breaks < MaxBreaks /\ breaks' = breaks + 1 /\ Ends

Consumer == StartListen \/ Prepare \/ Deliver \/ Take \/ Emit \/ Exit
=============================================================================
