-------------------------------- MODULE Logger --------------------------------
(***************************************************************************)
(* The log pipeline (console/logger.go, console/cleanup.go) over the       *)
(* RabbitMQ session: Log and Tele put messages into a bounded queue, one   *)
(* goroutine gathers them into batches and sends each batch to the LOG     *)
(* queue with retries, and Cleanup stops that goroutine before it closes   *)
(* the session.  Messages are distinct; their order is not modelled.       *)
(***************************************************************************)
EXTENDS RabbitSession

CONSTANTS
    Messages,    \* the messages the program may log
    LOG,         \* the queue they go to
    QueueCap,    \* capacity of logQueue (1000)
    BatchSize,   \* logBatchSize (100)
    MaxRetries,  \* maxRetries (3)
    BusyLosses   \* bound: of the MaxLosses connections that break, how many do so in a
                 \* behaviour with messages

ASSUME LoggerAssumption == /\ LOG \in Queues
                           /\ QueueCap \in Nat \ {0} /\ BatchSize \in Nat \ {0}
                           /\ MaxRetries \in Nat \ {0} /\ BusyLosses \in Nat

VARIABLES
    program,   \* main: "running", "cleanup" (in stopLogger), "exited" or "killed"
    shutdown,  \* logShutdown is closed
    queue,     \* logQueue
    dropped,   \* messages the full queue turned away
    proc,      \* processLogQueue: "collect", "flush", "drain", "lastflush", "done"
    batch,     \* its batch
    unsent,    \* what the attempt under way has yet to try
    failed,    \* whether a Send of this attempt failed
    attempt,   \* the attempt's number
    sent,      \* sent[m]: how often Send took m
    lost,      \* messages reported as lost
    accepted   \* messages that were queued while the program was running

loggerVars == <<program, shutdown, queue, dropped, proc, batch, unsent, failed, attempt,
                sent, lost, accepted>>
vars == <<sessionVars, loggerVars>>

Init ==
    /\ SessionInit
    /\ program = "running" /\ shutdown = FALSE
    /\ queue = {} /\ dropped = {} /\ accepted = {}
    /\ proc = "collect" /\ batch = {}
    /\ unsent = {} /\ failed = FALSE /\ attempt = 0
    /\ sent = [m \in Messages |-> 0] /\ lost = {}

\* No goroutine runs on after the end of the process.
Alive == program \in {"running", "cleanup"}

\* Messages that were never handed to the logger.
Fresh == Messages \ (queue \cup batch \cup dropped \cup lost \cup {m \in Messages : sent[m] > 0})

\* No message was logged so far.
Quiet == Fresh = Messages

\* sendToLogQueue, which never blocks; other goroutines may log during Cleanup.
SendToLogQueue(m) ==
    /\ Alive
    /\ m \in Fresh /\ losses <= BusyLosses
    /\ IF Cardinality(queue) < QueueCap
       THEN /\ queue' = queue \cup {m}
            /\ accepted' = IF program = "running" THEN accepted \cup {m} ELSE accepted
            /\ UNCHANGED dropped
       ELSE /\ dropped' = dropped \cup {m}
            /\ UNCHANGED <<queue, accepted>>
    /\ UNCHANGED <<program, shutdown, proc, batch, unsent, failed, attempt, sent, lost>>

-----------------------------------------------------------------------------
\* processLogQueue.  Its select picks any case that is ready.

\* flushLogBatch begins, on batch b, as the loop's or as the last flush.
Flush(b, where) ==
    /\ proc' = where
    /\ unsent' = b
    /\ failed' = FALSE
    /\ attempt' = 1

Collect(m) ==
    /\ Alive /\ proc = "collect" /\ m \in queue
    /\ queue' = queue \ {m}
    /\ batch' = batch \cup {m}
    /\ IF Cardinality(batch') >= BatchSize THEN Flush(batch', "flush")
       ELSE UNCHANGED <<proc, unsent, failed, attempt>>
    /\ UNCHANGED <<program, shutdown, dropped, sent, lost, accepted>>

\* Mutant: the timer empties the batch before it is sent.
TimerFiresEarlyReset ==
    /\ Alive /\ proc = "collect" /\ batch # {}
    /\ batch' = {}
    /\ Flush({}, "flush")
    /\ UNCHANGED <<program, shutdown, queue, dropped, sent, lost, accepted>>

\* The timer: an empty batch only sets it again.
TimerFires ==
    /\ Alive /\ proc = "collect" /\ batch # {}
    /\ Flush(batch, "flush")
    /\ UNCHANGED <<program, shutdown, queue, dropped, batch, sent, lost, accepted>>

SeeShutdown ==
    /\ Alive /\ proc = "collect" /\ shutdown
    /\ proc' = "drain"
    /\ UNCHANGED <<program, shutdown, queue, dropped, batch, unsent, failed, attempt,
                   sent, lost, accepted>>

Drain(m) ==
    /\ Alive /\ proc = "drain" /\ m \in queue
    /\ queue' = queue \ {m}
    /\ batch' = batch \cup {m}
    /\ UNCHANGED <<program, shutdown, dropped, proc, unsent, failed, attempt,
                   sent, lost, accepted>>

\* Mutant: the batch is flushed without emptying the queue.
DrainedAtOnce ==
    /\ Alive /\ proc = "drain"
    /\ IF batch = {} THEN proc' = "done" /\ UNCHANGED <<unsent, failed, attempt>>
       ELSE Flush(batch, "lastflush")
    /\ UNCHANGED <<program, shutdown, queue, dropped, batch, sent, lost, accepted>>

\* The queue is empty: the last flush, if there is anything to send.
Drained ==
    /\ Alive /\ proc = "drain" /\ queue = {}
    /\ IF batch = {} THEN proc' = "done" /\ UNCHANGED <<unsent, failed, attempt>>
       ELSE Flush(batch, "lastflush")
    /\ UNCHANGED <<program, shutdown, queue, dropped, batch, sent, lost, accepted>>

-----------------------------------------------------------------------------
\* flushLogBatch.

InFlush == proc \in {"flush", "lastflush"}

\* One Send, which waits for the lock recreateChannels holds; one that passes the
\* session's checks may fail in the library.
SendOne(m) ==
    /\ Alive /\ InFlush /\ m \in unsent
    /\ recon # "recreate"
    /\ unsent' = unsent \ {m}
    /\ \/ /\ Usable(LOG)
          /\ sent' = [sent EXCEPT ![m] = @ + 1]
          /\ UNCHANGED failed
       \/ /\ failed' = TRUE
          /\ UNCHANGED sent
    /\ UNCHANGED <<program, shutdown, queue, dropped, proc, batch, attempt, lost, accepted>>

\* The batch is emptied; after the last flush the goroutine ends.
Flushed ==
    /\ proc' = IF proc = "flush" THEN "collect" ELSE "done"
    /\ batch' = {}
    /\ unsent' = {} /\ failed' = FALSE /\ attempt' = 0

\* Mutants of the attempt's end: one more attempt; the batch that could not be
\* sent is not reported; retries without end.
AttemptEndsLate ==
    /\ Alive /\ InFlush /\ unsent = {}
    /\ IF failed /\ attempt <= MaxRetries
       THEN /\ unsent' = batch /\ failed' = FALSE /\ attempt' = attempt + 1
            /\ UNCHANGED <<proc, batch, lost>>
       ELSE /\ Flushed
            /\ lost' = IF failed THEN lost \cup batch ELSE lost
    /\ UNCHANGED <<program, shutdown, queue, dropped, sent, accepted>>
AttemptEndsUnreported ==
    /\ Alive /\ InFlush /\ unsent = {}
    /\ IF failed /\ attempt < MaxRetries
       THEN /\ unsent' = batch /\ failed' = FALSE /\ attempt' = attempt + 1
            /\ UNCHANGED <<proc, batch, lost>>
       ELSE /\ Flushed
            /\ UNCHANGED lost
    /\ UNCHANGED <<program, shutdown, queue, dropped, sent, accepted>>
AttemptEndsNever ==
    /\ Alive /\ InFlush /\ unsent = {}
    /\ IF failed
       THEN /\ unsent' = batch /\ failed' = FALSE
            /\ UNCHANGED <<proc, batch, attempt, lost>>
       ELSE /\ Flushed
            /\ UNCHANGED lost
    /\ UNCHANGED <<program, shutdown, queue, dropped, sent, accepted>>

\* An attempt ends: done, the whole batch again, or given up and reported.
AttemptEnds ==
    /\ Alive /\ InFlush /\ unsent = {}
    /\ IF failed /\ attempt < MaxRetries
       THEN /\ unsent' = batch /\ failed' = FALSE /\ attempt' = attempt + 1
            /\ UNCHANGED <<proc, batch, lost>>
       ELSE /\ Flushed
            /\ lost' = IF failed THEN lost \cup batch ELSE lost
    /\ UNCHANGED <<program, shutdown, queue, dropped, sent, accepted>>

-----------------------------------------------------------------------------
\* The program's end.

UnchangedPipeline == UNCHANGED <<queue, dropped, proc, batch, unsent, failed, attempt,
                                 sent, lost, accepted>>

\* Cleanup calls stopLogger: logShutdown is closed, main waits for the goroutine.
StopLogger ==
    /\ program = "running"
    /\ program' = "cleanup" /\ shutdown' = TRUE
    /\ UnchangedPipeline

\* stopLogger returns; Cleanup closes the session and the process ends.
Exit ==
    /\ program = "cleanup" /\ proc = "done"
    /\ program' = "exited"
    /\ UNCHANGED shutdown /\ UnchangedPipeline

\* os.Exit, a fatal error or a signal: nothing is cleaned up.
Kill ==
    /\ Alive
    /\ program' = "killed"
    /\ UNCHANGED shutdown /\ UnchangedPipeline

ProcStep ==
    \/ \E m \in Messages : Collect(m) \/ Drain(m) \/ SendOne(m)
    \/ TimerFires \/ SeeShutdown \/ Drained \/ AttemptEnds

LoggerStep ==
    \/ \E m \in Messages : SendToLogQueue(m)
    \/ ProcStep
    \/ StopLogger \/ Exit \/ Kill

Next ==
    \/ LoggerStep /\ UNCHANGED sessionVars
    \/ Alive /\ SessionStep /\ UNCHANGED loggerVars
    \/ Alive /\ ConnLost /\ (Quiet \/ losses < BusyLosses) /\ UNCHANGED loggerVars

\* Every goroutine runs on; Send times out, so that a flush goes on too.  The
\* session's steps are finitely many between two breaks, so that fairness of
\* all of them together is fairness of each of its goroutines.
Spec ==
    /\ Init /\ [][Next]_vars
    /\ WF_vars(ProcStep /\ UNCHANGED sessionVars)
    /\ WF_vars(Exit /\ UNCHANGED sessionVars)
    /\ WF_vars(Alive /\ SessionStep /\ UNCHANGED loggerVars)

-----------------------------------------------------------------------------
\* Properties.

\* Type correctness of both components.
TypeOK ==
    /\ SessionTypeOK
    /\ program \in {"running", "cleanup", "exited", "killed"} /\ shutdown \in BOOLEAN
    /\ queue \subseteq Messages /\ dropped \subseteq Messages
    /\ proc \in {"collect", "flush", "drain", "lastflush", "done"}
    /\ batch \subseteq Messages /\ unsent \subseteq batch
    /\ failed \in BOOLEAN /\ attempt \in 0..MaxRetries
    /\ sent \in [Messages -> Nat]
    /\ lost \subseteq Messages /\ accepted \subseteq Messages

Settled(m) == sent[m] > 0 \/ m \in lost

\* A queued message is never lost in silence while the process lives: it is
\* waiting, was sent, or the batch it was in was reported as lost, over full
\* queues, broken connections, retries and the race of messages with the
\* shutdown (logger.go:387-424,428-463).
NoSilentLoss == \A m \in accepted : Settled(m) \/ m \in queue \cup batch

\* cleanup.go:15: the logger is stopped first so that no log is lost.  Whatever
\* was queued before Cleanup is sent or reported when the program ends by itself.
CleanupKeepsLogs == program = "exited" => \A m \in accepted : Settled(m)

\* A retry sends the whole batch again: no message goes out more often than there
\* are attempts.
BoundedCopies == \A m \in Messages : sent[m] <= MaxRetries

\* Cleanup never waits forever for the goroutine, whatever the session does.
CleanupEnds == program = "cleanup" ~> ~Alive

\* A queued message is sent or reported, unless the program is killed.
AcceptedIsSettled == \A m \in Messages : m \in accepted ~> Settled(m) \/ program = "killed"

\* A break that a monitor noticed leads to a new connection while the process
\* lives: its signal is not lost when others see the same break and find a signal
\* pending, nor when it comes while an earlier break is still being repaired
\* (rabbitmq.go:104-113,124-157).
NoticedLossRedialled ==
    \A n \in Conns : (conn = n /\ \E c \in Conns : mon[c] = "error") ~> (conn > n \/ ~Alive)

\* The account of every log message: waiting, sent at most as often as there are attempts, or
\* reported, and settled when the program ends by itself (logger.go:371, 436, cleanup.go:15).
LogsAccounted == TypeOK /\ NoSilentLoss /\ CleanupKeepsLogs /\ BoundedCopies
=============================================================================
