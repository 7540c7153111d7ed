----------------------------- MODULE LoggerProofs -----------------------------
(***************************************************************************)
(* Theorems about Logger over RabbitSession, for any queues, messages,     *)
(* capacities, retries and numbers of connections, breaks and faults.      *)
(***************************************************************************)
EXTENDS Logger, TLAPS

\* While no dial is under way, the map holds channels of the last connection.
ChanInv == recon # "dial" => \A q \in Queues : chan[q] \in {0, conn}

\* A message is in one place, and what waits there was sent less often than there
\* were attempts.
CopiesInv ==
    /\ queue \cap batch = {}
    /\ \A m \in queue : sent[m] = 0
    /\ proc \in {"collect", "drain"} => \A m \in batch : sent[m] = 0
    /\ InFlush => /\ attempt >= 1
                  /\ \A m \in unsent : sent[m] < attempt
                  /\ \A m \in batch : sent[m] <= attempt
    /\ BoundedCopies

\* What an attempt without a failure has been through was sent.
AttemptInv == InFlush /\ ~failed => \A m \in batch \ unsent : sent[m] > 0

\* After the drain the queue holds only what was logged during Cleanup.
DrainInv ==
    /\ shutdown => program # "running"
    /\ proc \in {"drain", "lastflush", "done"} => shutdown
    /\ proc \in {"lastflush", "done"} => accepted \cap queue = {}
    /\ proc = "done" => batch = {}

IInv == /\ TypeOK /\ ChanInv /\ Watched
        /\ CopiesInv /\ AttemptInv /\ DrainInv /\ NoSilentLoss /\ CleanupKeepsLogs

-----------------------------------------------------------------------------
\* The session.

\* A step of the session keeps its variables in their types.
LEMMA SessionType == SessionTypeOK /\ SessionNext => SessionTypeOK'
<1> SUFFICES ASSUME SessionTypeOK, SessionNext PROVE SessionTypeOK'
  OBVIOUS
<1> USE SessionAssumption DEF SessionTypeOK, Conns
<1>1. CASE ConnLost
  <2>1. mon' \in [Conns -> {"none", "register", "wait", "error", "nil", "done"}]
    BY <1>1 DEF ConnLost, Notified
  <2>2. losses' \in 0..MaxLosses BY <1>1 DEF ConnLost
  <2>3. QED BY <1>1, <2>1, <2>2 DEF ConnLost
<1>2. ASSUME NEW c \in Conns, Register(c) PROVE SessionTypeOK'
  <2>1. conn \in 0..MaxConn OBVIOUS
  <2>2. watch' \in [Conns -> 0..MaxConn] BY <1>2, <2>1 DEF Register
  <2>3. mon' \in [Conns -> {"none", "register", "wait", "error", "nil", "done"}]
    BY <1>2 DEF Register
  <2>4. QED BY <1>2, <2>2, <2>3 DEF Register
<1>3. ASSUME NEW c \in Conns, Signal(c) \/ Return(c) PROVE SessionTypeOK'
  <2>1. mon' \in [Conns -> {"none", "register", "wait", "error", "nil", "done"}]
    BY <1>3 DEF Signal, Return
  <2>2. QED BY <1>3, <2>1 DEF Signal, Return
<1>4. CASE TakeSignal
  BY <1>4 DEF TakeSignal
<1>5. CASE Dial
  <2>1. conn' \in Conns /\ mon' \in [Conns -> {"none", "register", "wait", "error", "nil", "done"}]
    BY <1>5 DEF Dial, Notified
  <2>2. QED BY <1>5, <2>1 DEF Dial
<1>6. CASE RecreateFails
  <2>1. mon' \in [Conns -> {"none", "register", "wait", "error", "nil", "done"}]
    BY <1>6 DEF RecreateFails, Notified
  <2>2. faults' \in 0..MaxFaults BY <1>6 DEF RecreateFails
  <2>3. QED BY <1>6, <2>1, <2>2 DEF RecreateFails
<1>7. CASE Recreated
  BY <1>7 DEF Recreated
<1>8. ASSUME NEW q \in Queues, Recreate(q) PROVE SessionTypeOK'
  BY <1>8 DEF Recreate
<1>9. QED BY <1>1, <1>2, <1>3, <1>4, <1>5, <1>6, <1>7, <1>8 DEF SessionNext, SessionStep

\* A step of the session leaves no channel of an older connection in the map.
LEMMA SessionChan == SessionTypeOK /\ ChanInv /\ SessionNext => ChanInv'
<1> SUFFICES ASSUME SessionTypeOK, ChanInv, SessionNext PROVE ChanInv'
  OBVIOUS
<1> USE DEF ChanInv, SessionTypeOK
<1>1. CASE ConnLost BY <1>1 DEF ConnLost
<1>2. ASSUME NEW c \in Conns, Register(c) \/ Signal(c) \/ Return(c) PROVE ChanInv'
  BY <1>2 DEF Register, Signal, Return
<1>3. CASE TakeSignal \/ RecreateFails BY <1>3 DEF TakeSignal, RecreateFails
<1>4. CASE Dial BY <1>4 DEF Dial
<1>5. CASE Recreated BY <1>5 DEF Recreated
<1>6. ASSUME NEW q \in Queues, Recreate(q) PROVE ChanInv'
  BY <1>6 DEF Recreate
<1>7. QED BY <1>1, <1>2, <1>3, <1>4, <1>5, <1>6 DEF SessionNext, SessionStep

\* A step of the session leaves no open connection unwatched.
LEMMA SessionWatch == SessionTypeOK /\ Watched /\ SessionNext => Watched'
<1> SUFFICES ASSUME SessionTypeOK, Watched, SessionNext PROVE Watched'
  OBVIOUS
<1> USE DEF Watched, SessionTypeOK
<1>1. CASE ConnLost \/ TakeSignal \/ Dial \/ RecreateFails
  BY <1>1 DEF ConnLost, TakeSignal, Dial, RecreateFails
<1>2. ASSUME NEW c \in Conns, Register(c) PROVE Watched'
  BY <1>2 DEF Register
<1>3. ASSUME NEW c \in Conns, Signal(c) PROVE Watched'
  BY <1>3 DEF Signal
<1>4. ASSUME NEW c \in Conns, Return(c) PROVE Watched'
  BY <1>4 DEF Return
<1>5. CASE Recreated
  <2>1. mon'[conn] = "register" /\ conn \in Conns BY <1>5 DEF Recreated
  <2>2. QED BY <2>1
<1>6. ASSUME NEW q \in Queues, Recreate(q) PROVE Watched'
  BY <1>6 DEF Recreate
<1>7. QED BY <1>1, <1>2, <1>3, <1>4, <1>5, <1>6 DEF SessionNext, SessionStep

-----------------------------------------------------------------------------
\* The pipeline.

\* The part of TypeOK that is about the pipeline.
LoggerTypeOK ==
    /\ program \in {"running", "cleanup", "exited", "killed"} /\ shutdown \in BOOLEAN
    /\ queue \subseteq Messages /\ dropped \subseteq Messages
    /\ proc \in {"collect", "flush", "drain", "lastflush", "done"}
    /\ batch \subseteq Messages /\ unsent \subseteq batch
    /\ failed \in BOOLEAN /\ attempt \in 0..MaxRetries
    /\ sent \in [Messages -> Nat]
    /\ lost \subseteq Messages /\ accepted \subseteq Messages

\* The numbers an attempt starts from.
LEMMA One == 0 \in 0..MaxRetries /\ 1 \in 0..MaxRetries
BY LoggerAssumption

\* A step of the pipeline keeps its variables in their types.
LEMMA LoggerType == LoggerTypeOK /\ LoggerStep => LoggerTypeOK'
<1> SUFFICES ASSUME LoggerTypeOK, LoggerStep PROVE LoggerTypeOK'
  OBVIOUS
<1> USE LoggerAssumption DEF LoggerTypeOK, InFlush
<1>1. ASSUME NEW m \in Messages, SendToLogQueue(m) PROVE LoggerTypeOK'
  BY <1>1 DEF SendToLogQueue
<1>2. ASSUME NEW m \in Messages, Collect(m) PROVE LoggerTypeOK'
  <2>1. batch' \subseteq Messages /\ queue' \subseteq Messages BY <1>2 DEF Collect
  <2>2. CASE Flush(batch', "flush")
    <3>1. unsent' = batch' /\ attempt' \in 0..MaxRetries BY <2>2, One DEF Flush
    <3>2. QED BY <1>2, <2>1, <2>2, <3>1 DEF Collect, Flush
  <2>3. CASE UNCHANGED <<proc, unsent, failed, attempt>>
    <3>1. unsent' \subseteq batch' BY <1>2, <2>3 DEF Collect
    <3>2. QED BY <1>2, <2>1, <2>3, <3>1 DEF Collect
  <2>4. QED BY <1>2, <2>2, <2>3 DEF Collect
<1>3. CASE TimerFires
  <2>1. attempt' \in 0..MaxRetries BY <1>3, One DEF TimerFires, Flush
  <2>2. QED BY <1>3, <2>1 DEF TimerFires, Flush
<1>4. CASE SeeShutdown
  BY <1>4 DEF SeeShutdown
<1>5. ASSUME NEW m \in Messages, Drain(m) PROVE LoggerTypeOK'
  BY <1>5 DEF Drain
<1>6. CASE Drained
  <2>1. CASE batch = {} BY <1>6, <2>1 DEF Drained
  <2>2. CASE batch # {}
    <3>1. attempt' \in 0..MaxRetries BY <1>6, <2>2, One DEF Drained, Flush
    <3>2. QED BY <1>6, <2>2, <3>1 DEF Drained, Flush
  <2>3. QED BY <2>1, <2>2
<1>7. ASSUME NEW m \in Messages, SendOne(m) PROVE LoggerTypeOK'
  <2>1. sent' \in [Messages -> Nat] BY <1>7 DEF SendOne
  <2>2. failed' \in BOOLEAN /\ unsent' \subseteq batch' BY <1>7 DEF SendOne
  <2>3. QED BY <1>7, <2>1, <2>2 DEF SendOne
<1>8. CASE AttemptEnds
  <2>1. CASE failed /\ attempt < MaxRetries
    <3>1. attempt' \in 0..MaxRetries BY <1>8, <2>1 DEF AttemptEnds
    <3>2. QED BY <1>8, <2>1, <3>1 DEF AttemptEnds
  <2>2. CASE ~(failed /\ attempt < MaxRetries)
    <3>1. attempt' \in 0..MaxRetries BY <1>8, <2>2, One DEF AttemptEnds, Flushed
    <3>2. lost' \subseteq Messages BY <1>8, <2>2 DEF AttemptEnds
    <3>3. QED BY <1>8, <2>2, <3>1, <3>2 DEF AttemptEnds, Flushed
  <2>3. QED BY <2>1, <2>2
<1>9. CASE StopLogger \/ Exit \/ Kill
  BY <1>9 DEF StopLogger, Exit, Kill, UnchangedPipeline
<1>10. QED BY <1>1, <1>2, <1>3, <1>4, <1>5, <1>6, <1>7, <1>8, <1>9 DEF LoggerStep, ProcStep

\* No step sends a message once more than there are attempts.
LEMMA CopiesStep == LoggerTypeOK /\ CopiesInv /\ LoggerStep => CopiesInv'
<1> SUFFICES ASSUME LoggerTypeOK /\ CopiesInv, LoggerStep PROVE CopiesInv'
  OBVIOUS
<1> USE LoggerAssumption DEF LoggerTypeOK, CopiesInv, BoundedCopies, InFlush, Fresh
<1>1. ASSUME NEW m \in Messages, SendToLogQueue(m) PROVE CopiesInv'
  BY <1>1 DEF SendToLogQueue
<1>2. ASSUME NEW m \in Messages, Collect(m) PROVE CopiesInv'
  BY <1>2 DEF Collect, Flush
<1>3. CASE TimerFires
  BY <1>3 DEF TimerFires, Flush
<1>4. CASE SeeShutdown
  BY <1>4 DEF SeeShutdown
<1>5. ASSUME NEW m \in Messages, Drain(m) PROVE CopiesInv'
  BY <1>5 DEF Drain
<1>6. CASE Drained
  BY <1>6 DEF Drained, Flush
<1>7. ASSUME NEW m \in Messages, SendOne(m) PROVE CopiesInv'
  BY <1>7 DEF SendOne
<1>8. CASE AttemptEnds
  BY <1>8 DEF AttemptEnds, Flushed
<1>9. CASE StopLogger \/ Exit \/ Kill
  BY <1>9 DEF StopLogger, Exit, Kill, UnchangedPipeline
<1>10. QED BY <1>1, <1>2, <1>3, <1>4, <1>5, <1>6, <1>7, <1>8, <1>9 DEF LoggerStep, ProcStep

\* An attempt without a failure sent all it has been through.
LEMMA AttemptStep == LoggerTypeOK /\ AttemptInv /\ LoggerStep => AttemptInv'
<1> SUFFICES ASSUME LoggerTypeOK /\ AttemptInv, LoggerStep PROVE AttemptInv'
  OBVIOUS
<1> USE DEF LoggerTypeOK, AttemptInv, InFlush
<1>1. ASSUME NEW m \in Messages, SendToLogQueue(m) PROVE AttemptInv'
  BY <1>1 DEF SendToLogQueue
<1>2. ASSUME NEW m \in Messages, Collect(m) PROVE AttemptInv'
  BY <1>2 DEF Collect, Flush
<1>3. CASE TimerFires
  BY <1>3 DEF TimerFires, Flush
<1>4. CASE SeeShutdown
  BY <1>4 DEF SeeShutdown
<1>5. ASSUME NEW m \in Messages, Drain(m) PROVE AttemptInv'
  BY <1>5 DEF Drain
<1>6. CASE Drained
  BY <1>6 DEF Drained, Flush
<1>7. ASSUME NEW m \in Messages, SendOne(m) PROVE AttemptInv'
  BY <1>7 DEF SendOne
<1>8. CASE AttemptEnds
  BY <1>8 DEF AttemptEnds, Flushed
<1>9. CASE StopLogger \/ Exit \/ Kill
  BY <1>9 DEF StopLogger, Exit, Kill, UnchangedPipeline
<1>10. QED BY <1>1, <1>2, <1>3, <1>4, <1>5, <1>6, <1>7, <1>8, <1>9 DEF LoggerStep, ProcStep

\* After the drain no message enters the queue that was logged before Cleanup.
LEMMA DrainStep == LoggerTypeOK /\ NoSilentLoss /\ DrainInv /\ LoggerStep => DrainInv'
<1> SUFFICES ASSUME LoggerTypeOK /\ NoSilentLoss /\ DrainInv, LoggerStep PROVE DrainInv'
  OBVIOUS
<1> USE DEF LoggerTypeOK, DrainInv, InFlush, Alive
<1>1. ASSUME NEW m \in Messages, SendToLogQueue(m) PROVE DrainInv'
  BY <1>1 DEF SendToLogQueue, NoSilentLoss, Settled, Fresh
<1>2. ASSUME NEW m \in Messages, Collect(m) PROVE DrainInv'
  BY <1>2 DEF Collect, Flush
<1>3. CASE TimerFires
  BY <1>3 DEF TimerFires, Flush
<1>4. CASE SeeShutdown
  BY <1>4 DEF SeeShutdown
<1>5. ASSUME NEW m \in Messages, Drain(m) PROVE DrainInv'
  BY <1>5 DEF Drain
<1>6. CASE Drained
  BY <1>6 DEF Drained, Flush
<1>7. ASSUME NEW m \in Messages, SendOne(m) PROVE DrainInv'
  BY <1>7 DEF SendOne
<1>8. CASE AttemptEnds
  BY <1>8 DEF AttemptEnds, Flushed
<1>9. CASE StopLogger \/ Exit \/ Kill
  BY <1>9 DEF StopLogger, Exit, Kill, UnchangedPipeline
<1>10. QED BY <1>1, <1>2, <1>3, <1>4, <1>5, <1>6, <1>7, <1>8, <1>9 DEF LoggerStep, ProcStep

\* No step loses a message in silence.
LEMMA SilentStep == LoggerTypeOK /\ AttemptInv /\ NoSilentLoss /\ LoggerStep => NoSilentLoss'
<1> SUFFICES ASSUME LoggerTypeOK /\ AttemptInv /\ NoSilentLoss, LoggerStep PROVE NoSilentLoss'
  OBVIOUS
<1> USE DEF LoggerTypeOK, AttemptInv, NoSilentLoss, Settled, InFlush
<1>1. ASSUME NEW m \in Messages, SendToLogQueue(m) PROVE NoSilentLoss'
  BY <1>1 DEF SendToLogQueue
<1>2. ASSUME NEW m \in Messages, Collect(m) PROVE NoSilentLoss'
  BY <1>2 DEF Collect, Flush
<1>3. CASE TimerFires
  BY <1>3 DEF TimerFires, Flush
<1>4. CASE SeeShutdown
  BY <1>4 DEF SeeShutdown
<1>5. ASSUME NEW m \in Messages, Drain(m) PROVE NoSilentLoss'
  BY <1>5 DEF Drain
<1>6. CASE Drained
  BY <1>6 DEF Drained, Flush
<1>7. ASSUME NEW m \in Messages, SendOne(m) PROVE NoSilentLoss'
  BY <1>7 DEF SendOne
<1>8. CASE AttemptEnds
  BY <1>8 DEF AttemptEnds, Flushed
<1>9. CASE StopLogger \/ Exit \/ Kill
  BY <1>9 DEF StopLogger, Exit, Kill, UnchangedPipeline
<1>10. QED BY <1>1, <1>2, <1>3, <1>4, <1>5, <1>6, <1>7, <1>8, <1>9 DEF LoggerStep, ProcStep

\* The program does not end by itself before its messages are settled.
LEMMA CleanupStep == LoggerTypeOK /\ DrainInv /\ NoSilentLoss /\ CleanupKeepsLogs /\ LoggerStep => CleanupKeepsLogs'
<1> SUFFICES ASSUME LoggerTypeOK /\ DrainInv /\ NoSilentLoss /\ CleanupKeepsLogs, LoggerStep PROVE CleanupKeepsLogs'
  OBVIOUS
<1> USE DEF LoggerTypeOK, DrainInv, NoSilentLoss, CleanupKeepsLogs, Settled, InFlush, Alive
<1>1. ASSUME NEW m \in Messages, SendToLogQueue(m) PROVE CleanupKeepsLogs'
  BY <1>1 DEF SendToLogQueue
<1>2. ASSUME NEW m \in Messages, Collect(m) PROVE CleanupKeepsLogs'
  BY <1>2 DEF Collect, Flush
<1>3. CASE TimerFires
  BY <1>3 DEF TimerFires, Flush
<1>4. CASE SeeShutdown
  BY <1>4 DEF SeeShutdown
<1>5. ASSUME NEW m \in Messages, Drain(m) PROVE CleanupKeepsLogs'
  BY <1>5 DEF Drain
<1>6. CASE Drained
  BY <1>6 DEF Drained, Flush
<1>7. ASSUME NEW m \in Messages, SendOne(m) PROVE CleanupKeepsLogs'
  BY <1>7 DEF SendOne
<1>8. CASE AttemptEnds
  BY <1>8 DEF AttemptEnds, Flushed
<1>9. CASE StopLogger \/ Exit \/ Kill
  BY <1>9 DEF StopLogger, Exit, Kill, UnchangedPipeline
<1>10. QED BY <1>1, <1>2, <1>3, <1>4, <1>5, <1>6, <1>7, <1>8, <1>9 DEF LoggerStep, ProcStep

-----------------------------------------------------------------------------
\* Both together.

LEMMA InitInv == Init => IInv
<1> SUFFICES ASSUME Init PROVE IInv
  OBVIOUS
<1> USE SessionAssumption, LoggerAssumption DEF Init, SessionInit, Conns
<1>1. TypeOK
  <2>1. SessionTypeOK
    <3>1. 1 \in Conns /\ 0 \in 0..MaxConn /\ 1 \in 0..MaxConn
          /\ 0 \in 0..MaxLosses /\ 0 \in 0..MaxFaults
      OBVIOUS
    <3>2. mon \in [Conns -> {"none", "register", "wait", "error", "nil", "done"}]
      BY <3>1
    <3>3. chan \in [Queues -> 0..MaxConn] /\ watch \in [Conns -> 0..MaxConn]
      BY <3>1
    <3>4. QED BY <3>1, <3>2, <3>3 DEF SessionTypeOK
  <2>2. LoggerTypeOK BY One DEF LoggerTypeOK
  <2>3. QED BY <2>1, <2>2 DEF TypeOK, LoggerTypeOK
<1>2. ChanInv BY DEF ChanInv
<1>3. Watched BY DEF Watched
<1>4. CopiesInv /\ AttemptInv BY DEF CopiesInv, AttemptInv, InFlush, BoundedCopies
<1>5. DrainInv /\ NoSilentLoss /\ CleanupKeepsLogs
  BY DEF DrainInv, NoSilentLoss, CleanupKeepsLogs
<1>6. QED BY <1>1, <1>2, <1>3, <1>4, <1>5 DEF IInv

\* A session's step leaves the pipeline alone, the pipeline's the session.
LEMMA NextInv == IInv /\ [Next]_vars => IInv'
<1> SUFFICES ASSUME IInv, [Next]_vars PROVE IInv'
  OBVIOUS
<1> USE DEF IInv
<1>1. SessionTypeOK /\ LoggerTypeOK BY DEF TypeOK, LoggerTypeOK
<1>2. CASE LoggerStep /\ UNCHANGED sessionVars
  <2>1. LoggerTypeOK' BY <1>1, <1>2, LoggerType
  <2>2. SessionTypeOK' /\ ChanInv' /\ Watched'
    BY <1>1, <1>2 DEF sessionVars, SessionTypeOK, ChanInv, Watched
  <2>3. CopiesInv' /\ AttemptInv' BY <1>1, <1>2, CopiesStep, AttemptStep
  <2>4. DrainInv' BY <1>1, <1>2, DrainStep
  <2>5. NoSilentLoss' /\ CleanupKeepsLogs' BY <1>1, <1>2, SilentStep, CleanupStep
  <2>6. QED BY <2>1, <2>2, <2>3, <2>4, <2>5 DEF TypeOK, LoggerTypeOK
<1>3. CASE SessionNext /\ UNCHANGED loggerVars
  <2>1. SessionTypeOK' /\ ChanInv' /\ Watched'
    BY <1>1, <1>3, SessionType, SessionChan, SessionWatch
  <2>2. LoggerTypeOK' BY <1>1, <1>3 DEF loggerVars, LoggerTypeOK
  <2>3. CopiesInv' /\ AttemptInv'
    BY <1>3 DEF loggerVars, CopiesInv, AttemptInv, BoundedCopies, InFlush
  <2>4. DrainInv' /\ NoSilentLoss' /\ CleanupKeepsLogs'
    BY <1>3 DEF loggerVars, DrainInv, NoSilentLoss, CleanupKeepsLogs, Settled
  <2>5. QED BY <2>1, <2>2, <2>3, <2>4 DEF TypeOK, LoggerTypeOK
<1>4. CASE UNCHANGED vars
  <2>1. UNCHANGED sessionVars /\ UNCHANGED loggerVars BY <1>4 DEF vars
  <2>2. SessionTypeOK' /\ ChanInv' /\ Watched'
    BY <1>1, <2>1 DEF sessionVars, SessionTypeOK, ChanInv, Watched
  <2>3. LoggerTypeOK' BY <1>1, <2>1 DEF loggerVars, LoggerTypeOK
  <2>4. CopiesInv' /\ AttemptInv'
    BY <2>1 DEF loggerVars, CopiesInv, AttemptInv, BoundedCopies, InFlush
  <2>5. DrainInv' /\ NoSilentLoss' /\ CleanupKeepsLogs'
    BY <2>1 DEF loggerVars, DrainInv, NoSilentLoss, CleanupKeepsLogs, Settled
  <2>6. QED BY <2>2, <2>3, <2>4, <2>5 DEF TypeOK, LoggerTypeOK
<1>5. QED BY <1>2, <1>3, <1>4 DEF Next, SessionNext

LEMMA Invariant == Spec => []IInv
<1>1. QED BY InitInv, NextInv, PTL DEF Spec

\* TypeOK: the session and the pipeline keep their types.
THEOREM PipelineTypeCorrect == Spec => []TypeOK
<1>1. IInv => TypeOK BY DEF IInv
<1>2. QED BY <1>1, Invariant, PTL

\* NoSilentLoss: whatever breaks, a message the queue took is waiting, was sent,
\* or was reported as lost.
THEOREM NothingLostInSilence == Spec => []NoSilentLoss
<1>1. IInv => NoSilentLoss BY DEF IInv
<1>2. QED BY <1>1, Invariant, PTL

\* CleanupKeepsLogs: a program that ends by itself leaves no message it had
\* queued before Cleanup neither sent nor reported.
THEOREM CleanupIsComplete == Spec => []CleanupKeepsLogs
<1>1. IInv => CleanupKeepsLogs BY DEF IInv
<1>2. QED BY <1>1, Invariant, PTL

\* BoundedCopies: no message is sent more than maxRetries times.
THEOREM CopiesAreBounded == Spec => []BoundedCopies
<1>1. IInv => BoundedCopies BY DEF IInv, CopiesInv
<1>2. QED BY <1>1, Invariant, PTL

\* NoStaleChannel: however often it breaks, between reconnections the session
\* has no channel of a connection that is gone.
THEOREM NoChannelIsStale == Spec => []NoStaleChannel
<1>1. IInv => NoStaleChannel BY DEF IInv, ChanInv, NoStaleChannel
<1>2. QED BY <1>1, Invariant, PTL

\* Watched: an open connection that is not being replaced has a monitor.
THEOREM ConnectionIsWatched == Spec => []Watched
<1>1. IInv => Watched BY DEF IInv
<1>2. QED BY <1>1, Invariant, PTL

\* The account of the log is complete in every state.
THEOREM LogIsAccounted == Spec => []LogsAccounted
<1>1. TypeOK /\ NoSilentLoss /\ CleanupKeepsLogs /\ BoundedCopies => LogsAccounted
  BY DEF LogsAccounted
<1>2. QED BY <1>1, PipelineTypeCorrect, NothingLostInSilence, CleanupIsComplete, CopiesAreBounded, PTL

\* The session under the pipeline works, or a repair of it is under way.
THEOREM SessionIsSound == Spec => []SessionSound
<1>1. NoStaleChannel /\ Watched => SessionSound BY DEF SessionSound
<1>2. QED BY <1>1, NoChannelIsStale, ConnectionIsWatched, PTL
===============================================================================
