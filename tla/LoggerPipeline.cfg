\* Messages, a shutdown, a kill, and a session that breaks and comes back.
CONSTANTS
    log = log
    out = out
    m1 = m1
    m2 = m2
    Queues <- BothQueues
    MaxConn = 5
    MaxLosses = 2
    MaxFaults = 1
    Messages <- TwoMessages
    LOG <- log
    QueueCap = 1
    BatchSize = 2
    MaxRetries = 2
    BusyLosses = 1
SPECIFICATION Spec
INVARIANTS LogsAccounted SessionSound
PROPERTIES CleanupEnds AcceptedIsSettled NoticedLossRedialled
\* The process ends.
CHECK_DEADLOCK FALSE
