SPECIFICATION FairSpec
CONSTANTS
    NoEvent = NoEvent
    I64Max = 3
    t1 = t1
    t2 = t2
    Malformed = Malformed
    Consumer = Consumer
    NoWindow = NoWindow
    Txs = {t1}
    Events <- MCEvents1
    Logs <- RetryLogs
    BatchSize = 2
    TaskLimit = 1
    MaxFaults = 1
    MaxCrashes = 0
    LongOutage = FALSE
    ExpectedSources = 3
PROPERTIES
    StartedIsAcked
\* The stream is finite.
CHECK_DEADLOCK FALSE
