SPECIFICATION SerialFairSpec
CONSTANTS
    NoEvent = NoEvent
    I64Max = 3
    t1 = t1
    t2 = t2
    Malformed = Malformed
    Consumer = Consumer
    NoWindow = NoWindow
    Txs = {t1}
    Events <- MCEvents1
    Logs <- SerialLogs
    BatchSize = 2
    TaskLimit = 1
    MaxFaults = 0
    MaxCrashes = 2
    LongOutage = FALSE
    ExpectedSources = 3
INVARIANTS
    AckedSurvivesCrashes
    CountersAgree
    StoresAgree
    StatusExplained
PROPERTIES
    JudgedForGood
    EveryWindowCloses
\* The stream is finite.
CHECK_DEADLOCK FALSE
