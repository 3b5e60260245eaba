SPECIFICATION Spec
CONSTANTS
    NoEvent = NoEvent
    I64Max = 3
    t1 = t1
    t2 = t2
    Malformed = Malformed
    Consumer = Consumer
    NoWindow = NoWindow
    Txs = {t1}
    Events <- MCEvents1
    Logs <- FaultLogs
    BatchSize = 2
    TaskLimit = 1
    MaxFaults = 1
    MaxCrashes = 1
    LongOutage = TRUE
    ExpectedSources = 3
INVARIANTS
    IInv
    VerdictJustified
    IncidentJustified
    RowsReferenceTransactions
\* The stream is finite.
CHECK_DEADLOCK FALSE
