SPECIFICATION MCSpec
CONSTANTS
    r1 = r1
    r2 = r2
    r3 = r3
    r4 = r4
    r5 = r5
    e1 = e1
    e2 = e2
    k1 = k1
    k2 = k2
    NoRow = NoRow
    Requests <- MCRequests
    Events = {e1, e2}
    Keys = {k1, k2}
    EventOf <- MCEventOf
    KeyOf <- MCKeyOf
    Invalid = {r5}
    MaxPgFaults = 2
    MaxRedisFaults = 2
    MaxCrashes = 1
    MaxExpiries = 1
    EventId <- MCEventId
    BatchSize = 2
    MaxLapses = 1
    MaxTrouble = 2
INVARIANTS
    TypeOK
    AcceptedIsQueued
    QueuedIsStored
    QueuedOnce
    HandledOnce
    ReadIsHandled
PROPERTIES
    FailureFreesKey
    PromiseKept
\* Clients stop posting.
CHECK_DEADLOCK FALSE
