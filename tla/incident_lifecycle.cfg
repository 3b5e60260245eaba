SPECIFICATION FairSpec
CONSTANTS
    Incidents = {1, 2}
    TaskLimit = 1
    MaxFaults = 2
    MaxCrashes = 1
INVARIANTS
    TypeOK
    StagesAgree
PROPERTIES
    HandledIsLeftAlone
    OpenIsEscalated
    KeepsBoard
\* Every incident may be resolved.
CHECK_DEADLOCK FALSE
