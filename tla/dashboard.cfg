SPECIFICATION MCSpec
CONSTANTS
    None = None
    Incidents = {1, 2}
    Txs = {t1}
    PageSize = 1
    Connections = 2
    MaxFaults = 1
    MaxDrops = 1
    MaxEvents = 2
INVARIANTS
    TypeOK
    ListIsCurrent
    MatchesAreShown
PROPERTIES
    ScreenCatchesUp
    ButtonsComeBack
\* The matcher may have nothing to do.
CHECK_DEADLOCK FALSE
