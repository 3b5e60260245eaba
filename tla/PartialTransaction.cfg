SPECIFICATION Spec
CONSTANTS
    NoEvent = NoEvent
    I64Max = 3
    Currencies = {"UZS", "USD"}
INVARIANTS
    TypeOK
    MatchedIffBooksBalance
    RowsExplainVerdict
PROPERTIES
    RowsNeverRecant
\* A full window receives nothing more.
CHECK_DEADLOCK FALSE
