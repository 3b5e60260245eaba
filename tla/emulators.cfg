SPECIFICATION MCSpec
CONSTANTS
    NoEvent = NoEvent
    I64Max = 750
    NoTx = NoTx
    Currency = "UZS"
    t1 = t1
    t2 = t2
    Txs = {t1, t2}
    Amounts = {0, 500}
    RateUnit = 10
    GatewayFeePct = 5
    BankFeePct = 2
    MaxNoise = 2
SYMMETRY MCSymmetry
INVARIANTS
    TypeOK
    CopiesAgree
    HonestBooksMatch
    OneLieIsFound
\* The scenario ends.
CHECK_DEADLOCK FALSE
