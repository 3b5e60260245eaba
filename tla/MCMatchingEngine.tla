--------------------------- MODULE MCMatchingEngine ---------------------------
(***************************************************************************)
(* Small instances of MatchingEngine: the events of one transaction (t1),  *)
(* of a second one (t2), and the streams they may arrive in.               *)
(***************************************************************************)
EXTENDS UndisturbedEngine

CONSTANTS t1, t2

Ev(id, tx, source, amount, fee) ==
    [id |-> id, tx |-> tx, source |-> source, amount |-> amount, fee |-> fee, currency |-> "UZS"]

\* A transaction of 3 with a gateway fee of 1; g1x and b1x are a gateway and
\* a bank that report something else, m1d the merchant's second event.
m1  == Ev("m1", t1, "merchant", 3, 0)
m1d == Ev("m1d", t1, "merchant", 3, 0)
g1  == Ev("g1", t1, "gateway", 3, 1)
g1x == Ev("g1x", t1, "gateway", 2, 1)
b1  == Ev("b1", t1, "bank", 2, 0)
b1x == Ev("b1x", t1, "bank", 3, 0)
m2  == Ev("m2", t2, "merchant", 1, 0)
g2  == Ev("g2", t2, "gateway", 1, 0)

MCEvents1 == {m1, m1d, g1, g1x, b1, b1x}
MCEvents2 == MCEvents1 \cup {m2, g2}

\* All three sources, good and bad; a duplicate before the end; a retry of the
\* same event and an entry without a payload; two transactions at once.
RaceLogs == {<<m1, g1, b1>>, <<b1x, g1x, m1>>, <<m1, m1d, g1>>, <<m1, m1, Malformed>>,
             <<m1, m2, g1>>}

FaultLogs == {<<m1, g1, b1x>>, <<m1, m1d>>}

LateDuplicateLogs == {<<m1, g1, b1, m1d>>}

RetryLogs == {<<m1>>}

IdempotentLogs == {<<b1x, g1x, m1>>}

\* The process may die while it works on these: every event has an id of its
\* own and no source sends a second one.
CrashLogs == {<<m1, g1x, b1x>>, <<b1, g1, Malformed, m1>>}

SerialLogs ==
    {<<m1, g1, b1, m1d>>, <<b1x, g1x, m1>>, <<m1, m1d, g1>>, <<m1, m1d>>} \cup CrashLogs

-----------------------------------------------------------------------------
SerialFairSpec ==
    /\ SerialSpec
    /\ WF_vars((Consume \/ Conclude(Consumer)) /\ ~Overlap')
    /\ \A tx \in Txs :
         /\ WF_vars(Take(tx) \/ Conclude(tx))
         /\ WF_vars((Pop(tx) \/ Spawn(tx)) /\ ~Overlap')
         /\ SF_vars(\E due \in SUBSET Txs : tx \in due /\ Scan(due))

=============================================================================
