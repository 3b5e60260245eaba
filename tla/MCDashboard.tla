----------------------------- MODULE MCDashboard ------------------------------
(***************************************************************************)
(* Small instances of Dashboard.                                           *)
(***************************************************************************)
EXTENDS Dashboard

CONSTANT MaxEvents \* bound: what happens to an open page, see Event

VARIABLE events

\* An incident is raised, escalated or taken care of elsewhere, a transaction
\* makes progress, a call fails, the socket closes.
Event ==
    \/ Change
    \/ \E i \in Incidents : Elsewhere(i)
    \/ \E tx \in Txs : Progress(tx)
    \/ faults' # faults
    \/ drops' # drops

MCInit == Init /\ events = 0

\* Before the page is opened incident 1 may be raised and nothing else happens.
\* Incidents and transactions only share the calls, and a behaviour has the
\* one or the other.
MCNext ==
    /\ Next
    /\ events' = IF Event /\ socket # "none" THEN events + 1 ELSE events
    /\ events' <= MaxEvents
    /\ Event /\ socket = "none" => Board!Raise(1)
    /\ \/ \A i \in Incidents : status'[i] = "none"
       \/ \A tx \in Txs : flow'[tx] = "unseen"

MCSpec == MCInit /\ [][MCNext]_<<vars, events>> /\ Fairness

=============================================================================
