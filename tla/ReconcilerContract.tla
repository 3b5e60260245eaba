-------------------------- MODULE ReconcilerContract --------------------------
(***************************************************************************)
(* What the matcher promises to whoever reads its tables, with no windows, *)
(* no deadlines, no Redis and no tasks: it accepts an event id once, and   *)
(* everything it writes about a transaction rests on events accepted for   *)
(* that transaction.                                                       *)
(***************************************************************************)
EXTENDS Reconciliation

CONSTANTS Txs, Events, ExpectedSources

VARIABLES accepted,  \* events accepted so far
          status,    \* transactions.overall_status, "none" without a row
          details,   \* reconciliation_details of each transaction
          incidents, \* incidents in the order of their ids
          scheduled  \* incidents due for escalation

vars == <<accepted, status, details, incidents, scheduled>>

Init ==
    /\ accepted = {}
    /\ status = [tx \in Txs |-> "none"]
    /\ details = [tx \in Txs |-> <<>>]
    /\ incidents = <<>>
    /\ scheduled = {}

\* An event is accepted unless its id was.
Accept(e) ==
    /\ \A f \in accepted : f.id # e.id
    /\ accepted' = accepted \cup {e}
    /\ UNCHANGED <<status, details, incidents, scheduled>>

\* A status is written on the strength of a window of accepted events.
Judge(tx, w, st) ==
    /\ Justified(st, w, tx, accepted, ExpectedSources)
    /\ status' = [status EXCEPT ![tx] = st]
    /\ UNCHANGED <<accepted, details, incidents, scheduled>>

\* A row is what build_details says of such a window; the transaction's row
\* is there already (foreign key).
Report(tx, w, s) ==
    /\ status[tx] # "none"
    /\ Genuine(w, tx, accepted)
    /\ s \in SourcesSeen(w)
    /\ details' = [details EXCEPT ![tx] = PutRow(@, s, BuildDetails(w)[s])]
    /\ UNCHANGED <<accepted, status, incidents, scheduled>>

\* An incident is appended with its evidence (foreign key as above).
Raise(tx, w, kind) ==
    /\ status[tx] # "none"
    /\ Evidence(kind, w, tx, accepted, ExpectedSources)
    /\ incidents' = Append(incidents, [tx |-> tx, kind |-> kind, window |-> w])
    /\ UNCHANGED <<accepted, status, details, scheduled>>

\* Only an incident that was created is scheduled for escalation.
Schedule(i) ==
    /\ i \in DOMAIN incidents
    /\ scheduled' = scheduled \cup {i}
    /\ UNCHANGED <<accepted, status, details, incidents>>

Next ==
    \/ \E e \in Events : Accept(e)
    \/ \E tx \in Txs : \E w \in Slots(EventsOf(tx, accepted)) :
         \/ \E st \in Statuses \ {"none"} : Judge(tx, w, st)
         \/ \E s \in Source : Report(tx, w, s)
         \/ \E kind \in IncidentKinds : Raise(tx, w, kind)
    \/ \E i \in DOMAIN incidents : Schedule(i)

Spec == Init /\ [][Next]_vars

=============================================================================
