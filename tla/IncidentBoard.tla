---------------------------- MODULE IncidentBoard -----------------------------
(***************************************************************************)
(* What everybody outside the matcher sees of incidents: the incidents     *)
(* table and the messages on the channel reconciliation.events.  How the   *)
(* matcher gets there is left open; IncidentLifecycle implements this      *)
(* specification and Dashboard builds on it.                               *)
(***************************************************************************)
EXTENDS Integers

CONSTANTS Incidents  \* incident ids

VARIABLES status,   \* incidents.status, "none" before the INSERT
          severity, \* incidents.severity
          told      \* the messages published

boardVars == <<status, severity, told>>

\* The two PubsubEvents about incidents.
Messages == [id : Incidents, type : {"incident_created", "incident_updated"}]

Created(i) == [id |-> i, type |-> "incident_created"]
Updated(i) == [id |-> i, type |-> "incident_updated"]

Init ==
    /\ status = [i \in Incidents |-> "none"]
    /\ severity = [i \in Incidents |-> 1]
    /\ told = {}

Raise(i) ==
    /\ status[i] = "none"
    /\ status' = [status EXCEPT ![i] = "open"]
    /\ UNCHANGED <<severity, told>>

\* Only an open incident is escalated, and once.
Escalate(i) ==
    /\ status[i] = "open"
    /\ severity[i] = 1
    /\ severity' = [severity EXCEPT ![i] = 2]
    /\ UNCHANGED <<status, told>>

\* A message tells what is in the table already.
Tell(m) ==
    /\ status[m.id] # "none"
    /\ m.type = "incident_updated" => severity[m.id] = 2
    /\ told' = told \cup {m}
    /\ UNCHANGED <<status, severity>>

Acknowledge(i) ==
    /\ status[i] = "open"
    /\ status' = [status EXCEPT ![i] = "acknowledged"]
    /\ UNCHANGED <<severity, told>>

Resolve(i) ==
    /\ status[i] \in {"open", "acknowledged"}
    /\ status' = [status EXCEPT ![i] = "resolved"]
    /\ UNCHANGED <<severity, told>>

Next == \/ \E i \in Incidents : Raise(i) \/ Escalate(i) \/ Acknowledge(i) \/ Resolve(i)
        \/ \E m \in Messages : Tell(m)

Spec == Init /\ [][Next]_boardVars

=============================================================================
