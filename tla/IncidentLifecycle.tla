-------------------------- MODULE IncidentLifecycle ---------------------------
(***************************************************************************)
(* An incident after it was found: persist_incident creates it and         *)
(* schedules its escalation, the matcher's timer escalates it when nobody  *)
(* took care of it in time, and operators acknowledge and resolve it       *)
(* through the API gateway.  The matcher, the timer's tasks and the        *)
(* gateway share the incidents table; the schedule is a Redis ZSET.        *)
(*                                                                         *)
(* Every incident the matcher creates has severity 1 (model.rs,            *)
(* matcher.rs).                                                            *)
(***************************************************************************)
EXTENDS Integers, FiniteSets

CONSTANTS Incidents,  \* incident ids
          TaskLimit,  \* escalation tasks running at once
          MaxFaults,  \* bound: failing calls
          MaxCrashes  \* bound: crashes of the matcher

ASSUME LifecycleAssumption ==
    /\ TaskLimit \in Nat \ {0}
    /\ MaxFaults \in Nat
    /\ MaxCrashes \in Nat

VARIABLES status,    \* incidents.status, "none" before the INSERT
          severity,  \* incidents.severity
          creating,  \* inserted by persist_incident, not yet scheduled
          unsaid,    \* scheduled by persist_incident, IncidentCreated not yet published
          scheduled, \* Redis: incident_escalations
          escan,     \* timer: members ZRANGEBYSCORE returned, not yet removed
          epopped,   \* timer: incidents popped, no task spawned yet
          task,      \* the next call of the escalation task of an incident
          introduced,\* incidents an IncidentCreated message was published for
          announced, \* incidents an IncidentUpdated message was published for
          faults, crashes

tableVars == <<status, severity>>
createVars == <<creating, unsaid>>
channelVars == <<introduced, announced>>
timerVars == <<escan, epopped, task>>
budgetVars == <<faults, crashes>>
vars == <<tableVars, createVars, scheduled, timerVars, channelVars, budgetVars>>

Init ==
    /\ status = [i \in Incidents |-> "none"]
    /\ severity = [i \in Incidents |-> 1]
    /\ creating = {}
    /\ unsaid = {}
    /\ scheduled = {}
    /\ escan = {}
    /\ epopped = {}
    /\ task = [i \in Incidents |-> "idle"]
    /\ introduced = {}
    /\ announced = {}
    /\ faults = 0
    /\ crashes = 0

Fault == faults < MaxFaults /\ faults' = faults + 1 /\ UNCHANGED crashes

-----------------------------------------------------------------------------
(* persist_incident.                                                       *)

Create(i) ==
    /\ status[i] = "none"
    /\ status' = [status EXCEPT ![i] = "open"]
    /\ creating' = creating \cup {i}
    /\ UNCHANGED <<severity, unsaid, scheduled, timerVars, channelVars, budgetVars>>

\* Mutant: the ZADD is forgotten.
ScheduleLost(i) ==
    /\ i \in creating
    /\ creating' = creating \ {i}
    /\ unsaid' = unsaid \cup {i}
    /\ UNCHANGED <<tableVars, scheduled, timerVars, channelVars, budgetVars>>

\* ZADD incident_escalations; a failure ends persist_incident.
Schedule(i) ==
    /\ i \in creating
    /\ creating' = creating \ {i}
    /\ \/ /\ scheduled' = scheduled \cup {i}
          /\ unsaid' = unsaid \cup {i}
          /\ UNCHANGED budgetVars
       \/ /\ scheduled' \in {scheduled, scheduled \cup {i}}
          /\ UNCHANGED unsaid
          /\ Fault
    /\ UNCHANGED <<tableVars, timerVars, channelVars>>

\* PUBLISH IncidentCreated; the timer may have escalated the incident before.
Introduce(i) ==
    /\ i \in unsaid
    /\ unsaid' = unsaid \ {i}
    /\ \/ introduced' = introduced \cup {i} /\ UNCHANGED budgetVars
       \/ introduced' \in {introduced, introduced \cup {i}} /\ Fault
    /\ UNCHANGED <<tableVars, creating, scheduled, timerVars, announced>>

-----------------------------------------------------------------------------
(* process_expired_escalations.                                            *)

Running == {i \in Incidents : task[i] # "idle"}

\* The round before is over: the timer joins its tasks.
Scan(due) ==
    /\ escan = {} /\ epopped = {} /\ Running = {}
    /\ due # {}
    /\ due \subseteq scheduled
    /\ escan' = due
    /\ UNCHANGED <<tableVars, createVars, scheduled, epopped, task, channelVars, budgetVars>>

\* A failed ZREM ends the tick with what was popped.
Pop(i) ==
    /\ i \in escan
    /\ \/ /\ scheduled' = scheduled \ {i}
          /\ escan' = escan \ {i}
          /\ epopped' = epopped \cup ({i} \cap scheduled)
          /\ UNCHANGED budgetVars
       \/ /\ scheduled' \in {scheduled, scheduled \ {i}}
          /\ escan' = {}
          /\ epopped' = {}
          /\ Fault
    /\ UNCHANGED <<tableVars, createVars, task, channelVars>>

Spawn(i) ==
    /\ escan = {}
    /\ i \in epopped
    /\ Cardinality(Running) < TaskLimit
    /\ epopped' = epopped \ {i}
    /\ task' = [task EXCEPT ![i] = "escalate"]
    /\ UNCHANGED <<tableVars, createVars, scheduled, escan, channelVars, budgetVars>>

\* Mutant: UPDATE without the test of the status.
EscalatableAny(i) == status[i] # "none" /\ severity[i] < 2

Escalatable(i) == status[i] = "open" /\ severity[i] < 2

\* Mutant: two levels at once.
EscalatedTwice(i) == IF Escalatable(i) THEN [severity EXCEPT ![i] = @ + 2] ELSE severity

Escalated(i) == IF Escalatable(i) THEN [severity EXCEPT ![i] = 2] ELSE severity

\* Mutant: the message is sent whether or not a row was updated.
AfterEscalateAlways(i) == "announce"

AfterEscalate(i) == IF Escalatable(i) THEN "announce" ELSE "idle"

\* UPDATE incidents ... WHERE status = 'open' AND severity < 2; when it fails
\* the task ends.
Escalate(i) ==
    /\ task[i] = "escalate"
    /\ \/ /\ severity' = Escalated(i)
          /\ task' = [task EXCEPT ![i] = AfterEscalate(i)]
          /\ UNCHANGED budgetVars
       \/ /\ severity' \in {severity, Escalated(i)}
          /\ task' = [task EXCEPT ![i] = "idle"]
          /\ Fault
    /\ UNCHANGED <<status, createVars, scheduled, escan, epopped, channelVars>>

\* PUBLISH IncidentUpdated; its failure is ignored.
Announce(i) ==
    /\ task[i] = "announce"
    /\ \/ announced' = announced \cup {i} /\ UNCHANGED budgetVars
       \/ announced' \in {announced, announced \cup {i}} /\ Fault
    /\ task' = [task EXCEPT ![i] = "idle"]
    /\ UNCHANGED <<tableVars, createVars, scheduled, escan, epopped, introduced>>

-----------------------------------------------------------------------------
(* The API gateway: one UPDATE each.                                       *)

\* Mutant: UPDATE without the test of the status.
AcknowledgeAny(i) ==
    /\ status[i] # "none"
    /\ status' = [status EXCEPT ![i] = "acknowledged"]
    /\ UNCHANGED <<severity, createVars, scheduled, timerVars, channelVars, budgetVars>>

Acknowledge(i) ==
    /\ status[i] = "open"
    /\ status' = [status EXCEPT ![i] = "acknowledged"]
    /\ UNCHANGED <<severity, createVars, scheduled, timerVars, channelVars, budgetVars>>

Resolve(i) ==
    /\ status[i] \in {"open", "acknowledged"}
    /\ status' = [status EXCEPT ![i] = "resolved"]
    /\ UNCHANGED <<severity, createVars, scheduled, timerVars, channelVars, budgetVars>>

-----------------------------------------------------------------------------
\* The matcher dies: what it had inserted or popped is forgotten.
Crash ==
    /\ crashes < MaxCrashes
    /\ crashes' = crashes + 1
    /\ creating' = {}
    /\ unsaid' = {}
    /\ escan' = {}
    /\ epopped' = {}
    /\ task' = [i \in Incidents |-> "idle"]
    /\ UNCHANGED <<tableVars, scheduled, channelVars, faults>>

Work(i) == Schedule(i) \/ Introduce(i) \/ Pop(i) \/ Spawn(i) \/ Escalate(i) \/ Announce(i)

Operator(i) == Acknowledge(i) \/ Resolve(i)

Next == \/ \E i \in Incidents : Create(i) \/ Work(i) \/ Operator(i)
        \/ \E due \in SUBSET Incidents : Scan(due)
        \/ Crash

Spec == Init /\ [][Next]_vars

\* The matcher's tasks run and its timer ticks; operators owe nothing.
Fairness ==
    \A i \in Incidents :
        /\ WF_vars(Schedule(i) \/ Introduce(i))
        /\ WF_vars(Pop(i) \/ Spawn(i) \/ Escalate(i) \/ Announce(i))
        /\ SF_vars(\E due \in SUBSET Incidents : i \in due /\ Scan(due))

FairSpec == Spec /\ Fairness

-----------------------------------------------------------------------------
(* Properties.                                                             *)

TypeOK ==
    /\ status \in [Incidents -> {"none", "open", "acknowledged", "resolved"}]
    /\ severity \in [Incidents -> 1..2]
    /\ creating \subseteq Incidents
    /\ unsaid \subseteq Incidents
    /\ scheduled \subseteq Incidents
    /\ escan \subseteq Incidents
    /\ epopped \subseteq Incidents
    /\ task \in [Incidents -> {"idle", "escalate", "announce"}]
    /\ introduced \subseteq Incidents
    /\ announced \subseteq Incidents
    /\ faults \in Nat /\ crashes \in Nat

\* An incident an operator took before its escalation is left alone, however
\* late the timer's task comes: it is not escalated behind the operator's back
\* and no message about an escalation gets on its way.
HandledIsLeftAlone ==
    [][\A i \in Incidents : status[i] # "open" =>
          /\ severity'[i] = severity[i]
          /\ task'[i] = "announce" => task[i] = "announce"]_vars

\* The dashboards are only told of escalations that are in the table, and no
\* incident is escalated that is still to be scheduled: persist_incident, the
\* timer and the table agree on how far an incident is, after any failure.
StagesAgree ==
    /\ \A i \in announced : severity[i] = 2
    /\ \A i \in Incidents : task[i] = "announce" => severity[i] = 2
    /\ \A i \in Incidents : severity[i] = 2 =>
         i \notin creating \cup scheduled \cup epopped /\ task[i] # "escalate"

\* While no call fails and the matcher lives, an incident that stays open is
\* introduced to the dashboards, is escalated, and they are told of that too.
OpenIsEscalated ==
    \A i \in Incidents :
        (status[i] = "open") ~>
            \/ i \in introduced /\ (status[i] # "open" \/ i \in announced)
            \/ faults + crashes > 0

\* The matcher and the gateway keep what the rest of the system relies on: an
\* incident only moves forward, is escalated while it is open, and is in the
\* table before a message speaks of it.
Board ==
    INSTANCE IncidentBoard WITH
        told <- [id : introduced, type : {"incident_created"}]
                \cup [id : announced, type : {"incident_updated"}]

KeepsBoard == Board!Spec

-----------------------------------------------------------------------------
(* The inductive invariant: an incident is at one stage at a time.         *)

\* An incident moves through creating, scheduled, popped and task, and an
\* escalation that was applied is behind all of them.
AtOneStage(i) ==
    /\ status[i] = "none" =>
         /\ i \notin creating \cup unsaid \cup scheduled \cup epopped
         /\ task[i] = "idle" /\ severity[i] = 1
    /\ i \in creating => i \notin scheduled \cup epopped /\ task[i] = "idle"
    /\ i \in scheduled => i \notin epopped /\ task[i] = "idle"
    /\ i \in epopped => task[i] = "idle"

IInv == TypeOK /\ StagesAgree /\ \A i \in Incidents : AtOneStage(i)

=============================================================================
