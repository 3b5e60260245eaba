----------------------- MODULE IncidentLifecycleProofs ------------------------
(***************************************************************************)
(* Escalation for any number of incidents, tasks, failures and crashes:    *)
(* schedule, table and messages agree, an incident that an operator took   *)
(* is left alone, and all of it is what IncidentBoard promises.            *)
(***************************************************************************)
EXTENDS IncidentLifecycle, TLAPS

LEMMA InitHolds == Init => IInv
  BY DEF Init, IInv, TypeOK, StagesAgree, AtOneStage

LEMMA NextTyped ==
    ASSUME TypeOK, [Next]_vars
    PROVE  TypeOK'
<1>1. CASE UNCHANGED vars
  BY <1>1 DEF vars, tableVars, createVars, timerVars, channelVars, budgetVars, TypeOK
<1>2. CASE \E i \in Incidents : Create(i) \/ Operator(i)
  BY <1>2
  DEF Create, Operator, Acknowledge, Resolve, createVars, timerVars, channelVars, budgetVars,
      TypeOK
<1>3. CASE \E i \in Incidents : Schedule(i) \/ Introduce(i) \/ Pop(i) \/ Spawn(i)
  BY <1>3
  DEF Schedule, Introduce, Pop, Spawn, Fault, tableVars, createVars, timerVars, channelVars,
      budgetVars, TypeOK
<1>4. CASE \E i \in Incidents : Escalate(i) \/ Announce(i)
  BY <1>4
  DEF Escalate, Escalated, AfterEscalate, Announce, Fault, tableVars, createVars, channelVars,
      budgetVars, TypeOK
<1>5. CASE \E due \in SUBSET Incidents : Scan(due)
  BY <1>5 DEF Scan, tableVars, createVars, channelVars, budgetVars, TypeOK
<1>6. CASE Crash
  BY <1>6 DEF Crash, tableVars, channelVars, TypeOK
<1>. QED  BY <1>1, <1>2, <1>3, <1>4, <1>5, <1>6 DEF Next, Work

-----------------------------------------------------------------------------
(* One lemma per kind of step: what it keeps of the stages.                *)

Stages == StagesAgree /\ \A i \in Incidents : AtOneStage(i)

LEMMA CreateKeeps ==
    ASSUME IInv, NEW i \in Incidents, Create(i)
    PROVE  Stages'
  BY DEF Create, timerVars, channelVars, budgetVars, IInv, TypeOK, Stages, StagesAgree, AtOneStage

LEMMA ScheduleKeeps ==
    ASSUME IInv, NEW i \in Incidents, Schedule(i)
    PROVE  Stages'
  BY DEF Schedule, tableVars, timerVars, channelVars, IInv, TypeOK, Stages, StagesAgree, AtOneStage

LEMMA IntroduceKeeps ==
    ASSUME IInv, NEW i \in Incidents, Introduce(i)
    PROVE  Stages'
  BY DEF Introduce, tableVars, timerVars, IInv, TypeOK, Stages, StagesAgree, AtOneStage

LEMMA PopKeeps ==
    ASSUME IInv, NEW i \in Incidents, Pop(i)
    PROVE  Stages'
  BY DEF Pop, tableVars, createVars, channelVars, IInv, TypeOK, Stages, StagesAgree, AtOneStage

LEMMA SpawnKeeps ==
    ASSUME IInv, NEW i \in Incidents, Spawn(i)
    PROVE  Stages'
  BY DEF Spawn, tableVars, createVars, channelVars, IInv, TypeOK, Stages, StagesAgree, AtOneStage

\* The UPDATE is the only step that escalates, and it does when and only when
\* its task goes on to the message.
LEMMA EscalateKeeps ==
    ASSUME IInv, NEW i \in Incidents, Escalate(i)
    PROVE  Stages'
<1>1. /\ severity' \in {severity, Escalated(i)}
      /\ task' \in {[task EXCEPT ![i] = "idle"], [task EXCEPT ![i] = "announce"]}
      /\ task'[i] = "announce" => Escalatable(i) /\ severity' = Escalated(i)
      /\ task[i] = "escalate"
  BY DEF Escalate, AfterEscalate, IInv, TypeOK
<1>2. /\ severity'[i] \in 1..2
      /\ task'[i] = "announce" => severity'[i] = 2
      /\ severity[i] = 2 => severity'[i] = 2
      /\ \A j \in Incidents \ {i} : severity'[j] = severity[j] /\ task'[j] = task[j]
  BY <1>1 DEF Escalated, Escalatable, IInv, TypeOK
<1>3. task'[i] \in {"idle", "announce"} /\ status[i] # "none"
  BY <1>1 DEF IInv, TypeOK, AtOneStage
<1>4. UNCHANGED <<status, creating, unsaid, scheduled, epopped, announced>>
  BY DEF Escalate, createVars, channelVars
<1>. QED  BY <1>1, <1>2, <1>3, <1>4 DEF IInv, TypeOK, Stages, StagesAgree, AtOneStage

LEMMA AnnounceKeeps ==
    ASSUME IInv, NEW i \in Incidents, Announce(i)
    PROVE  Stages'
  BY DEF Announce, tableVars, createVars, IInv, TypeOK, Stages, StagesAgree, AtOneStage

LEMMA OthersKeep ==
    ASSUME IInv,
           \/ UNCHANGED vars
           \/ \E i \in Incidents : Operator(i)
           \/ \E due \in SUBSET Incidents : Scan(due)
           \/ Crash
    PROVE  Stages'
<1>1. CASE UNCHANGED vars
  BY <1>1
  DEF vars, tableVars, createVars, timerVars, channelVars, IInv, Stages, StagesAgree, AtOneStage
<1>2. CASE \E i \in Incidents : Operator(i)
  BY <1>2
  DEF Operator, Acknowledge, Resolve, createVars, timerVars, channelVars, IInv, TypeOK, Stages,
      StagesAgree, AtOneStage
<1>3. CASE \E due \in SUBSET Incidents : Scan(due)
  BY <1>3 DEF Scan, tableVars, createVars, channelVars, IInv, Stages, StagesAgree, AtOneStage
<1>4. CASE Crash
  BY <1>4 DEF Crash, tableVars, channelVars, IInv, Stages, StagesAgree, AtOneStage
<1>. QED  BY <1>1, <1>2, <1>3, <1>4

LEMMA NextHolds == IInv /\ [Next]_vars => IInv'
<1>. SUFFICES ASSUME IInv, [Next]_vars
              PROVE  IInv'
  OBVIOUS
<1>1. TypeOK'
  BY NextTyped DEF IInv
<1>2. Stages'
  BY CreateKeeps, ScheduleKeeps, IntroduceKeeps, PopKeeps, SpawnKeeps, EscalateKeeps, AnnounceKeeps,
     OthersKeep
  DEF Next, Work
<1>. QED  BY <1>1, <1>2 DEF IInv, Stages

-----------------------------------------------------------------------------
(* The theorems.                                                           *)

\* Every incident is at one stage, whatever fails.
THEOREM LifecycleInvariant == Spec => []IInv
  BY InitHolds, NextHolds, PTL DEF Spec

\* The message that an incident was escalated is only sent of one that
\* escalate_incident updated, and one it updated is through with the schedule.
THEOREM LifecycleStages == Spec => []StagesAgree
<1>1. IInv => StagesAgree
  BY DEF IInv
<1>. QED  BY <1>1, LifecycleInvariant, PTL

\* The timer never escalates an incident that was acknowledged or resolved.
THEOREM LifecycleRespectsOperators == Spec => HandledIsLeftAlone
<1>1. ASSUME IInv, [Next]_vars, NEW i \in Incidents, status[i] # "open"
      PROVE  severity'[i] = severity[i] /\ (task'[i] = "announce" => task[i] = "announce")
  <2>1. CASE \E j \in Incidents : Escalate(j)
    <3>1. PICK j \in Incidents : Escalate(j)
      BY <2>1
    <3>. QED  BY <1>1, <3>1 DEF Escalate, Escalated, AfterEscalate, Escalatable, IInv, TypeOK
  <2>2. CASE \E j \in Incidents : Create(j) \/ Schedule(j) \/ Introduce(j) \/ Operator(j)
    BY <2>2
    DEF Create, Schedule, Introduce, Operator, Acknowledge, Resolve, tableVars, timerVars
  <2>3. CASE \E j \in Incidents : Pop(j) \/ Spawn(j) \/ Announce(j)
    BY <1>1, <2>3 DEF Pop, Spawn, Announce, tableVars, IInv, TypeOK
  <2>4. CASE UNCHANGED vars \/ Crash \/ \E due \in SUBSET Incidents : Scan(due)
    BY <1>1, <2>4 DEF vars, Crash, Scan, tableVars, timerVars, IInv, TypeOK
  <2>. QED  BY <1>1, <2>1, <2>2, <2>3, <2>4 DEF Next, Work
<1>2. IInv /\ [Next]_vars =>
        [\A i \in Incidents : status[i] # "open" =>
            /\ severity'[i] = severity[i]
            /\ task'[i] = "announce" => task[i] = "announce"]_vars
  BY <1>1
<1>. QED  BY <1>2, LifecycleInvariant, PTL DEF Spec, HandledIsLeftAlone


-----------------------------------------------------------------------------
(* The lifecycle implements the board.                                     *)

Told == [id : introduced, type : {"incident_created"}]
        \cup [id : announced, type : {"incident_updated"}]

\* A message that is published, or not, is told, or nothing happens.
LEMMA TellStep ==
    ASSUME NEW i \in Incidents, NEW kind \in {"incident_created", "incident_updated"},
           UNCHANGED tableVars,
           status[i] # "none",
           kind = "incident_updated" => severity[i] = 2,
           \/ UNCHANGED Told
           \/ Told' = Told \cup {[id |-> i, type |-> kind]}
    PROVE  Board!Next \/ UNCHANGED Board!boardVars
<1>. DEFINE m == [id |-> i, type |-> kind]
<1>1. m \in Board!Messages /\ m.id = i /\ m.type = kind
  BY DEF Board!Messages
<1>2. CASE Told' = Told \cup {m}
  <2>1. Board!Tell(m)
    BY <1>1, <1>2 DEF Board!Tell, Told, tableVars
  <2>. QED  BY <1>1, <2>1 DEF Board!Next
<1>3. CASE UNCHANGED Told
  BY <1>3 DEF Board!boardVars, Told, tableVars
<1>. QED  BY <1>2, <1>3

LEMMA IntroduceTells ==
    ASSUME IInv, NEW i \in Incidents, Introduce(i)
    PROVE  Board!Next \/ UNCHANGED Board!boardVars
<1>1. status[i] # "none" /\ UNCHANGED <<tableVars, announced>>
  BY DEF Introduce, IInv, AtOneStage
<1>2. introduced' \in {introduced, introduced \cup {i}}
  BY DEF Introduce
<1>3. \/ UNCHANGED Told
      \/ Told' = Told \cup {[id |-> i, type |-> "incident_created"]}
  BY <1>1, <1>2 DEF Told
<1>. QED  BY <1>1, <1>3, TellStep

LEMMA AnnounceTells ==
    ASSUME IInv, NEW i \in Incidents, Announce(i)
    PROVE  Board!Next \/ UNCHANGED Board!boardVars
<1>1. status[i] # "none" /\ severity[i] = 2 /\ UNCHANGED <<tableVars, introduced>>
  BY DEF Announce, IInv, AtOneStage, StagesAgree
<1>2. announced' \in {announced, announced \cup {i}}
  BY DEF Announce
<1>3. \/ UNCHANGED Told
      \/ Told' = Told \cup {[id |-> i, type |-> "incident_updated"]}
  BY <1>1, <1>2 DEF Told
<1>. QED  BY <1>1, <1>3, TellStep

LEMMA EscalateEscalates ==
    ASSUME IInv, NEW i \in Incidents, Escalate(i)
    PROVE  Board!Next \/ UNCHANGED Board!boardVars
<1>1. UNCHANGED <<status, Told>> /\ severity' \in {severity, Escalated(i)}
  BY DEF Escalate, Told, channelVars
<1>2. CASE UNCHANGED severity
  BY <1>1, <1>2 DEF Board!boardVars, Told
<1>3. CASE Escalatable(i) /\ severity' = [severity EXCEPT ![i] = 2]
  <2>1. Board!Escalate(i)
    BY <1>1, <1>3 DEF Board!Escalate, Escalatable, Told, IInv, TypeOK
  <2>. QED  BY <2>1 DEF Board!Next
<1>. QED  BY <1>1, <1>2, <1>3 DEF Escalated

LEMMA BoardStep ==
    ASSUME IInv, [Next]_vars
    PROVE  Board!Next \/ UNCHANGED Board!boardVars
<1>1. CASE \E i \in Incidents : Create(i)
  BY <1>1 DEF Create, channelVars, Board!Next, Board!Raise
<1>2. CASE \E i \in Incidents : Operator(i)
  BY <1>2 DEF Operator, Acknowledge, Resolve, channelVars, Board!Next, Board!Acknowledge, Board!Resolve
<1>3. CASE \/ UNCHANGED vars
           \/ \E i \in Incidents : Schedule(i) \/ Pop(i) \/ Spawn(i)
           \/ \E due \in SUBSET Incidents : Scan(due)
           \/ Crash
  BY <1>3
  DEF vars, Schedule, Pop, Spawn, Scan, Crash, tableVars, channelVars, Board!boardVars
<1>. QED
  BY <1>1, <1>2, <1>3, IntroduceTells, AnnounceTells, EscalateEscalates DEF Next, Work

\* Every state of the table, the schedule, the timer and its tasks is well
\* typed; no more tasks run than the timer's JoinSet admits.
THEOREM LifecycleTyped == Spec => []TypeOK
<1>1. IInv => TypeOK
  BY DEF IInv
<1>. QED  BY <1>1, LifecycleInvariant, PTL

\* The matcher with its timer, and the gateway, implement IncidentBoard: what
\* persist_incident, the escalation tasks and the operators do to the table and
\* to the channel is what the board allows, in any interleaving and after any
\* failure.
THEOREM LifecycleKeepsBoard == Spec => KeepsBoard
<1>1. Init => Board!Init
  BY DEF Init, Board!Init
<1>2. IInv /\ [Next]_vars => [Board!Next]_Board!boardVars
  BY BoardStep
<1>. QED  BY <1>1, <1>2, LifecycleInvariant, PTL DEF Spec, KeepsBoard, Board!Spec

=============================================================================
