------------------------------- MODULE Dashboard -------------------------------
(***************************************************************************)
(* One open dashboard (App.jsx), the gateway's WebSocket and queries that  *)
(* feed it, and the system it shows: the incidents as IncidentBoard has    *)
(* them and the transactions as the matcher judges and publishes them.     *)
(*                                                                         *)
(* The screen is filled by answers.  Requests are on their way at the same *)
(* time, the gateway reads the tables when it gets to them, and an answer  *)
(* replaces what is shown when it arrives, which need not be the order of  *)
(* reading.  The socket says what changed, never to what: a message only   *)
(* starts a request, and is lost while the socket is down.                 *)
(***************************************************************************)
EXTENDS Integers, Sequences, FiniteSets, SequencesExt

CONSTANTS Incidents, \* incident ids, in the order of created_at
          Txs,       \* transactions, fewer than the ten the table shows
          PageSize,  \* limit of the list of incidents
          None,      \* no incident is selected
          Connections, \* bound: requests the gateway serves at once
          MaxFaults, \* bound: failing calls
          MaxDrops   \* bound: closures of the socket

ASSUME DashboardAssumption ==
    /\ Incidents \subseteq Nat
    /\ IsFiniteSet(Incidents)
    /\ None \notin Incidents
    /\ PageSize \in Nat \ {0}
    /\ Connections \in Nat \ {0}
    /\ MaxFaults \in Nat
    /\ MaxDrops \in Nat

VARIABLES status, severity, told, \* see IncidentBoard
          flow,    \* how far the matcher is with a transaction
          socket,  \* "none" before the page is opened, "open" or "closed"
          inbox,   \* messages on the open socket
          asked,   \* requests of each kind the gateway has not read for
          answers, \* what the gateway read, in that order, until it is shown
          list,    \* incidents
          active,  \* activeIncident
          table,   \* transactions: the status shown, "none" without a row
          doing,   \* handleAck or handleResolve: where it is
          excused, \* history: what may be stale for a known reason
          faults, drops

boardVars  == <<status, severity, told>>
linkVars   == <<socket, inbox>>
callVars   == <<asked, answers>>
screenVars == <<list, active, table>>
budgetVars == <<faults, drops>>
vars == <<boardVars, flow, linkVars, callVars, screenVars, doing, excused, budgetVars>>

Board == INSTANCE IncidentBoard

\* fetchAll on mount and after an action, and the refetches a message starts,
\* each with the parts of the screen it sets.
Parts == [load         |-> {"list", "table"},
          reload       |-> {"list", "table"},
          incidents    |-> {"list"},
          transactions |-> {"table"}]

Kinds == DOMAIN Parts

Resting == [step |-> "idle", op |-> "none", id |-> None]

Init ==
    /\ Board!Init
    /\ flow = [tx \in Txs |-> "unseen"]
    /\ socket = "none"
    /\ inbox = <<>>
    /\ asked = [k \in Kinds |-> 0]
    /\ answers = <<>>
    /\ list = <<>>
    /\ active = None
    /\ table = [tx \in Txs |-> "none"]
    /\ doing = Resting
    /\ excused = {}
    /\ faults = 0
    /\ drops = 0

Fault == faults < MaxFaults /\ faults' = faults + 1 /\ UNCHANGED drops

Excuse(parts) == excused' = excused \cup parts

Ask(k) == asked' = [asked EXCEPT ![k] = @ + 1]

-----------------------------------------------------------------------------
(* The matcher and its publisher, and other operators.                     *)

\* PUBLISH reaches the socket when it is open.  Before the page is opened
\* nothing is missed: the page starts with a fetch.
Publish(topic, part) ==
    \/ socket = "none" /\ UNCHANGED <<inbox, excused, budgetVars>>
    \/ /\ socket = "open"
       /\ inbox' = Append(inbox, topic)
       /\ UNCHANGED <<excused, budgetVars>>
    \/ /\ socket = "closed"
       /\ Excuse({part})
       /\ UNCHANGED <<inbox, budgetVars>>
    \/ /\ Fault
       /\ Excuse({part})
       /\ UNCHANGED inbox

\* Incidents are raised and escalated by the matcher.
Change ==
    /\ \E i \in Incidents : Board!Raise(i) \/ Board!Escalate(i)
    /\ UNCHANGED <<flow, linkVars, callVars, screenVars, doing, excused, budgetVars>>

TellIncident(m) ==
    /\ m \notin told
    /\ Board!Tell(m)
    /\ Publish("incident", "list")
    /\ UNCHANGED <<flow, socket, callVars, screenVars, doing>>

\* Another dashboard, or a client of the API: nothing is published.
Elsewhere(i) ==
    /\ Board!Acknowledge(i) \/ Board!Resolve(i)
    /\ Excuse({"list"})
    /\ UNCHANGED <<flow, linkVars, callVars, screenVars, doing, budgetVars>>

\* TransactionReceived: the first event of a transaction is published before
\* the transaction has a row.
Receive(tx) ==
    /\ flow[tx] = "unseen"
    /\ flow' = [flow EXCEPT ![tx] = "open"]
    /\ Publish("transaction", "table")
    /\ UNCHANGED <<boardVars, socket, callVars, screenVars, doing>>

\* TransactionProgress: another event is published, maybe while a timeout
\* judges.
Progress(tx) ==
    /\ flow[tx] # "unseen"
    /\ Publish("transaction", "table")
    /\ UNCHANGED <<boardVars, flow, socket, callVars, screenVars, doing>>

\* Mutant: a match is not published.
JudgeSilently(tx, verdict) ==
    /\ flow[tx] = "open"
    /\ flow' = [flow EXCEPT ![tx] = IF verdict = "matched" THEN "told" ELSE verdict]
    /\ UNCHANGED <<boardVars, linkVars, callVars, screenVars, doing, excused, budgetVars>>

\* The verdict is written: upsert_transaction.  "mismatch" stands for every
\* status but matched: none of them is published.
Judge(tx, verdict) ==
    /\ flow[tx] = "open"
    /\ flow' = [flow EXCEPT ![tx] = verdict]
    /\ UNCHANGED <<boardVars, linkVars, callVars, screenVars, doing, excused, budgetVars>>

\* Only the verdict "matched" is published.
TellMatched(tx) ==
    /\ flow[tx] = "matched"
    /\ flow' = [flow EXCEPT ![tx] = "told"]
    /\ Publish("transaction", "table")
    /\ UNCHANGED <<boardVars, socket, callVars, screenVars, doing>>

-----------------------------------------------------------------------------
(* useReconWS and ws.go.                                                   *)

\* Mutant: the page waits for a message before it fetches.
MountWaits ==
    /\ socket = "none"
    /\ socket' = "closed"
    /\ UNCHANGED <<boardVars, flow, inbox, callVars, screenVars, doing, excused, budgetVars>>

\* The effects of the first rendering: fetchAll, and connect, which takes its
\* time.
Mount ==
    /\ socket = "none"
    /\ socket' = "closed"
    /\ Ask("load")
    /\ UNCHANGED <<boardVars, flow, inbox, answers, screenVars, doing, excused, budgetVars>>

Connect ==
    /\ socket = "closed"
    /\ socket' = "open"
    /\ UNCHANGED <<boardVars, flow, inbox, callVars, screenVars, doing, excused, budgetVars>>

Topics == [incident |-> "list", transaction |-> "table"]

\* onclose; after three seconds the hook connects again and fetches nothing.
Drop ==
    /\ socket = "open"
    /\ drops < MaxDrops
    /\ drops' = drops + 1
    /\ socket' = "closed"
    /\ inbox' = <<>>
    /\ Excuse({Topics[inbox[k]] : k \in DOMAIN inbox})
    /\ UNCHANGED <<boardVars, flow, callVars, screenVars, doing, faults>>

\* onmessage starts the refetch of what the message is about.
Refetch == [incident |-> "incidents", transaction |-> "transactions"]

\* Mutant: a message that arrives while an action is running is ignored.
HearUnlessBusy ==
    /\ inbox # <<>>
    /\ inbox' = Tail(inbox)
    /\ IF doing = Resting THEN Ask(Refetch[Head(inbox)]) ELSE UNCHANGED asked
    /\ UNCHANGED <<boardVars, flow, socket, answers, screenVars, doing, excused, budgetVars>>

Hear ==
    /\ inbox # <<>>
    /\ inbox' = Tail(inbox)
    /\ Ask(Refetch[Head(inbox)])
    /\ UNCHANGED <<boardVars, flow, socket, answers, screenVars, doing, excused, budgetVars>>

-----------------------------------------------------------------------------
(* The queries of the gateway.                                             *)

Open == {i \in Incidents : status[i] = "open"}

\* ORDER BY severity DESC, created_at ASC
Before(i, j) == \/ severity[i] > severity[j]
                \/ severity[i] = severity[j] /\ i < j

\* WHERE status = 'open' ... LIMIT
Page ==
    [k \in 1..(IF Cardinality(Open) < PageSize THEN Cardinality(Open) ELSE PageSize) |->
        CHOOSE i \in Open : Cardinality({j \in Open : Before(j, i)}) = k - 1]

Shown(f) == CASE f \in {"unseen", "open"} -> "none"
              [] f \in {"matched", "told"} -> "matched"
              [] OTHER -> f

Rows == [tx \in Txs |-> Shown(flow[tx])]

\* GetIncidents reads the page, GetTransactions the rows; what fails is left
\* out of the answer.
Read(k) ==
    /\ asked[k] > 0
    /\ Len(answers) < Connections
    /\ asked' = [asked EXCEPT ![k] = @ - 1]
    /\ \E parts \in SUBSET Parts[k] :
         /\ answers' = Append(answers,
               [what  |-> k,
                parts |-> parts,
                items |-> IF "list" \in parts THEN Page ELSE <<>>,
                rows  |-> IF "table" \in parts THEN Rows ELSE [tx \in {} |-> "none"]])
         /\ \/ parts = Parts[k] /\ UNCHANGED <<excused, budgetVars>>
            \/ /\ parts # Parts[k]
               /\ Fault
               /\ Excuse(Parts[k] \ parts)
    /\ UNCHANGED <<boardVars, flow, linkVars, screenVars, doing>>

-----------------------------------------------------------------------------
(* An answer arrives.                                                      *)

\* Mutant: the selection survives its incident.
SelectedKeep(answer) == IF active = None /\ answer.items # <<>> THEN answer.items[1] ELSE active

\* fetchAll selects the first incident, a refetch keeps the selected one if
\* it is still listed.
Selected(answer) ==
    IF /\ answer.what = "incidents"
       /\ \E k \in DOMAIN answer.items : answer.items[k] = active
    THEN active
    ELSE IF answer.items = <<>> THEN None ELSE answer.items[1]

\* An answer that overtakes one that was read earlier will be overwritten by it.
Overtakes(n) ==
    UNION {answers[m].parts \cap answers[n].parts : m \in 1..(n - 1)}

\* Mutant: an error leaves the buttons disabled.
AfterActionStuck(answer) ==
    IF answer.what = "reload" /\ answer.parts = Parts["reload"] THEN Resting ELSE doing

AfterAction(answer) == IF answer.what = "reload" THEN Resting ELSE doing

Show(n) ==
    /\ n \in DOMAIN answers
    /\ answers' = RemoveAt(answers, n)
    /\ \/ /\ "list" \in answers[n].parts
          /\ list' = answers[n].items
          /\ active' = Selected(answers[n])
       \/ /\ "list" \notin answers[n].parts
          /\ UNCHANGED <<list, active>>
    /\ table' = IF "table" \in answers[n].parts THEN answers[n].rows ELSE table
    /\ doing' = AfterAction(answers[n])
    /\ Excuse(Overtakes(n))
    /\ UNCHANGED <<boardVars, flow, linkVars, asked, budgetVars>>

-----------------------------------------------------------------------------
(* The operator: handleAck and handleResolve.                              *)

Select(i) ==
    /\ \E k \in DOMAIN list : list[k] = i
    /\ active # i
    /\ active' = i
    /\ UNCHANGED <<boardVars, flow, linkVars, callVars, list, table, doing, excused, budgetVars>>

Click(op) ==
    /\ doing = Resting
    /\ active # None
    /\ doing' = [step |-> "sent", op |-> op, id |-> active]
    /\ UNCHANGED <<boardVars, flow, linkVars, callVars, screenVars, excused, budgetVars>>

Update == IF doing.op = "ack" THEN Board!Acknowledge(doing.id) ELSE Board!Resolve(doing.id)

Updatable == IF doing.op = "ack" THEN status[doing.id] = "open"
             ELSE status[doing.id] \in {"open", "acknowledged"}

\* One UPDATE with the old status in its WHERE: 200, or 409 when no row was
\* left to change, or 500, which may hide an UPDATE that was applied.
Gateway ==
    /\ doing.step = "sent"
    /\ \/ /\ Update
          /\ doing' = [doing EXCEPT !.step = "done"]
          /\ UNCHANGED <<excused, budgetVars>>
       \/ /\ ~Updatable
          /\ doing' = [doing EXCEPT !.step = "refused"]
          /\ UNCHANGED <<boardVars, excused, budgetVars>>
       \/ /\ Update \/ UNCHANGED boardVars
          /\ doing' = [doing EXCEPT !.step = "refused"]
          /\ Fault
          /\ Excuse({"list"})
    /\ UNCHANGED <<flow, linkVars, callVars, screenVars>>

\* Only a 200 is followed by fetchAll; any error is swallowed.
Answered ==
    /\ \/ /\ doing.step = "done"
          /\ doing' = [doing EXCEPT !.step = "reload"]
          /\ Ask("reload")
       \/ /\ doing.step = "refused"
          /\ doing' = Resting
          /\ UNCHANGED asked
    /\ UNCHANGED <<boardVars, flow, linkVars, answers, screenVars, excused, budgetVars>>

-----------------------------------------------------------------------------
System == \/ Change
          \/ \E m \in Board!Messages : TellIncident(m)
          \/ \E i \in Incidents : Elsewhere(i)
          \/ \E tx \in Txs :
               \/ Receive(tx) \/ Progress(tx) \/ TellMatched(tx)
               \/ \E v \in {"matched", "mismatch"} : Judge(tx, v)

Browser == \/ Mount \/ Connect \/ Drop \/ Hear
           \/ \E k \in Kinds : Read(k)
           \/ \E n \in DOMAIN answers : Show(n)

Person == \/ \E i \in Incidents : Select(i)
          \/ \E op \in {"ack", "resolve"} : Click(op)
          \/ Gateway \/ Answered

Next == System \/ Browser \/ Person

Spec == Init /\ [][Next]_vars

\* The page is opened.  The hook reconnects, requests are read and answered,
\* handlers run.  The matcher publishes what it wrote.  Nobody has to click.
Fairness ==
    /\ WF_vars(Mount) /\ WF_vars(Connect) /\ WF_vars(Hear)
    /\ WF_vars(Gateway) /\ WF_vars(Answered)
    /\ \A k \in Kinds :
         /\ WF_vars(Read(k))
         /\ WF_vars(\E n \in DOMAIN answers : answers[n].what = k /\ Show(n))
    /\ WF_vars(\E m \in Board!Messages : TellIncident(m))
    /\ \A tx \in Txs : WF_vars(TellMatched(tx))

FairSpec == Spec /\ Fairness

-----------------------------------------------------------------------------
(* Properties.                                                             *)

Answers ==
    [what : Kinds, parts : SUBSET {"list", "table"}, items : Seq(Incidents),
     rows : [Txs -> {"none", "matched", "mismatch"}] \cup {[tx \in {} |-> "none"]}]

\* Every variable has the shape the program gives it; the selected incident
\* can be acted on because it is one of those listed.
TypeOK ==
    /\ flow \in [Txs -> {"unseen", "open", "matched", "mismatch", "told"}]
    /\ socket \in {"none", "open", "closed"}
    /\ inbox \in Seq(DOMAIN Topics)
    /\ asked \in [Kinds -> Nat]
    /\ answers \in Seq(Answers)
    /\ \A n \in DOMAIN answers : answers[n].parts \subseteq Parts[answers[n].what]
    /\ list \in Seq(Incidents)
    /\ active \in {None} \cup {list[k] : k \in DOMAIN list}
    /\ table \in [Txs -> {"none", "matched", "mismatch"}]
    /\ doing \in [step : {"idle", "sent", "done", "refused", "reload"},
                  op : {"none", "ack", "resolve"}, id : Incidents \cup {None}]
    /\ doing = Resting <=> doing.step = "idle"
    /\ excused \subseteq {"list", "table"}
    /\ faults \in Nat /\ drops \in Nat

\* Something that will make the dashboard fetch a part again is on its way.
Untold(i) ==
    \/ status[i] # "none" /\ Board!Created(i) \notin told
    \/ severity[i] = 2 /\ Board!Updated(i) \notin told

Coming(part) ==
    \/ \E k \in DOMAIN inbox : Topics[inbox[k]] = part
    \/ \E k \in Kinds : part \in Parts[k] /\ asked[k] > 0
    \/ socket = "none" \/ doing.step = "done"
    \/ part = "list" /\ \E i \in Incidents : Untold(i)
    \/ part = "table" /\ \E tx \in Txs : flow[tx] = "matched"

Arriving(part) == \E n \in DOMAIN answers : part \in answers[n].parts

\* Once nothing is on its way, the list is the page of open incidents the
\* gateway would answer now: no message comes before what it is about is in
\* the table, and no change goes without a message that leads to a fetch.
\* Excused are: a message lost while the socket was down or by an error, a
\* failed query, an answer that overtook another, an incident taken care of
\* elsewhere.
ListIsCurrent ==
    ~Coming("list") /\ ~Arriving("list") /\ "list" \notin excused => list = Page

\* In the same way every matched transaction is in the table as matched.
MatchesAreShown ==
    ~Coming("table") /\ ~Arriving("table") /\ "table" \notin excused =>
        \A tx \in Txs : flow[tx] = "told" => table[tx] = "matched"

\* Neither stays behind: what is on its way arrives.
ScreenCatchesUp ==
    /\ <>[](list = Page \/ "list" \in excused)
    /\ \A tx \in Txs : flow[tx] = "matched" ~> (table[tx] = "matched" \/ "table" \in excused)

\* The buttons of an operator who acknowledged or resolved come back, whether
\* he was first, late, or got no answer.
ButtonsComeBack == (doing # Resting) ~> (doing = Resting)

-----------------------------------------------------------------------------
(* The inductive invariant: the newest answer of a part is what the tables *)
(* say, or something is coming.                                            *)

AnswersShape ==
    /\ answers \in Seq({answers[n] : n \in DOMAIN answers})
    /\ \A n \in DOMAIN answers : answers[n].parts \subseteq Parts[answers[n].what]

Shape ==
    /\ AnswersShape
    /\ asked \in [Kinds -> Nat]
    /\ inbox \in Seq(DOMAIN Topics)
    /\ told \subseteq Board!Messages
    /\ status \in [Incidents -> {"none", "open", "acknowledged", "resolved"}]
    /\ severity \in [Incidents -> 1..2]
    /\ flow \in [Txs -> {"unseen", "open", "matched", "mismatch", "told"}]
    /\ doing \in [step : {"idle", "sent", "done", "refused", "reload"},
                  op : {"none", "ack", "resolve"}, id : {doing.id}]

\* What was published is in the table.
ToldIsTrue == \A m \in told : /\ status[m.id] # "none"
                              /\ m.type = "incident_updated" => severity[m.id] = 2

\* The fetch after an action is on its way exactly while the action waits.
Reloads == {n \in DOMAIN answers : answers[n].what = "reload"}

OneReload ==
    /\ doing.step # "reload" => asked["reload"] = 0 /\ Reloads = {}
    /\ asked["reload"] <= 1
    /\ asked["reload"] = 1 => Reloads = {}
    /\ \A m, n \in Reloads : m = n

Newest(part, n) ==
    /\ n \in DOMAIN answers
    /\ part \in answers[n].parts
    /\ \A m \in DOMAIN answers : part \in answers[m].parts => m <= n

ListKept ==
    "list" \notin excused /\ ~Coming("list") =>
        /\ ~Arriving("list") => list = Page
        /\ \A n \in DOMAIN answers : Newest("list", n) => answers[n].items = Page

TableKept ==
    "table" \notin excused /\ ~Coming("table") =>
        \A tx \in Txs : flow[tx] = "told" =>
            /\ ~Arriving("table") => table[tx] = "matched"
            /\ \A n \in DOMAIN answers : Newest("table", n) => answers[n].rows[tx] = "matched"

IInv == Shape /\ ToldIsTrue /\ OneReload /\ ListKept /\ TableKept

=============================================================================
