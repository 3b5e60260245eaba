---------------------------- MODULE DashboardProofs ----------------------------
(***************************************************************************)
(* The dashboard for any number of incidents, transactions, requests and   *)
(* failures: once nothing is on its way, what is shown is what the tables  *)
(* say, unless one of the excuses applies.                                 *)
(***************************************************************************)
EXTENDS Dashboard, SequenceTheorems, FiniteSetTheorems, TLAPS

-----------------------------------------------------------------------------
(* Sequences.                                                              *)

LEMMA SeqOfOwn ==
    ASSUME NEW S, NEW s \in Seq(S)
    PROVE  s \in Seq({s[n] : n \in DOMAIN s})
  OBVIOUS

LEMMA AppendFacts ==
    ASSUME NEW S, NEW s \in Seq(S), NEW e
    PROVE  /\ Append(s, e) \in Seq(S \cup {e})
           /\ DOMAIN Append(s, e) = DOMAIN s \cup {Len(s) + 1}
           /\ DOMAIN s = 1..Len(s)
           /\ Len(s) \in Nat
           /\ Append(s, e)[Len(s) + 1] = e
           /\ \A n \in DOMAIN s : Append(s, e)[n] = s[n]
<1>1. s \in Seq(S \cup {e}) /\ e \in S \cup {e}
  OBVIOUS
<1>. QED  BY <1>1

LEMMA RemoveFacts ==
    ASSUME NEW S, NEW s \in Seq(S), NEW n \in DOMAIN s
    PROVE  /\ RemoveAt(s, n) \in Seq(S)
           /\ DOMAIN RemoveAt(s, n) = 1..(Len(s) - 1)
           /\ DOMAIN s = 1..Len(s)
           /\ \A i \in 1..(Len(s) - 1) :
                RemoveAt(s, n)[i] = IF i < n THEN s[i] ELSE s[i + 1]
<1>1. n \in 1..Len(s) /\ Len(s) \in Nat
  OBVIOUS
<1>2. /\ SubSeq(s, 1, n - 1) \in Seq(S)
      /\ Len(SubSeq(s, 1, n - 1)) = n - 1
      /\ \A i \in 1..(n - 1) : SubSeq(s, 1, n - 1)[i] = s[i]
  BY <1>1
<1>3. /\ SubSeq(s, n + 1, Len(s)) \in Seq(S)
      /\ Len(SubSeq(s, n + 1, Len(s))) = Len(s) - n
      /\ \A i \in 1..(Len(s) - n) : SubSeq(s, n + 1, Len(s))[i] = s[n + i]
  BY <1>1
<1>. DEFINE a == SubSeq(s, 1, n - 1)
            b == SubSeq(s, n + 1, Len(s))
<1>4. /\ a \o b \in Seq(S)
      /\ Len(a \o b) = Len(s) - 1
      /\ \A i \in 1..(Len(s) - 1) : (a \o b)[i] = IF i < n THEN s[i] ELSE s[i + 1]
  <2>. HIDE DEF a, b
  <2>1. a \in Seq(S) /\ Len(a) = n - 1 /\ b \in Seq(S) /\ Len(b) = Len(s) - n
    BY <1>2, <1>3 DEF a, b
  <2>2. a \o b \in Seq(S) /\ Len(a \o b) = Len(s) - 1
    BY <2>1, <1>1
  <2>3. ASSUME NEW i \in 1..(Len(s) - 1), i < n
        PROVE  (a \o b)[i] = s[i]
    <3>1. i \in 1..Len(a)
      BY <2>1, <2>3, <1>1
    <3>2. (a \o b)[i] = a[i]
      BY <2>1, <3>1
    <3>. QED  BY <3>1, <3>2, <2>1, <1>1, <1>2 DEF a
  <2>4. ASSUME NEW i \in 1..(Len(s) - 1), ~(i < n)
        PROVE  (a \o b)[i] = s[i + 1]
    <3>1. i - (n - 1) \in 1..Len(b) /\ i - Len(a) = i - (n - 1) /\ i > Len(a) /\ i <= Len(a) + Len(b)
      BY <2>1, <2>4, <1>1
    <3>2. (a \o b)[i] = b[i - Len(a)]
      <4>1. i \in 1..(Len(a) + Len(b))
        BY <2>1, <1>1, <2>4
      <4>2. (a \o b)[i] = IF i <= Len(a) THEN a[i] ELSE b[i - Len(a)]
        BY <2>1, <4>1, ConcatProperties
      <4>3. ~(i <= Len(a))
        BY <2>1, <2>4, <1>1
      <4>. QED  BY <4>2, <4>3
    <3>3. b[i - (n - 1)] = s[n + (i - (n - 1))]
      BY <1>3, <2>1, <3>1 DEF b
    <3>4. n + (i - (n - 1)) = i + 1
      BY <1>1
    <3>. QED  BY <3>1, <3>2, <3>3, <3>4
  <2>. QED  BY <2>2, <2>3, <2>4
<1>5. RemoveAt(s, n) = a \o b
  BY DEF RemoveAt
<1>. HIDE DEF a, b
<1>6. DOMAIN (a \o b) = 1..(Len(s) - 1)
  BY <1>4
<1>. QED  BY <1>1, <1>4, <1>5, <1>6

-----------------------------------------------------------------------------
(* Steps that show nothing and read nothing.                               *)

LEMMA PageSame == UNCHANGED <<status, severity>> => Page' = Page
  BY DEF Page, Open, Before

\* The list stays kept when it is excused, when something is coming, or when
\* nothing was and the table did not change.
LEMMA ListStays ==
    ASSUME ListKept, UNCHANGED <<answers, list>>, excused \subseteq excused',
           \/ "list" \in excused'
           \/ Coming("list")'
           \/ ~Coming("list") /\ UNCHANGED <<status, severity>>
    PROVE  ListKept'
<1>1. CASE "list" \in excused' \/ Coming("list")'
  BY <1>1 DEF ListKept
<1>2. CASE ~Coming("list") /\ UNCHANGED <<status, severity>>
  BY <1>2, PageSame DEF ListKept, Arriving, Newest
<1>. QED  BY <1>1, <1>2

LEMMA TableStays ==
    ASSUME TableKept, UNCHANGED <<answers, table>>, excused \subseteq excused',
           \/ "table" \in excused'
           \/ Coming("table")'
           \/ /\ ~Coming("table")
              /\ \A tx \in Txs : flow'[tx] = "told" => flow[tx] = "told"
    PROVE  TableKept'
  BY DEF TableKept, Arriving, Newest

LEMMA ReloadStays ==
    ASSUME OneReload, UNCHANGED answers, asked'["reload"] = asked["reload"],
           doing'.step = "reload" <=> doing.step = "reload"
    PROVE  OneReload'
  BY DEF OneReload, Reloads

LEMMA AnswersStay == AnswersShape /\ UNCHANGED answers => AnswersShape'
  BY DEF AnswersShape

LEMMA PublishFacts ==
    ASSUME Shape, NEW topic \in {"incident", "transaction"}, Publish(topic, Topics[topic])
    PROVE  /\ inbox' \in Seq({"incident", "transaction"})
           /\ excused \subseteq excused'
           /\ \A part \in {"list", "table"} :
                (\E k \in DOMAIN inbox : Topics[inbox[k]] = part)
                  => \E k \in DOMAIN inbox' : Topics[inbox'[k]] = part
           /\ \/ socket = "none"
              \/ Topics[topic] \in excused'
              \/ \E k \in DOMAIN inbox' : Topics[inbox'[k]] = Topics[topic]
<1>1. inbox \in Seq({"incident", "transaction"})
  BY DEF Shape, Topics
<1>2. CASE UNCHANGED inbox /\ (socket = "none" \/ Topics[topic] \in excused') /\ excused \subseteq excused'
  BY <1>1, <1>2
<1>3. CASE inbox' = Append(inbox, topic) /\ UNCHANGED excused
  <2>1. Append(inbox, topic) \in Seq({"incident", "transaction"})
    BY <1>1
  <2>. QED  BY <1>1, <1>3, <2>1, AppendFacts
<1>. QED  BY <1>2, <1>3 DEF Publish, Excuse

-----------------------------------------------------------------------------
(* The system.                                                             *)

LEMMA ChangeKeeps ==
    ASSUME IInv, Change
    PROVE  IInv'
<1>1. PICK i \in Incidents : Board!Raise(i) \/ Board!Escalate(i)
  BY DEF Change
<1>2. /\ UNCHANGED <<flow, socket, inbox, asked, answers, list, active, table, doing, excused, told>>
      /\ status' \in {status, [status EXCEPT ![i] = "open"]}
      /\ severity' \in {severity, [severity EXCEPT ![i] = 2]}
  BY <1>1 DEF Change, Board!Raise, Board!Escalate, linkVars, callVars, screenVars
<1>3. Shape'
  BY <1>2, AnswersStay DEF IInv, Shape
<1>4. ToldIsTrue'
  BY <1>2, <1>1 DEF IInv, Shape, ToldIsTrue, Board!Raise, Board!Escalate, Board!Messages
<1>5. OneReload'
  BY <1>2, ReloadStays DEF IInv
<1>6. ListKept'
  <2>1. Untold(i)'
    <3>1. CASE Board!Raise(i)
      BY <1>2, <3>1 DEF IInv, Shape, ToldIsTrue, Untold, Board!Raise, Board!Created
    <3>2. CASE Board!Escalate(i)
      BY <1>2, <3>2 DEF IInv, Shape, ToldIsTrue, Untold, Board!Escalate, Board!Updated
    <3>. QED  BY <1>1, <3>1, <3>2
  <2>2. Coming("list")'
    BY <2>1 DEF Coming
  <2>. QED  BY <1>2, <2>2, ListStays DEF IInv
<1>7. TableKept'
  <2>1. Coming("table")' <=> Coming("table")
    BY <1>2 DEF Coming
  <2>. QED  BY <1>2, <2>1, TableStays DEF IInv
<1>. QED  BY <1>3, <1>4, <1>5, <1>6, <1>7 DEF IInv

LEMMA TellKeeps ==
    ASSUME IInv, NEW m \in Board!Messages, TellIncident(m)
    PROVE  IInv'
<1>1. /\ UNCHANGED <<flow, socket, asked, answers, list, active, table, doing, status, severity>>
      /\ told' = told \cup {m}
      /\ status[m.id] # "none"
      /\ m.type = "incident_updated" => severity[m.id] = 2
      /\ Topics["incident"] = "list"
      /\ Publish("incident", Topics["incident"])
  BY DEF TellIncident, Board!Tell, callVars, screenVars, Topics
<1>2. /\ inbox' \in Seq({"incident", "transaction"})
      /\ excused \subseteq excused'
      /\ \A part \in {"list", "table"} :
           (\E k \in DOMAIN inbox : Topics[inbox[k]] = part)
             => \E k \in DOMAIN inbox' : Topics[inbox'[k]] = part
      /\ \/ socket = "none" \/ "list" \in excused'
         \/ \E k \in DOMAIN inbox' : Topics[inbox'[k]] = "list"
  BY <1>1, PublishFacts DEF IInv
<1>3. Shape'
  BY <1>1, <1>2, AnswersStay DEF IInv, Shape, Topics
<1>4. ToldIsTrue'
  BY <1>1 DEF IInv, ToldIsTrue
<1>5. OneReload'
  BY <1>1, ReloadStays DEF IInv
<1>6. ListKept'
  <2>1. "list" \in excused' \/ Coming("list")'
    BY <1>1, <1>2 DEF Coming
  <2>. QED  BY <1>1, <1>2, <2>1, ListStays DEF IInv
<1>7. TableKept'
  <2>1. Coming("table") => Coming("table")'
    BY <1>1, <1>2 DEF Coming
  <2>. QED  BY <1>1, <1>2, <2>1, TableStays DEF IInv
<1>. QED  BY <1>3, <1>4, <1>5, <1>6, <1>7 DEF IInv

LEMMA ElsewhereKeeps ==
    ASSUME IInv, NEW i \in Incidents, Elsewhere(i)
    PROVE  IInv'
<1>1. /\ UNCHANGED <<flow, socket, inbox, asked, answers, list, active, table, doing, severity, told>>
      /\ excused' = excused \cup {"list"}
      /\ status' \in {[status EXCEPT ![i] = "acknowledged"], [status EXCEPT ![i] = "resolved"]}
  BY DEF Elsewhere, Board!Acknowledge, Board!Resolve, linkVars, callVars, screenVars, Excuse
<1>2. Shape'
  BY <1>1, AnswersStay DEF IInv, Shape
<1>3. ToldIsTrue'
  BY <1>1 DEF IInv, Shape, ToldIsTrue, Board!Messages
<1>4. OneReload'
  BY <1>1, ReloadStays DEF IInv
<1>5. ListKept'
  BY <1>1 DEF ListKept
<1>6. TableKept'
  <2>1. Coming("table")' <=> Coming("table")
    BY <1>1 DEF Coming
  <2>. QED  BY <1>1, <2>1, TableStays DEF IInv
<1>. QED  BY <1>2, <1>3, <1>4, <1>5, <1>6 DEF IInv

LEMMA JudgeKeeps ==
    ASSUME IInv, NEW tx \in Txs, NEW v \in {"matched", "mismatch"}, Judge(tx, v)
    PROVE  IInv'
<1>1. /\ UNCHANGED <<status, severity, told, socket, inbox, asked, answers, list, active, table,
                     doing, excused>>
      /\ flow' = [flow EXCEPT ![tx] = v]
      /\ flow[tx] = "open"
  BY DEF Judge, boardVars, linkVars, callVars, screenVars
<1>2. Shape' /\ ToldIsTrue'
  BY <1>1, AnswersStay DEF IInv, Shape, ToldIsTrue
<1>3. OneReload'
  BY <1>1, ReloadStays DEF IInv
<1>4. ListKept'
  <2>1. Coming("list")' <=> Coming("list")
    BY <1>1 DEF Coming, Untold
  <2>. QED  BY <1>1, <2>1, ListStays DEF IInv
<1>5. TableKept'
  <2>1. Coming("table") => Coming("table")'
    BY <1>1 DEF Coming, IInv, Shape
  <2>2. \A t \in Txs : flow'[t] = "told" => flow[t] = "told"
    BY <1>1 DEF IInv, Shape
  <2>. QED  BY <1>1, <2>1, <2>2, TableStays DEF IInv
<1>. QED  BY <1>2, <1>3, <1>4, <1>5 DEF IInv

\* Receive, Progress and TellMatched differ in what they do to flow.
LEMMA TransactionKeeps ==
    ASSUME IInv, NEW tx \in Txs, Receive(tx) \/ Progress(tx) \/ TellMatched(tx)
    PROVE  IInv'
<1>1. /\ UNCHANGED <<status, severity, told, socket, asked, answers, list, active, table, doing>>
      /\ flow' \in {[flow EXCEPT ![tx] = "open"], flow, [flow EXCEPT ![tx] = "told"]}
      /\ Topics["transaction"] = "table"
      /\ Publish("transaction", Topics["transaction"])
  BY DEF Receive, Progress, TellMatched, boardVars, callVars, screenVars, Topics
<1>2. /\ inbox' \in Seq({"incident", "transaction"})
      /\ excused \subseteq excused'
      /\ \A part \in {"list", "table"} :
           (\E k \in DOMAIN inbox : Topics[inbox[k]] = part)
             => \E k \in DOMAIN inbox' : Topics[inbox'[k]] = part
      /\ \/ socket = "none" \/ "table" \in excused'
         \/ \E k \in DOMAIN inbox' : Topics[inbox'[k]] = "table"
  BY <1>1, PublishFacts DEF IInv
<1>3. Shape'
  BY <1>1, <1>2, AnswersStay DEF IInv, Shape, Topics
<1>4. ToldIsTrue'
  BY <1>1 DEF IInv, ToldIsTrue
<1>5. OneReload'
  BY <1>1, ReloadStays DEF IInv
<1>6. ListKept'
  <2>1. Coming("list") => Coming("list")'
    BY <1>1, <1>2 DEF Coming, Untold
  <2>. QED  BY <1>1, <1>2, <2>1, ListStays DEF IInv
<1>7. TableKept'
  <2>1. "table" \in excused' \/ Coming("table")'
    BY <1>1, <1>2 DEF Coming
  <2>. QED  BY <1>1, <1>2, <2>1, TableStays DEF IInv
<1>. QED  BY <1>3, <1>4, <1>5, <1>6, <1>7 DEF IInv

-----------------------------------------------------------------------------
(* The socket.                                                             *)

LEMMA MountKeeps ==
    ASSUME IInv, Mount
    PROVE  IInv'
<1>1. /\ UNCHANGED <<status, severity, told, flow, inbox, answers, list, active, table, doing, excused>>
      /\ asked' = [asked EXCEPT !["load"] = @ + 1]
      /\ "load" \in Kinds /\ "reload" \in Kinds /\ Parts["load"] = {"list", "table"}
  BY DEF Mount, Ask, boardVars, screenVars, Kinds, Parts
<1>2. Shape' /\ asked'["load"] > 0 /\ asked'["reload"] = asked["reload"]
  BY <1>1, AnswersStay DEF IInv, Shape
<1>3. ToldIsTrue'
  BY <1>1 DEF IInv, ToldIsTrue
<1>4. OneReload'
  BY <1>1, <1>2, ReloadStays DEF IInv
<1>5. Coming("list")' /\ Coming("table")'
  BY <1>1, <1>2 DEF Coming
<1>6. ListKept' /\ TableKept'
  BY <1>1, <1>5, ListStays, TableStays DEF IInv
<1>. QED  BY <1>2, <1>3, <1>4, <1>6 DEF IInv

LEMMA ConnectKeeps ==
    ASSUME IInv, Connect
    PROVE  IInv'
<1>1. /\ UNCHANGED <<status, severity, told, flow, inbox, asked, answers, list, active, table, doing,
                     excused>>
      /\ socket = "closed" /\ socket' = "open"
  BY DEF Connect, boardVars, callVars, screenVars
<1>2. Shape' /\ ToldIsTrue'
  BY <1>1, AnswersStay DEF IInv, Shape, ToldIsTrue
<1>3. OneReload'
  BY <1>1, ReloadStays DEF IInv
<1>4. (Coming("list")' <=> Coming("list")) /\ (Coming("table")' <=> Coming("table"))
  BY <1>1 DEF Coming, Untold
<1>5. ListKept' /\ TableKept'
  BY <1>1, <1>4, ListStays, TableStays DEF IInv
<1>. QED  BY <1>2, <1>3, <1>5 DEF IInv

\* A part that was coming with a lost message is excused.
LEMMA DropKeeps ==
    ASSUME IInv, Drop
    PROVE  IInv'
<1>1. /\ UNCHANGED <<status, severity, told, flow, asked, answers, list, active, table, doing>>
      /\ socket = "open" /\ socket' = "closed"
      /\ inbox' = <<>>
      /\ excused' = excused \cup {Topics[inbox[k]] : k \in DOMAIN inbox}
  BY DEF Drop, Excuse, boardVars, callVars, screenVars
<1>2. Shape' /\ ToldIsTrue'
  BY <1>1, AnswersStay DEF IInv, Shape, ToldIsTrue
<1>3. OneReload'
  BY <1>1, ReloadStays DEF IInv
<1>4. ASSUME NEW part \in {"list", "table"}
      PROVE  Coming(part) => Coming(part)' \/ part \in excused'
  BY <1>1 DEF Coming, Untold
<1>5. ListKept' /\ TableKept'
  BY <1>1, <1>4, ListStays, TableStays DEF IInv
<1>. QED  BY <1>2, <1>3, <1>5 DEF IInv

LEMMA HearKeeps ==
    ASSUME IInv, Hear
    PROVE  IInv'
<1>. DEFINE k == Refetch[Head(inbox)]
<1>1. /\ UNCHANGED <<status, severity, told, flow, socket, answers, list, active, table, doing, excused>>
      /\ inbox # <<>> /\ inbox' = Tail(inbox)
      /\ asked' = [asked EXCEPT ![k] = @ + 1]
  BY DEF Hear, Ask, boardVars, screenVars
<1>2. /\ inbox \in Seq({"incident", "transaction"})
      /\ Head(inbox) \in {"incident", "transaction"} /\ Head(inbox) = inbox[1]
      /\ Tail(inbox) \in Seq({"incident", "transaction"})
      /\ \A n \in DOMAIN inbox : n # 1 => n - 1 \in DOMAIN Tail(inbox) /\ Tail(inbox)[n - 1] = inbox[n]
  BY <1>1 DEF IInv, Shape, Topics
<1>3. k \in Kinds /\ k # "reload" /\ Parts[k] = {Topics[Head(inbox)]}
  BY <1>2 DEF Refetch, Kinds, Parts, Topics
<1>4. /\ Shape'
      /\ asked'["reload"] = asked["reload"]
      /\ asked'[k] > 0
      /\ \A j \in Kinds : asked[j] > 0 => asked'[j] > 0
  BY <1>1, <1>2, <1>3, AnswersStay DEF IInv, Shape, Topics
<1>5. ToldIsTrue'
  BY <1>1 DEF IInv, ToldIsTrue
<1>6. OneReload'
  BY <1>1, <1>4, ReloadStays DEF IInv
<1>7. ASSUME NEW part \in {"list", "table"}, Coming(part)
      PROVE  Coming(part)'
  <2>1. CASE \E n \in DOMAIN inbox : Topics[inbox[n]] = part
    <3>1. PICK n \in DOMAIN inbox : Topics[inbox[n]] = part
      BY <2>1
    <3>2. CASE n = 1
      BY <1>2, <1>3, <1>4, <3>1, <3>2 DEF Coming
    <3>3. CASE n # 1
      BY <1>1, <1>2, <3>1, <3>3 DEF Coming
    <3>. QED  BY <3>2, <3>3
  <2>2. CASE \E j \in Kinds : part \in Parts[j] /\ asked[j] > 0
    BY <1>4, <2>2 DEF Coming
  <2>3. CASE \/ socket = "none" \/ doing.step = "done"
             \/ part = "list" /\ \E i \in Incidents : Untold(i)
             \/ part = "table" /\ \E tx \in Txs : flow[tx] = "matched"
    BY <1>1, <2>3 DEF Coming, Untold
  <2>. QED  BY <1>7, <2>1, <2>2, <2>3 DEF Coming
<1>8. ListKept' /\ TableKept'
  BY <1>1, <1>7, ListStays, TableStays DEF IInv
<1>. QED  BY <1>4, <1>5, <1>6, <1>8 DEF IInv

-----------------------------------------------------------------------------
(* The operator.                                                           *)

LEMMA PersonKeeps ==
    ASSUME IInv, \/ \E i \in Incidents : Select(i)
                 \/ \E op \in {"ack", "resolve"} : Click(op)
    PROVE  IInv'
<1>1. /\ UNCHANGED <<status, severity, told, flow, socket, inbox, asked, answers, list, table, excused>>
      /\ \/ UNCHANGED doing
         \/ /\ doing = Resting /\ active # None
            /\ \E op \in {"ack", "resolve"} : doing' = [step |-> "sent", op |-> op, id |-> active]
  BY DEF Select, Click, boardVars, linkVars, callVars, screenVars
<1>2. doing'.step = doing.step \/ (doing.step = "idle" /\ doing'.step = "sent")
  BY <1>1 DEF Resting
<1>3. ToldIsTrue'
  BY <1>1 DEF IInv, ToldIsTrue
<1>4. OneReload'
  BY <1>1, <1>2, ReloadStays DEF IInv
<1>5. (Coming("list")' <=> Coming("list")) /\ (Coming("table")' <=> Coming("table"))
  BY <1>1, <1>2 DEF Coming, Untold
<1>6. ListKept' /\ TableKept'
  BY <1>1, <1>5, ListStays, TableStays DEF IInv
<1>7. Shape'
  BY <1>1, AnswersStay DEF IInv, Shape
<1>. QED  BY <1>3, <1>4, <1>6, <1>7 DEF IInv

LEMMA GatewayKeeps ==
    ASSUME IInv, Gateway
    PROVE  IInv'
<1>1. /\ UNCHANGED <<severity, told, flow, socket, inbox, asked, answers, list, active, table>>
      /\ doing.step = "sent"
      /\ excused \subseteq excused'
      /\ status' \in {status, [status EXCEPT ![doing.id] = "acknowledged"],
                      [status EXCEPT ![doing.id] = "resolved"]}
      /\ \/ doing' = [doing EXCEPT !.step = "done"]
         \/ doing' = [doing EXCEPT !.step = "refused"] /\ (UNCHANGED status \/ "list" \in excused')
  BY DEF Gateway, Update, Board!Acknowledge, Board!Resolve, boardVars, linkVars, callVars,
         screenVars, Excuse
<1>2. Shape'
  BY <1>1, AnswersStay DEF IInv, Shape
<1>3. doing'.step \in {"done", "refused"} /\ (doing'.step = "refused" => UNCHANGED status \/ "list" \in excused')
  BY <1>1 DEF IInv, Shape
<1>4. ToldIsTrue'
  BY <1>1 DEF IInv, Shape, ToldIsTrue, Board!Messages
<1>5. OneReload'
  BY <1>1, <1>3, ReloadStays DEF IInv
<1>6. ListKept'
  <2>1. CASE doing'.step = "done"
    BY <1>1, <2>1, ListStays DEF Coming, IInv
  <2>2. CASE UNCHANGED status /\ doing'.step = "refused"
    <3>1. Coming("list")' <=> Coming("list")
      BY <1>1, <2>2 DEF Coming, Untold
    <3>. QED  BY <1>1, <2>2, <3>1, ListStays DEF IInv
  <2>. QED  BY <1>1, <1>3, <2>1, <2>2 DEF ListKept
<1>7. TableKept'
  <2>1. Coming("table") => Coming("table")'
    BY <1>1 DEF Coming
  <2>. QED  BY <1>1, <2>1, TableStays DEF IInv
<1>. QED  BY <1>2, <1>4, <1>5, <1>6, <1>7 DEF IInv

LEMMA AnsweredKeeps ==
    ASSUME IInv, Answered
    PROVE  IInv'
<1>1. UNCHANGED <<status, severity, told, flow, socket, inbox, answers, list, active, table, excused>>
  BY DEF Answered, boardVars, linkVars, screenVars
<1>2. "reload" \in Kinds /\ Parts["reload"] = {"list", "table"}
  BY DEF Kinds, Parts
<1>3. ToldIsTrue'
  BY <1>1 DEF IInv, ToldIsTrue
<1>4. CASE doing.step = "done" /\ doing' = [doing EXCEPT !.step = "reload"] /\ Ask("reload")
  <2>1. /\ asked' \in [Kinds -> Nat] /\ asked'["reload"] = asked["reload"] + 1
        /\ doing'.step = "reload" /\ doing'.id = doing.id
        /\ asked["reload"] \in Nat
    BY <1>2, <1>4 DEF Ask, IInv, Shape
  <2>6. Shape'
    BY <1>1, <1>4, <2>1, AnswersStay DEF IInv, Shape
  <2>2. asked["reload"] = 0 /\ Reloads = {} /\ UNCHANGED Reloads
    BY <1>1, <1>4 DEF IInv, OneReload, Reloads
  <2>3. OneReload'
    BY <2>1, <2>2 DEF OneReload
  <2>4. Coming("list")' /\ Coming("table")'
    BY <1>2, <2>1, <2>2 DEF Coming
  <2>5. ListKept' /\ TableKept'
    BY <1>1, <2>4, ListStays, TableStays DEF IInv
  <2>. QED  BY <1>3, <2>6, <2>3, <2>5 DEF IInv
<1>5. CASE doing.step = "refused" /\ doing' = Resting /\ UNCHANGED asked
  <2>1. Shape' /\ doing'.step = "idle"
    BY <1>1, <1>5, AnswersStay DEF IInv, Shape, Resting
  <2>2. OneReload'
    BY <1>1, <1>5, <2>1, ReloadStays DEF IInv
  <2>3. (Coming("list")' <=> Coming("list")) /\ (Coming("table")' <=> Coming("table"))
    BY <1>1, <1>5, <2>1 DEF Coming, Untold
  <2>4. ListKept' /\ TableKept'
    BY <1>1, <2>3, ListStays, TableStays DEF IInv
  <2>. QED  BY <1>3, <2>1, <2>2, <2>4 DEF IInv
<1>. QED  BY <1>4, <1>5 DEF Answered

-----------------------------------------------------------------------------
(* Reading.                                                                *)

\* r, the answer to a request of kind k, was read and is the L-th and newest.
AnswerRead(k, r, L) ==
    /\ answers' = Append(answers, r)
    /\ L = Len(answers) + 1
    /\ DOMAIN answers' = DOMAIN answers \cup {L}
    /\ answers'[L] = r
    /\ \A n \in DOMAIN answers : n \in Nat /\ n < L /\ answers'[n] = answers[n]
    /\ r.what = k
    /\ r.parts \subseteq Parts[k]
    /\ "list" \in r.parts => r.items = Page
    /\ "table" \in r.parts => r.rows = Rows
    /\ Parts[k] \ r.parts \subseteq excused'
    /\ excused \subseteq excused'
    /\ AnswersShape'

LEMMA ReadFacts ==
    ASSUME IInv, NEW k \in Kinds, Read(k)
    PROVE  \E r : \E L \in Nat : AnswerRead(k, r, L)
<1>1. PICK parts \in SUBSET Parts[k] :
        /\ answers' = Append(answers,
              [what  |-> k, parts |-> parts,
               items |-> IF "list" \in parts THEN Page ELSE <<>>,
               rows  |-> IF "table" \in parts THEN Rows ELSE [tx \in {} |-> "none"]])
        /\ \/ parts = Parts[k] /\ UNCHANGED excused
           \/ Excuse(Parts[k] \ parts)
  BY DEF Read
<1>. DEFINE r == [what  |-> k, parts |-> parts,
                  items |-> IF "list" \in parts THEN Page ELSE <<>>,
                  rows  |-> IF "table" \in parts THEN Rows ELSE [tx \in {} |-> "none"]]
            L == Len(answers) + 1
<1>2. /\ r.what = k /\ r.parts = parts
      /\ "list" \in r.parts => r.items = Page
      /\ "table" \in r.parts => r.rows = Rows
  OBVIOUS
<1>3. answers' = Append(answers, r)
  BY <1>1
<1>4. /\ Parts[k] \ parts \subseteq excused'
      /\ excused \subseteq excused'
  BY <1>1 DEF Excuse
<1>. HIDE DEF r
<1>5. AnswersShape
  BY DEF IInv, Shape
<1>6. /\ answers' \in Seq({answers[n] : n \in DOMAIN answers} \cup {r})
      /\ DOMAIN answers' = DOMAIN answers \cup {L}
      /\ DOMAIN answers = 1..Len(answers)
      /\ Len(answers) \in Nat
      /\ answers'[L] = r
      /\ \A n \in DOMAIN answers : answers'[n] = answers[n]
  BY <1>3, <1>5, AppendFacts DEF AnswersShape
<1>7. \A n \in DOMAIN answers : n \in Nat /\ n < L /\ answers'[n] = answers[n]
  BY <1>6
<1>8. AnswersShape'
  <2>1. answers' \in Seq({answers'[n] : n \in DOMAIN answers'})
    BY <1>6, SeqOfOwn
  <2>2. \A n \in DOMAIN answers' : answers'[n].parts \subseteq Parts[answers'[n].what]
    BY <1>1, <1>2, <1>5, <1>6 DEF AnswersShape
  <2>. QED  BY <2>1, <2>2 DEF AnswersShape
<1>9. L \in Nat
  BY <1>6
<1>10. AnswerRead(k, r, L)
  BY <1>2, <1>3, <1>4, <1>6, <1>7, <1>8 DEF AnswerRead
<1>. QED  BY <1>9, <1>10

\* What the gateway reads is the newest answer, and it is what the tables say.
LEMMA ReadKeeps ==
    ASSUME IInv, NEW k \in Kinds, Read(k)
    PROVE  IInv'
<1>1. /\ UNCHANGED <<status, severity, told, flow, socket, inbox, list, active, table, doing>>
      /\ asked[k] > 0 /\ asked' = [asked EXCEPT ![k] = @ - 1]
  BY DEF Read, boardVars, linkVars, screenVars
<1>2. PICK r : \E L \in Nat : AnswerRead(k, r, L)
  BY ReadFacts
<1>2a. PICK L \in Nat :
             /\ answers' = Append(answers, r)
             /\ L = Len(answers) + 1
             /\ DOMAIN answers' = DOMAIN answers \cup {L}
             /\ answers'[L] = r
             /\ \A n \in DOMAIN answers : n \in Nat /\ n < L /\ answers'[n] = answers[n]
             /\ r.what = k
             /\ r.parts \subseteq Parts[k]
             /\ "list" \in r.parts => r.items = Page
             /\ "table" \in r.parts => r.rows = Rows
             /\ Parts[k] \ r.parts \subseteq excused'
             /\ excused \subseteq excused'
             /\ AnswersShape'
  BY <1>2 DEF AnswerRead
<1>3. asked \in [Kinds -> Nat] /\ asked' \in [Kinds -> Nat] /\ "reload" \in Kinds
  <2>1. asked \in [Kinds -> Nat]
    BY DEF IInv, Shape
  <2>2. asked' \in [Kinds -> Nat]
    BY <1>1, <2>1
  <2>. QED  BY <2>1, <2>2 DEF Kinds, Parts
<1>4. Shape' /\ ToldIsTrue'
  <2>1. AnswersShape'
    BY <1>2a
  <2>. QED  BY <1>1, <1>3, <2>1 DEF IInv, Shape, ToldIsTrue
<1>5. OneReload'
  <2>1. CASE k = "reload"
    <3>1. asked["reload"] = 1 /\ asked'["reload"] = 0 /\ doing.step = "reload" /\ Reloads = {}
      BY <1>1, <1>3, <2>1 DEF IInv, OneReload
    <3>2. \A n \in Reloads' : n = L
      BY <1>2a, <3>1 DEF Reloads
    <3>. QED  BY <1>1, <3>1, <3>2 DEF OneReload
  <2>2. CASE k # "reload"
    <3>1. asked'["reload"] = asked["reload"]
      BY <1>1, <1>3, <2>2
    <3>2. Reloads' = Reloads
      BY <1>2a, <2>2 DEF Reloads
    <3>. QED  BY <1>1, <3>1, <3>2 DEF IInv, OneReload
  <2>. QED  BY <2>1, <2>2
<1>6. ASSUME NEW part \in {"list", "table"}, part \notin Parts[k], Coming(part)
      PROVE  Coming(part)'
  BY <1>1, <1>3, <1>6 DEF Coming, Untold
<1>7. ASSUME NEW part \in {"list", "table"}, part \notin r.parts
      PROVE  /\ Arriving(part)' <=> Arriving(part)
             /\ \A n \in DOMAIN answers' : Newest(part, n)' =>
                  Newest(part, n) /\ answers'[n] = answers[n]
  <2>1. \A n \in DOMAIN answers' : part \in answers'[n].parts => n \in DOMAIN answers
    BY <1>2a, <1>7
  <2>2. \A n \in DOMAIN answers : answers'[n] = answers[n] /\ n \in DOMAIN answers'
    BY <1>2a
  <2>. QED  BY <2>1, <2>2 DEF Arriving, Newest
<1>8. ASSUME NEW part \in {"list", "table"}, part \in r.parts
      PROVE  /\ Arriving(part)'
             /\ \A n \in DOMAIN answers' : Newest(part, n)' => n = L
  <2>1. L \in DOMAIN answers' /\ part \in answers'[L].parts
    BY <1>2a, <1>8
  <2>2. \A n \in DOMAIN answers' : n \in Nat /\ n <= L
    BY <1>2a
  <2>3. ASSUME NEW n \in DOMAIN answers', Newest(part, n)'
        PROVE  n = L
    <3>1. L <= n
      BY <2>1, <2>3 DEF Newest
    <3>. QED  BY <2>2, <3>1
  <2>. QED  BY <2>1, <2>3 DEF Arriving
<1>9. ListKept'
  <2>1. CASE "list" \in r.parts
    BY <1>1, <1>2a, <1>8, <2>1, PageSame DEF ListKept
  <2>2. CASE "list" \notin r.parts
    <3>1. SUFFICES ASSUME "list" \notin excused', ~Coming("list")'
                   PROVE  /\ ~Arriving("list")' => list' = Page'
                          /\ \A n \in DOMAIN answers' : Newest("list", n)' => answers'[n].items = Page'
      BY DEF ListKept
    <3>2. "list" \notin Parts[k] /\ "list" \notin excused /\ ~Coming("list")
      BY <1>2a, <1>6, <2>2, <3>1
    <3>3. /\ ~Arriving("list") => list = Page
          /\ \A n \in DOMAIN answers : Newest("list", n) => answers[n].items = Page
      BY <3>2 DEF IInv, ListKept
    <3>4. \A n \in DOMAIN answers' : Newest("list", n)' =>
            n \in DOMAIN answers /\ Newest("list", n) /\ answers'[n] = answers[n]
      BY <1>7, <2>2 DEF Newest
    <3>. QED  BY <1>1, <1>7, <2>2, <3>3, <3>4, PageSame
  <2>. QED  BY <2>1, <2>2
<1>10. TableKept'
  <2>1. CASE "table" \in r.parts
    <3>1. \A tx \in Txs : flow[tx] = "told" => Rows[tx] = "matched"
      BY DEF Rows, Shown
    <3>. QED  BY <1>1, <1>2a, <1>8, <2>1, <3>1 DEF TableKept
  <2>2. CASE "table" \notin r.parts
    <3>1. SUFFICES ASSUME "table" \notin excused', ~Coming("table")', NEW tx \in Txs, flow'[tx] = "told"
                   PROVE  /\ ~Arriving("table")' => table'[tx] = "matched"
                          /\ \A n \in DOMAIN answers' :
                               Newest("table", n)' => answers'[n].rows[tx] = "matched"
      BY DEF TableKept
    <3>2. "table" \notin Parts[k] /\ "table" \notin excused /\ ~Coming("table")
      BY <1>2a, <1>6, <2>2, <3>1
    <3>3. /\ ~Arriving("table") => table[tx] = "matched"
          /\ \A n \in DOMAIN answers : Newest("table", n) => answers[n].rows[tx] = "matched"
      BY <1>1, <3>1, <3>2 DEF IInv, TableKept
    <3>4. \A n \in DOMAIN answers' : Newest("table", n)' =>
            n \in DOMAIN answers /\ Newest("table", n) /\ answers'[n] = answers[n]
      BY <1>7, <2>2 DEF Newest
    <3>. QED  BY <1>1, <1>7, <2>2, <3>3, <3>4
  <2>. QED  BY <2>1, <2>2
<1>. QED  BY <1>4, <1>5, <1>9, <1>10 DEF IInv

-----------------------------------------------------------------------------
(* Showing.                                                                *)

\* The place an answer had before the n-th was taken out.
Old(i, n) == IF i < n THEN i ELSE i + 1

LEMMA ShowFacts ==
    ASSUME IInv, NEW n \in DOMAIN answers, Show(n)
    PROVE  /\ DOMAIN answers = 1..Len(answers) /\ Len(answers) \in Nat
           /\ DOMAIN answers' = 1..(Len(answers) - 1)
           /\ \A i \in DOMAIN answers' : Old(i, n) \in DOMAIN answers \ {n}
                                         /\ answers'[i] = answers[Old(i, n)]
           /\ \A m \in DOMAIN answers \ {n} : \E i \in DOMAIN answers' : Old(i, n) = m
           /\ AnswersShape'
<1>1. answers' = RemoveAt(answers, n) /\ AnswersShape
  BY DEF Show, IInv, Shape
<1>2. /\ answers' \in Seq({answers[m] : m \in DOMAIN answers})
      /\ DOMAIN answers' = 1..(Len(answers) - 1)
      /\ DOMAIN answers = 1..Len(answers)
      /\ \A i \in 1..(Len(answers) - 1) :
           answers'[i] = IF i < n THEN answers[i] ELSE answers[i + 1]
  BY <1>1, RemoveFacts DEF AnswersShape
<1>3. Len(answers) \in Nat /\ n \in 1..Len(answers)
  BY <1>1, <1>2 DEF AnswersShape
<1>4. \A i \in DOMAIN answers' : Old(i, n) \in DOMAIN answers \ {n}
                                 /\ answers'[i] = answers[Old(i, n)]
  BY <1>2, <1>3 DEF Old
<1>5. ASSUME NEW m \in DOMAIN answers \ {n}
      PROVE  \E i \in DOMAIN answers' : Old(i, n) = m
  <2>1. CASE m < n
    <3>1. m \in DOMAIN answers' /\ Old(m, n) = m
      BY <1>2, <1>3, <2>1 DEF Old
    <3>. QED  BY <3>1
  <2>2. CASE m > n
    <3>1. m - 1 \in DOMAIN answers' /\ Old(m - 1, n) = m
      BY <1>2, <1>3, <2>2 DEF Old
    <3>. QED  BY <3>1
  <2>. QED  BY <1>2, <1>3, <2>1, <2>2
<1>6. AnswersShape'
  <2>1. answers' \in Seq({answers'[i] : i \in DOMAIN answers'})
    BY <1>2, SeqOfOwn
  <2>. QED  BY <1>1, <1>4, <2>1 DEF AnswersShape
<1>. QED  BY <1>2, <1>3, <1>4, <1>5, <1>6

\* Without overtaking, what is newest afterwards was newest before.
LEMMA ShowNewest ==
    ASSUME IInv, NEW n \in DOMAIN answers, Show(n),
           NEW part \in {"list", "table"}, part \notin Overtakes(n)
    PROVE  /\ \A i \in DOMAIN answers' : Newest(part, i)' =>
                Newest(part, Old(i, n)) /\ answers'[i] = answers[Old(i, n)]
           /\ ~Arriving(part)' /\ part \in answers[n].parts => Newest(part, n)
           /\ ~Arriving(part)' /\ part \notin answers[n].parts => ~Arriving(part)
<1>1. /\ DOMAIN answers = 1..Len(answers) /\ Len(answers) \in Nat
      /\ DOMAIN answers' = 1..(Len(answers) - 1)
      /\ \A i \in DOMAIN answers' : Old(i, n) \in DOMAIN answers \ {n}
                                    /\ answers'[i] = answers[Old(i, n)]
      /\ \A m \in DOMAIN answers \ {n} : \E i \in DOMAIN answers' : Old(i, n) = m
  BY ShowFacts
<1>2. ASSUME part \in answers[n].parts, NEW m \in DOMAIN answers, part \in answers[m].parts
      PROVE  n <= m
  <2>1. m \notin 1..(n - 1)
    BY <1>2 DEF Overtakes
  <2>. QED  BY <1>1, <2>1
<1>3. ASSUME NEW i \in DOMAIN answers', Newest(part, i)'
      PROVE  Newest(part, Old(i, n)) /\ answers'[i] = answers[Old(i, n)]
  <2>1. /\ Old(i, n) \in DOMAIN answers \ {n}
        /\ answers'[i] = answers[Old(i, n)]
        /\ part \in answers[Old(i, n)].parts
    BY <1>1, <1>3 DEF Newest
  <2>2. ASSUME NEW m \in DOMAIN answers, part \in answers[m].parts
        PROVE  m <= Old(i, n)
    <3>1. CASE m = n
      BY <1>2, <2>1, <2>2, <3>1
    <3>2. CASE m # n
      <4>1. PICK j \in DOMAIN answers' : Old(j, n) = m
        BY <1>1, <3>2
      <4>2. part \in answers'[j].parts
        BY <1>1, <2>2, <4>1
      <4>3. j <= i
        BY <1>3, <4>2 DEF Newest
      <4>. QED  BY <1>1, <4>1, <4>3 DEF Old
    <3>. QED  BY <3>1, <3>2
  <2>. QED  BY <2>1, <2>2 DEF Newest
<1>4. ASSUME ~Arriving(part)'
      PROVE  \A m \in DOMAIN answers \ {n} : part \notin answers[m].parts
  BY <1>1, <1>4 DEF Arriving
<1>5. ASSUME ~Arriving(part)', part \in answers[n].parts
      PROVE  Newest(part, n)
  BY <1>1, <1>4, <1>5 DEF Newest
<1>6. ASSUME ~Arriving(part)', part \notin answers[n].parts
      PROVE  ~Arriving(part)
  BY <1>4, <1>6 DEF Arriving
<1>. QED  BY <1>3, <1>5, <1>6

LEMMA ShowKeeps ==
    ASSUME IInv, NEW n \in DOMAIN answers, Show(n)
    PROVE  IInv'
<1>1. /\ UNCHANGED <<status, severity, told, flow, socket, inbox, asked>>
      /\ "list" \in answers[n].parts => list' = answers[n].items
      /\ "list" \notin answers[n].parts => list' = list
      /\ table' = IF "table" \in answers[n].parts THEN answers[n].rows ELSE table
      /\ doing' = IF answers[n].what = "reload" THEN Resting ELSE doing
      /\ excused' = excused \cup Overtakes(n)
  BY DEF Show, AfterAction, Excuse, boardVars, linkVars
<1>2. /\ DOMAIN answers' = 1..(Len(answers) - 1)
      /\ \A i \in DOMAIN answers' : Old(i, n) \in DOMAIN answers \ {n}
                                    /\ answers'[i] = answers[Old(i, n)]
      /\ AnswersShape'
  BY ShowFacts
<1>3. Shape' /\ ToldIsTrue'
  <2>1. doing' \in [step : {"idle", "sent", "done", "refused", "reload"},
                    op : {"none", "ack", "resolve"}, id : {doing'.id}]
    BY <1>1 DEF IInv, Shape, Resting
  <2>. QED  BY <1>1, <1>2, <2>1 DEF IInv, Shape, ToldIsTrue
<1>4. OneReload' /\ (doing'.step = "done" <=> doing.step = "done")
  <2>1. CASE answers[n].what = "reload"
    <3>1. n \in Reloads
      BY <2>1 DEF Reloads
    <3>2. doing.step = "reload" /\ doing'.step = "idle"
      BY <1>1, <2>1, <3>1 DEF IInv, OneReload, Resting
    <3>3. \A m \in Reloads : m = n
      BY <3>1 DEF IInv, OneReload
    <3>4. Reloads' = {}
      BY <1>2, <3>3 DEF Reloads
    <3>5. asked["reload"] = 0
      <4>1. asked["reload"] \in Nat
        BY DEF IInv, Shape, Kinds, Parts
      <4>2. asked["reload"] <= 1 /\ asked["reload"] # 1
        BY <3>1 DEF IInv, OneReload
      <4>. QED  BY <4>1, <4>2
    <3>. QED  BY <1>1, <3>2, <3>4, <3>5 DEF OneReload
  <2>2. CASE answers[n].what # "reload"
    <3>1. UNCHANGED <<doing, asked>>
      BY <1>1, <2>2
    <3>2. \A i \in Reloads' : i \in Nat /\ Old(i, n) \in Reloads
      BY <1>2 DEF Reloads
    <3>3. n \in Int
      BY ShowFacts
    <3>4. ASSUME NEW i \in Reloads', NEW j \in Reloads'
          PROVE  i = j
      <4>1. Old(i, n) = Old(j, n)
        BY <3>2 DEF IInv, OneReload
      <4>. QED  BY <3>2, <3>3, <4>1 DEF Old
    <3>5. Reloads = {} => Reloads' = {}
      BY <3>2
    <3>. QED  BY <3>1, <3>4, <3>5 DEF IInv, OneReload
  <2>. QED  BY <2>1, <2>2
<1>5. (Coming("list")' <=> Coming("list")) /\ (Coming("table")' <=> Coming("table"))
  BY <1>1, <1>4 DEF Coming, Untold
<1>6. ListKept'
  <2>1. SUFFICES ASSUME "list" \notin excused', ~Coming("list")'
                 PROVE  /\ ~Arriving("list")' => list' = Page'
                        /\ \A i \in DOMAIN answers' : Newest("list", i)' => answers'[i].items = Page'
    BY DEF ListKept
  <2>2. "list" \notin Overtakes(n) /\ "list" \notin excused /\ ~Coming("list")
    BY <1>1, <1>5, <2>1
  <2>3. /\ ~Arriving("list") => list = Page
        /\ \A i \in DOMAIN answers : Newest("list", i) => answers[i].items = Page
    BY <2>2 DEF IInv, ListKept
  <2>. QED  BY <1>1, <1>2, <2>2, <2>3, PageSame, ShowNewest
<1>7. TableKept'
  <2>1. SUFFICES ASSUME "table" \notin excused', ~Coming("table")', NEW tx \in Txs, flow'[tx] = "told"
                 PROVE  /\ ~Arriving("table")' => table'[tx] = "matched"
                        /\ \A i \in DOMAIN answers' :
                             Newest("table", i)' => answers'[i].rows[tx] = "matched"
    BY DEF TableKept
  <2>2. "table" \notin Overtakes(n) /\ "table" \notin excused /\ ~Coming("table")
    BY <1>1, <1>5, <2>1
  <2>3. /\ ~Arriving("table") => table[tx] = "matched"
        /\ \A i \in DOMAIN answers : Newest("table", i) => answers[i].rows[tx] = "matched"
    BY <1>1, <2>1, <2>2 DEF IInv, TableKept
  <2>. QED  BY <1>1, <1>2, <2>2, <2>3, ShowNewest
<1>. QED  BY <1>3, <1>4, <1>6, <1>7 DEF IInv

-----------------------------------------------------------------------------
(* The theorems.                                                           *)

LEMMA InitHolds == Init => IInv
<1>. SUFFICES ASSUME Init
              PROVE  IInv
  OBVIOUS
<1>1. /\ asked = [k \in Kinds |-> 0] /\ answers = <<>> /\ inbox = <<>> /\ told = {}
      /\ flow = [tx \in Txs |-> "unseen"] /\ doing = Resting /\ socket = "none"
      /\ status = [i \in Incidents |-> "none"] /\ severity = [i \in Incidents |-> 1]
  BY DEF Init, Board!Init
<1>2. "reload" \in Kinds
  BY DEF Kinds, Parts
<1>3. Shape /\ ToldIsTrue /\ OneReload
  BY <1>1, <1>2 DEF Shape, AnswersShape, ToldIsTrue, OneReload, Reloads, Resting
<1>4. Coming("list") /\ Coming("table")
  BY <1>1 DEF Coming
<1>. QED  BY <1>3, <1>4 DEF IInv, ListKept, TableKept

LEMMA NextHolds == IInv /\ [Next]_vars => IInv'
<1>. SUFFICES ASSUME IInv, [Next]_vars
              PROVE  IInv'
  OBVIOUS
<1>1. CASE System
  BY <1>1, ChangeKeeps, TellKeeps, ElsewhereKeeps, JudgeKeeps, TransactionKeeps DEF System
<1>2. CASE Browser
  BY <1>2, MountKeeps, ConnectKeeps, DropKeeps, HearKeeps, ReadKeeps, ShowKeeps DEF Browser
<1>3. CASE Person
  BY <1>3, PersonKeeps, GatewayKeeps, AnsweredKeeps DEF Person
<1>4. CASE UNCHANGED vars
  <2>1. UNCHANGED <<status, severity, told, flow, socket, inbox, asked, answers, list, active, table,
                    doing, excused>>
    BY <1>4 DEF vars, boardVars, linkVars, callVars, screenVars
  <2>2. Shape' /\ ToldIsTrue'
    BY <2>1, AnswersStay DEF IInv, Shape, ToldIsTrue
  <2>3. OneReload'
    BY <2>1, ReloadStays DEF IInv
  <2>4. (Coming("list")' <=> Coming("list")) /\ (Coming("table")' <=> Coming("table"))
    BY <2>1 DEF Coming, Untold
  <2>5. ListKept' /\ TableKept'
    BY <2>1, <2>4, ListStays, TableStays DEF IInv
  <2>. QED  BY <2>2, <2>3, <2>5 DEF IInv
<1>. QED  BY <1>1, <1>2, <1>3, <1>4 DEF Next

\* In every reachable state the newest answer about a part of the screen is
\* what the tables say, or something is coming that will start a fetch, or the
\* part is excused.
THEOREM DashboardInvariant == Spec => []IInv
  BY InitHolds, NextHolds, PTL DEF Spec

\* A dashboard at rest lists the open incidents as they are: the order in which
\* the matcher writes and publishes, the refetches and the fetch after an
\* action leave no gap but those excused.
THEOREM DashboardListCurrent == Spec => []ListIsCurrent
<1>1. IInv => ListIsCurrent
  BY DEF IInv, ListKept, ListIsCurrent
<1>. QED  BY <1>1, DashboardInvariant, PTL

\* A dashboard at rest shows every match that was published.
THEOREM DashboardMatchesShown == Spec => []MatchesAreShown
<1>1. IInv => MatchesAreShown
  BY DEF IInv, TableKept, MatchesAreShown
<1>. QED  BY <1>1, DashboardInvariant, PTL

-----------------------------------------------------------------------------
(* Types.  The page is computed by rank; that every rank is taken follows  *)
(* from counting.                                                          *)

Ahead(i) == {j \in Open : Before(j, i)}

\* Every place of the page has its incident: the ranks of n open incidents are
\* n different numbers below n.
LEMMA RankTaken ==
    ASSUME Shape, NEW k \in 1..Cardinality(Open)
    PROVE  \E i \in Open : Cardinality(Ahead(i)) = k - 1
<1>. DEFINE n == Cardinality(Open)
            Ranks == 0..(n - 1)
            rank == [i \in Open |-> Cardinality(Ahead(i))]
<1>1. Open \subseteq Incidents /\ IsFiniteSet(Open) /\ n \in Nat
  BY DashboardAssumption, FS_Subset, FS_CardinalityType DEF Open
<1>2. \A i, j \in Open : i \in Int /\ j \in Int /\ severity[i] \in Int /\ severity[j] \in Int
  BY <1>1, DashboardAssumption DEF Shape
<1>3. ASSUME NEW i \in Open
      PROVE  IsFiniteSet(Ahead(i)) /\ Cardinality(Ahead(i)) \in Nat /\ Cardinality(Ahead(i)) < n
  <2>1. Ahead(i) \in SUBSET Open /\ i \notin Ahead(i)
    BY <1>2 DEF Ahead, Before
  <2>2. /\ IsFiniteSet(Ahead(i)) /\ Cardinality(Ahead(i)) <= n
        /\ n = Cardinality(Ahead(i)) => Open = Ahead(i)
    BY <1>1, <2>1, FS_Subset
  <2>. QED  BY <1>1, <2>1, <2>2, FS_CardinalityType
<1>4. ASSUME NEW i \in Open, NEW j \in Open, Before(i, j)
      PROVE  Cardinality(Ahead(i)) < Cardinality(Ahead(j))
  <2>1. Ahead(i) \in SUBSET Ahead(j)
    BY <1>2, <1>4 DEF Ahead, Before
  <2>2. i \in Ahead(j) /\ i \notin Ahead(i)
    BY <1>2, <1>4 DEF Ahead, Before
  <2>3. /\ Cardinality(Ahead(i)) <= Cardinality(Ahead(j))
        /\ Cardinality(Ahead(j)) = Cardinality(Ahead(i)) => Ahead(j) = Ahead(i)
    BY <1>3, <2>1, FS_Subset
  <2>. QED  BY <1>3, <2>2, <2>3
<1>5. \A i, j \in Open : i # j => Before(i, j) \/ Before(j, i)
  BY <1>2 DEF Before
<1>6. rank \in Injection(Open, Ranks)
  <2>1. \A i \in Open : rank[i] = Cardinality(Ahead(i))
    OBVIOUS
  <2>2. rank \in [Open -> Ranks]
    BY <1>1, <1>3
  <2>3. ASSUME NEW i \in Open, NEW j \in Open, rank[i] = rank[j]
        PROVE  i = j
    <3>1. ~Before(i, j) /\ ~Before(j, i)
      BY <1>3, <1>4, <2>1, <2>3
    <3>. QED  BY <1>5, <3>1
  <2>. HIDE DEF rank
  <2>. QED  BY <2>2, <2>3 DEF Injection, IsInjective
<1>7. IsFiniteSet(Ranks) /\ Cardinality(Ranks) = n
  <2>. HIDE DEF n
  <2>1. n - 1 \in Int /\ (IF 0 > n - 1 THEN 0 ELSE n - 1 - 0 + 1) = n
    BY <1>1
  <2>. QED  BY <2>1, FS_Interval
<1>8. rank \in Surjection(Open, Ranks)
  <2>. HIDE DEF rank, Ranks
  <2>1. Cardinality(Open) = Cardinality(Ranks)
    BY <1>7
  <2>. QED  BY <1>6, <1>7, <2>1, FS_Injection
<1>9. k - 1 \in Ranks
  BY <1>1
<1>10. \E i \in Open : rank[i] = k - 1
  <2>. HIDE DEF rank
  <2>. QED  BY <1>8, <1>9 DEF Surjection
<1>. QED  BY <1>10

LEMMA PageTyped ==
    ASSUME Shape
    PROVE  Page \in Seq(Incidents)
<1>. DEFINE n == IF Cardinality(Open) < PageSize THEN Cardinality(Open) ELSE PageSize
            At(k) == CHOOSE i \in Open : Cardinality({j \in Open : Before(j, i)}) = k - 1
<1>1. Open \subseteq Incidents /\ Cardinality(Open) \in Nat
  BY DashboardAssumption, FS_Subset, FS_CardinalityType DEF Open
<1>2. n \in Nat /\ n <= Cardinality(Open)
  BY <1>1, DashboardAssumption
<1>3. ASSUME NEW k \in 1..n
      PROVE  At(k) \in Incidents
  <2>1. k \in 1..Cardinality(Open)
    BY <1>1, <1>2
  <2>2. \E i \in Open : Cardinality({j \in Open : Before(j, i)}) = k - 1
    BY <2>1, RankTaken DEF Ahead
  <2>3. At(k) \in Open
    BY <2>2
  <2>. QED  BY <1>1, <2>3
<1>4. Page = [k \in 1..n |-> At(k)]
  BY DEF Page
<1>. HIDE DEF n, At
<1>. QED  BY <1>2, <1>3, <1>4

LEMMA RowsTyped ==
    ASSUME Shape
    PROVE  Rows \in [Txs -> {"none", "matched", "mismatch"}]
  BY DEF Shape, Rows, Shown

\* TypeOK leaves open what an answer carries for a part it does not have; one
\* that has the table brings a row for every transaction.
TableAnswered ==
    \A n \in DOMAIN answers : "table" \in answers[n].parts =>
        answers[n].rows \in [Txs -> {"none", "matched", "mismatch"}]

LEMMA TypedInit == Init => TypeOK
<1>. SUFFICES ASSUME Init
              PROVE  TypeOK
  OBVIOUS
<1>1. answers = <<>> /\ inbox = <<>> /\ list = <<>>
  BY DEF Init
<1>2. answers \in Seq(Answers) /\ inbox \in Seq(DOMAIN Topics) /\ list \in Seq(Incidents)
  BY <1>1
<1>3. DOMAIN answers = {}
  BY <1>1
<1>. QED  BY <1>2, <1>3 DEF Init, TypeOK, Resting

LEMMA TableAnsweredKept ==
    ASSUME IInv, TableAnswered, [Next]_vars
    PROVE  TableAnswered'
<1>1. CASE UNCHANGED answers
  BY <1>1 DEF TableAnswered
<1>2. ASSUME NEW k \in Kinds, Read(k)
      PROVE  TableAnswered'
  <2>1. PICK r : \E L \in Nat : AnswerRead(k, r, L)
    BY <1>2, ReadFacts
  <2>2. PICK L \in Nat : /\ DOMAIN answers' = DOMAIN answers \cup {L}
                         /\ answers'[L] = r
                         /\ \A n \in DOMAIN answers : answers'[n] = answers[n]
                         /\ "table" \in r.parts => r.rows = Rows
    BY <2>1 DEF AnswerRead
  <2>3. Rows \in [Txs -> {"none", "matched", "mismatch"}]
    BY RowsTyped DEF IInv
  <2>. QED  BY <2>2, <2>3 DEF TableAnswered
<1>3. ASSUME NEW n \in DOMAIN answers, Show(n)
      PROVE  TableAnswered'
  <2>1. \A i \in DOMAIN answers' : Old(i, n) \in DOMAIN answers /\ answers'[i] = answers[Old(i, n)]
    BY <1>3, ShowFacts
  <2>. QED  BY <2>1 DEF TableAnswered
<1>4. \/ UNCHANGED answers
      \/ \E k \in Kinds : Read(k)
      \/ \E n \in DOMAIN answers : Show(n)
  <2>1. CASE System
    BY <2>1 DEF System, Change, TellIncident, Elsewhere, Receive, Progress, TellMatched, Judge,
         callVars
  <2>2. CASE Browser
    BY <2>2 DEF Browser, Mount, Connect, Drop, Hear, callVars
  <2>3. CASE Person
    BY <2>3 DEF Person, Select, Click, Gateway, Answered, callVars
  <2>. QED  BY <2>1, <2>2, <2>3 DEF Next, vars, callVars
<1>. QED  BY <1>1, <1>2, <1>3, <1>4

LEMMA BudgetTyped ==
    TypeOK => excused \subseteq {"list", "table"} /\ faults \in Nat /\ drops \in Nat
  BY DEF TypeOK

LEMMA AnswerTyped ==
    ASSUME TypeOK, NEW n \in DOMAIN answers
    PROVE  /\ answers[n].items \in Seq(Incidents)
           /\ answers[n].parts \subseteq {"list", "table"}
<1>1. answers[n] \in Answers
  BY DEF TypeOK
<1>. QED  BY <1>1 DEF Answers

\* What the system does changes nothing of the screen.
LEMMA SystemTyped ==
    ASSUME IInv, TypeOK, System
    PROVE  TypeOK'
<1>1. UNCHANGED <<socket, asked, answers, list, active, table, doing>>
  BY DEF System, Change, TellIncident, Elsewhere, Receive, Progress, TellMatched, Judge,
         linkVars, callVars, screenVars
<1>2. flow' \in [Txs -> {"unseen", "open", "matched", "mismatch", "told"}]
  BY NextHolds DEF IInv, Shape, Next
<1>3. inbox' \in Seq(DOMAIN Topics)
  BY NextHolds DEF IInv, Shape, Next
<1>4. ASSUME NEW topic, NEW part \in {"list", "table"}, Publish(topic, part)
      PROVE  excused' \subseteq {"list", "table"} /\ faults' \in Nat /\ drops' \in Nat
  BY <1>4, BudgetTyped DEF Publish, Excuse, Fault, budgetVars
<1>5. excused' \subseteq {"list", "table"} /\ faults' \in Nat /\ drops' \in Nat
  <2>1. CASE Change \/ \E tx \in Txs, v \in {"matched", "mismatch"} : Judge(tx, v)
    BY <2>1, BudgetTyped DEF Change, Judge, budgetVars
  <2>2. CASE \E i \in Incidents : Elsewhere(i)
    BY <2>2, BudgetTyped DEF Elsewhere, Excuse, budgetVars
  <2>3. CASE \/ \E m \in Board!Messages : TellIncident(m)
             \/ \E tx \in Txs : Receive(tx) \/ Progress(tx) \/ TellMatched(tx)
    BY <2>3, <1>4 DEF TellIncident, Receive, Progress, TellMatched
  <2>. QED  BY <2>1, <2>2, <2>3 DEF System
<1>. QED  BY <1>1, <1>2, <1>3, <1>5 DEF TypeOK

LEMMA LinkTyped ==
    ASSUME IInv, TypeOK, Mount \/ Connect \/ Drop \/ Hear
    PROVE  TypeOK'
<1>1. UNCHANGED <<flow, answers, list, active, table, doing>>
  BY DEF Mount, Connect, Drop, Hear, callVars, screenVars
<1>2. /\ inbox' \in Seq(DOMAIN Topics)
      /\ asked' \in [Kinds -> Nat]
  BY NextHolds DEF IInv, Shape, Next, Browser
<1>3. socket' \in {"none", "open", "closed"}
  BY DEF TypeOK, Mount, Connect, Drop, Hear
<1>4. excused' \subseteq {"list", "table"} /\ faults' \in Nat /\ drops' \in Nat
  <2>1. CASE Drop
    <3>1. \A k \in DOMAIN inbox : Topics[inbox[k]] \in {"list", "table"}
      BY DEF TypeOK, Topics
    <3>. QED  BY <2>1, <3>1, BudgetTyped DEF Drop, Excuse
  <2>2. CASE Mount \/ Connect \/ Hear
    BY <2>2 DEF Mount, Connect, Hear, budgetVars, TypeOK
  <2>. QED  BY <2>1, <2>2
<1>. QED  BY <1>1, <1>2, <1>3, <1>4 DEF TypeOK

LEMMA ReadTyped ==
    ASSUME IInv, TypeOK, NEW k \in Kinds, Read(k)
    PROVE  TypeOK'
<1>1. UNCHANGED <<flow, socket, inbox, list, active, table, doing>>
  BY DEF Read, linkVars, screenVars
<1>2. IInv'
  BY ReadKeeps
<1>3. Parts[k] \subseteq {"list", "table"}
  BY DEF Kinds, Parts
<1>4. PICK parts \in SUBSET Parts[k] :
        /\ answers' = Append(answers,
              [what  |-> k, parts |-> parts,
               items |-> IF "list" \in parts THEN Page ELSE <<>>,
               rows  |-> IF "table" \in parts THEN Rows ELSE [tx \in {} |-> "none"]])
        /\ \/ UNCHANGED <<excused, budgetVars>>
           \/ Fault /\ Excuse(Parts[k] \ parts)
  BY DEF Read
<1>5. answers' \in Seq(Answers)
  <2>. DEFINE items == IF "list" \in parts THEN Page ELSE <<>>
              rows  == IF "table" \in parts THEN Rows ELSE [tx \in {} |-> "none"]
  <2>1. items \in Seq(Incidents)
    BY PageTyped DEF IInv
  <2>2. rows \in [Txs -> {"none", "matched", "mismatch"}] \cup {[tx \in {} |-> "none"]}
    BY RowsTyped DEF IInv
  <2>. HIDE DEF items, rows
  <2>3. [what |-> k, parts |-> parts, items |-> items, rows |-> rows] \in Answers
    BY <1>3, <2>1, <2>2 DEF Answers
  <2>. HIDE DEF Answers
  <2>4. answers' = Append(answers, [what |-> k, parts |-> parts, items |-> items, rows |-> rows])
    BY <1>4 DEF items, rows
  <2>. QED  BY <2>3, <2>4 DEF TypeOK
<1>6. excused' \subseteq {"list", "table"} /\ faults' \in Nat /\ drops' \in Nat
  BY <1>3, <1>4, BudgetTyped DEF Excuse, Fault, budgetVars
<1>7. asked' \in [Kinds -> Nat] /\ \A n \in DOMAIN answers' : answers'[n].parts \subseteq Parts[answers'[n].what]
  BY <1>2 DEF IInv, Shape, AnswersShape
<1>. QED  BY <1>1, <1>5, <1>6, <1>7 DEF TypeOK

\* An answer with a list selects one of the incidents it lists, or none.
LEMMA SelectedListed ==
    ASSUME TypeOK, NEW n \in DOMAIN answers
    PROVE  LET items == answers[n].items
           IN  /\ items \in Seq(Incidents)
               /\ Selected(answers[n]) \in {None} \cup {items[k] : k \in DOMAIN items}
<1>1. answers[n].items \in Seq(Incidents)
  BY AnswerTyped
<1>2. answers[n].items # <<>> => 1 \in DOMAIN answers[n].items
  BY <1>1
<1>. QED  BY <1>1, <1>2 DEF Selected

LEMMA ShowTyped ==
    ASSUME IInv, TypeOK, TableAnswered, NEW n \in DOMAIN answers, Show(n)
    PROVE  TypeOK'
<1>1. UNCHANGED <<flow, socket, inbox, asked, faults, drops>>
  BY DEF Show, linkVars, budgetVars
<1>2. IInv'
  BY ShowKeeps
<1>3. answers \in Seq(Answers) /\ answers[n] \in Answers
  BY DEF TypeOK
<1>4. answers' \in Seq(Answers)
  BY <1>3, RemoveFacts DEF Show
<1>5. \A m \in DOMAIN answers' : answers'[m].parts \subseteq Parts[answers'[m].what]
  BY <1>2 DEF IInv, Shape, AnswersShape
<1>6. list' \in Seq(Incidents) /\ active' \in {None} \cup {list'[k] : k \in DOMAIN list'}
  BY SelectedListed DEF Show, TypeOK
<1>7. table' \in [Txs -> {"none", "matched", "mismatch"}]
  BY DEF Show, TypeOK, TableAnswered
<1>8. /\ doing' \in [step : {"idle", "sent", "done", "refused", "reload"},
                     op : {"none", "ack", "resolve"}, id : Incidents \cup {None}]
      /\ doing' = Resting <=> doing'.step = "idle"
  BY DEF Show, AfterAction, Resting, TypeOK
<1>9. excused' \subseteq {"list", "table"}
  <2>1. \A m \in DOMAIN answers : answers[m].parts \subseteq {"list", "table"}
    BY AnswerTyped
  <2>2. Overtakes(n) \subseteq {"list", "table"}
    <3>1. n \in 1..Len(answers) /\ DOMAIN answers = 1..Len(answers) /\ Len(answers) \in Nat
      BY ShowFacts
    <3>. QED  BY <2>1, <3>1 DEF Overtakes
  <2>. QED  BY <2>2 DEF Show, Excuse, TypeOK
<1>. QED  BY <1>1, <1>4, <1>5, <1>6, <1>7, <1>8, <1>9 DEF TypeOK

LEMMA PersonTyped ==
    ASSUME IInv, TypeOK, Person
    PROVE  TypeOK'
<1>1. UNCHANGED <<flow, socket, inbox, answers, list, table>>
  BY DEF Person, Select, Click, Gateway, Answered, linkVars, callVars, screenVars
<1>2. asked' \in [Kinds -> Nat]
  BY NextHolds DEF IInv, Shape, Next
<1>3. active' \in {None} \cup {list[k] : k \in DOMAIN list}
  BY DEF Person, Select, Click, Gateway, Answered, screenVars, TypeOK
<1>4. active \in Incidents \cup {None}
  BY DEF TypeOK
<1>5. /\ doing' \in [step : {"idle", "sent", "done", "refused", "reload"},
                     op : {"none", "ack", "resolve"}, id : Incidents \cup {None}]
      /\ doing' = Resting <=> doing'.step = "idle"
  <2>1. CASE \E i \in Incidents : Select(i)
    BY <2>1 DEF Select, TypeOK
  <2>2. CASE \E op \in {"ack", "resolve"} : Click(op)
    BY <1>4, <2>2 DEF Click, Resting
  <2>3. CASE Gateway
    BY <2>3 DEF Gateway, Resting, TypeOK
  <2>4. CASE Answered
    BY <2>4 DEF Answered, Resting, TypeOK
  <2>. QED  BY <2>1, <2>2, <2>3, <2>4 DEF Person
<1>6. excused' \subseteq {"list", "table"} /\ faults' \in Nat /\ drops' \in Nat
  BY DEF Person, Select, Click, Gateway, Answered, Excuse, Fault, budgetVars, TypeOK
<1>. QED  BY <1>1, <1>2, <1>3, <1>5, <1>6 DEF TypeOK

\* The screen always shows what it can: answers are pages of incidents and
\* tables of verdicts, and the selected incident is one of those listed.
THEOREM DashboardTyped == Spec => []TypeOK
<1>1. Init => TableAnswered
  BY DEF Init, TableAnswered
<1>2. IInv /\ TableAnswered /\ [Next]_vars => TableAnswered'
  BY TableAnsweredKept
<1>3. IInv /\ TableAnswered /\ TypeOK /\ [Next]_vars => TypeOK'
  <2>. SUFFICES ASSUME IInv, TableAnswered, TypeOK, [Next]_vars
                PROVE  TypeOK'
    OBVIOUS
  <2>1. CASE Browser
    BY <2>1, LinkTyped, ReadTyped, ShowTyped DEF Browser
  <2>2. CASE UNCHANGED vars
    BY <2>2 DEF vars, boardVars, linkVars, callVars, screenVars, budgetVars, TypeOK
  <2>. QED  BY <2>1, <2>2, SystemTyped, PersonTyped DEF Next
<1>. QED  BY <1>1, <1>2, <1>3, TypedInit, DashboardInvariant, PTL DEF Spec

=============================================================================
