---------------------------- MODULE IngestorProofs ----------------------------
(***************************************************************************)
(* The ingestor's promises for any number of requests, events and keys and *)
(* for any failures: what a 202 quotes is in the stream, and what is in    *)
(* the stream has its row.                                                 *)
(***************************************************************************)
EXTENDS Ingestor, TLAPS

BudgetsTyped == pgFaults \in Nat /\ redisFaults \in Nat /\ crashes \in Nat /\ expiries \in Nat

LEMMA BudgetsStep ==
    ASSUME BudgetsTyped, NoFault \/ PgFault \/ RedisFault
    PROVE  BudgetsTyped'
  BY DEF BudgetsTyped, NoFault, PgFault, RedisFault

\* None of the words a key or an answer may be is a request.
LEMMA WordsAreNoRequests ==
    ASSUME NEW r \in Requests
    PROVE  r \notin {NoRow, "free", "PROCESSING", "conflict", "error", "invalid"}
  BY IngestorAssumption

-----------------------------------------------------------------------------
(* The stream only grows.                                                  *)

Grows == stream' = stream \/ \E m \in Messages : stream' = Append(stream, m)

LEMMA QueuedTyped ==
    ASSUME NEW r \in Requests
    PROVE  [event |-> EventOf[r], id |-> r] \in Messages
  BY IngestorAssumption DEF Messages

LEMMA StreamGrows ==
    ASSUME stream \in Seq(Messages), Grows
    PROVE  /\ stream' \in Seq(Messages)
           /\ Len(stream) <= Len(stream')
           /\ \A i \in DOMAIN stream : i \in DOMAIN stream' /\ stream'[i] = stream[i]
  BY DEF Grows

LEMMA InStreamStands ==
    ASSUME stream \in Seq(Messages), Grows, NEW r \in Requests, InStream(r)
    PROVE  InStream(r)'
  BY StreamGrows DEF InStream

\* The rows of events only grow as well.
LEMMA RowFacts ==
    ASSUME TypeOK, NEW r \in Requests
    PROVE  /\ Row(r) \in [Events -> Requests \cup {NoRow}]
           /\ Row(r)[EventOf[r]] # NoRow
           /\ \A e \in Events : stored[e] # NoRow => Row(r)[e] = stored[e]
           /\ \A e \in Events : Row(r)[e] \in {stored[e], r}
<1>1. EventOf[r] \in Events /\ r # NoRow
  BY IngestorAssumption, WordsAreNoRequests
<1>. QED  BY <1>1 DEF Row, TypeOK

RowsStay == \A e \in Events : stored[e] # NoRow => stored'[e] # NoRow

-----------------------------------------------------------------------------
(* Each step keeps the types, the queued messages and the written rows.    *)

Kept == TypeOK' /\ Grows /\ RowsStay

LEMMA SetKeyTyped ==
    ASSUME TypeOK, NEW r \in Requests, NEW v \in Requests \cup {"free", "PROCESSING"}
    PROVE  SetKey(r, v) \in [Keys -> Requests \cup {"free", "PROCESSING"}]
  BY IngestorAssumption DEF TypeOK, SetKey

LEMMA HandleKeeps ==
    ASSUME TypeOK, NEW r \in Requests, Handle(r)
    PROVE  Kept
<1>1. BudgetsTyped'
  <2>1. NoFault \/ PgFault \/ RedisFault
    BY DEF Handle, Refuse, Reserve, Look, Insert, Publish, Release, Remember
  <2>. QED  BY <2>1, BudgetsStep DEF TypeOK, BudgetsTyped
<1>2. pc' \in [Requests -> Steps] /\ answer' \in [Requests -> Answers]
  BY IngestorAssumption
  DEF Handle, Refuse, Reserve, Look, Insert, Publish, Release, Remember, Goto, Answer, TypeOK,
      Steps, Answers
<1>3. idem' \in [Keys -> Requests \cup {"free", "PROCESSING"}]
  <2>1. /\ Reserved(r) \in [Keys -> Requests \cup {"free", "PROCESSING"}]
        /\ SetKey(r, "free") \in [Keys -> Requests \cup {"free", "PROCESSING"}]
        /\ SetKey(r, r) \in [Keys -> Requests \cup {"free", "PROCESSING"}]
    BY SetKeyTyped DEF Reserved, TypeOK
  <2>2. idem' \in {idem, Reserved(r), SetKey(r, "free"), SetKey(r, r)}
    BY DEF Handle, Refuse, Reserve, Look, Insert, Publish, Release, Remember
  <2>. QED  BY <2>1, <2>2 DEF TypeOK
<1>4. stored' \in {stored, Row(r)}
  BY DEF Handle, Refuse, Reserve, Look, Insert, Publish, Release, Remember
<1>5. stream' \in {stream, Queued(r)}
  BY DEF Handle, Refuse, Reserve, Look, Insert, Publish, Release, Remember
<1>6. Grows
  BY <1>5, QueuedTyped DEF Queued, Grows
<1>7. stream' \in Seq(Messages)
  BY <1>6, StreamGrows DEF TypeOK
<1>8. stored' \in [Events -> Requests \cup {NoRow}] /\ RowsStay
  BY <1>4, RowFacts DEF TypeOK, RowsStay
<1>. QED  BY <1>1, <1>2, <1>3, <1>6, <1>7, <1>8 DEF Kept, TypeOK, BudgetsTyped

LEMMA CrashKeeps ==
    ASSUME TypeOK, Crash
    PROVE  Kept
  BY DEF TypeOK, Crash, Kept, Grows, RowsStay, Steps

LEMMA ExpireKeeps ==
    ASSUME TypeOK, NEW k \in Keys, Expire(k)
    PROVE  Kept
  BY DEF TypeOK, Expire, Kept, Grows, RowsStay

LEMMA NextKeeps ==
    ASSUME TypeOK, [Next]_vars
    PROVE  Kept
<1>1. CASE UNCHANGED vars
  BY <1>1 DEF vars, Kept, TypeOK, Grows, RowsStay
<1>. QED  BY <1>1, HandleKeeps, CrashKeeps, ExpireKeeps DEF Next

-----------------------------------------------------------------------------
(* The requests' progress.                                                 *)

LEMMA ProgressKept ==
    ASSUME IInv, Kept, NEW r \in Requests, pc'[r] = pc[r] \/ pc'[r] \in {"dead", "done"},
           r \in Invalid => pc'[r] # "dead"
    PROVE  Progress(r)'
<1>1. EventOf[r] \in Events
  BY IngestorAssumption
<1>2. InStream(r) => InStream(r)'
  BY InStreamStands DEF Kept, IInv, TypeOK
<1>. QED  BY <1>1, <1>2 DEF Progress, IInv, Kept, RowsStay

LEMMA HandleProgress ==
    ASSUME IInv, Kept, NEW r \in Requests, Handle(r), NEW q \in Requests
    PROVE  Progress(q)'
<1>0. EventOf[r] \in Events /\ pc \in [Requests -> Steps]
  BY IngestorAssumption DEF IInv, TypeOK
<1>1. CASE q # r
  <2>1. pc'[q] = pc[q]
    BY <1>1, <1>0 DEF Handle, Refuse, Reserve, Look, Insert, Publish, Release, Remember, Goto, Answer
  <2>. QED  BY <2>1, ProgressKept DEF IInv, Progress
<1>2. CASE q = r
  <2>0. Progress(r)
    BY DEF IInv
  <2>1. CASE Refuse(r)
    BY <2>1, <2>0, <1>0, <1>2 DEF Refuse, Answer, Progress
  <2>2. CASE Reserve(r) \/ Look(r) \/ Release(r) \/ Remember(r)
    BY <2>2, <2>0, <1>0, <1>2 DEF Reserve, Look, Release, Remember, Goto, Answer, Progress
  <2>3. CASE Insert(r)
    <3>1. Row(r)[EventOf[r]] # NoRow
      BY RowFacts DEF IInv
    <3>. QED  BY <2>3, <3>1, <2>0, <1>0, <1>2 DEF Insert, Goto, Progress
  <2>4. CASE Publish(r)
    <3>1. stream' = Queued(r) => InStream(r)'
      BY QueuedTyped DEF Queued, InStream, IInv, TypeOK
    <3>2. stored' = stored
      BY <2>4 DEF Publish
    <3>. QED  BY <2>4, <3>1, <3>2, <2>0, <1>0, <1>2 DEF Publish, Goto, Progress
  <2>. QED  BY <2>1, <2>2, <2>3, <2>4 DEF Handle
<1>. QED  BY <1>1, <1>2

LEMMA NextProgress ==
    ASSUME IInv, [Next]_vars, NEW q \in Requests
    PROVE  Progress(q)'
<1>1. Kept
  BY NextKeeps DEF IInv
<1>2. CASE UNCHANGED vars
  BY <1>1, <1>2, ProgressKept DEF vars, IInv, Progress
<1>3. CASE \E r \in Requests : Handle(r)
  BY <1>1, <1>3, HandleProgress
<1>4. CASE Crash
  BY <1>1, <1>4, ProgressKept DEF Crash, InFlight, IInv, Progress
<1>5. CASE \E k \in Keys : Expire(k)
  BY <1>1, <1>5, ProgressKept DEF Expire, IInv, Progress
<1>. QED  BY <1>2, <1>3, <1>4, <1>5 DEF Next

-----------------------------------------------------------------------------
(* Remembered and given answers.                                           *)

LEMMA NextRemembered ==
    ASSUME IInv, [Next]_vars
    PROVE  Remembered'
<1>1. Kept /\ \A r \in Requests : InStream(r) => InStream(r)'
  BY NextKeeps, InStreamStands DEF IInv, TypeOK, Kept
<1>2. SUFFICES ASSUME NEW k \in Keys, idem'[k] \in Requests
               PROVE  idem'[k] = idem[k] \/ (KeyOf[idem'[k]] = k /\ InStream(idem'[k]))
  BY <1>1, <1>2 DEF Remembered, IInv
<1>3. CASE \E r \in Requests : Remember(r)
  <2>1. PICK r \in Requests : Remember(r)
    BY <1>3
  <2>2. InStream(r)
    BY <2>1 DEF IInv, Progress, Remember
  <2>3. idem' \in {idem, [idem EXCEPT ![KeyOf[r]] = r]}
    BY <2>1 DEF Remember, SetKey
  <2>. QED  BY <2>2, <2>3 DEF IInv, TypeOK
<1>4. CASE ~\E r \in Requests : Remember(r)
  <2>1. idem'[k] \in {idem[k], "free", "PROCESSING"}
    BY <1>4 DEF Next, Handle, Refuse, Reserve, Look, Insert, Publish, Release, Crash, Expire,
       Reserved, SetKey, vars, IInv, TypeOK
  <2>. QED  BY <1>2, <2>1, WordsAreNoRequests
<1>. QED  BY <1>3, <1>4

LEMMA NextAccepted ==
    ASSUME IInv, [Next]_vars
    PROVE  AcceptedIsQueued'
<1>1. Kept /\ \A r \in Requests : InStream(r) => InStream(r)'
  BY NextKeeps, InStreamStands DEF IInv, TypeOK, Kept
<1>2. SUFFICES ASSUME NEW q \in Requests, answer'[q] \in Requests
               PROVE  \/ answer'[q] = answer[q]
                      \/ KeyOf[answer'[q]] = KeyOf[q] /\ InStream(answer'[q])
  BY <1>1, <1>2 DEF AcceptedIsQueued, IInv
<1>3. CASE \E r \in Requests : Look(r) \/ Remember(r)
  <2>1. PICK r \in Requests : Look(r) \/ Remember(r)
    BY <1>3
  <2>2. CASE q # r
    BY <2>1, <2>2 DEF Look, Remember, Goto, Answer, IInv, TypeOK
  <2>3. CASE q = r /\ Look(r)
    <3>1. answer'[r] \in {answer[r], "conflict", idem[KeyOf[r]]}
      BY <2>3 DEF Look, Goto, Answer, IInv, TypeOK
    <3>2. KeyOf[r] \in Keys
      BY IngestorAssumption
    <3>. QED  BY <1>2, <2>3, <3>1, <3>2, WordsAreNoRequests DEF Remembered, IInv
  <2>4. CASE q = r /\ Remember(r)
    BY <2>4 DEF Remember, Answer, Progress, IInv, TypeOK
  <2>. QED  BY <2>1, <2>2, <2>3, <2>4
<1>4. CASE ~\E r \in Requests : Look(r) \/ Remember(r)
  <2>1. answer'[q] \in {answer[q], "error", "invalid"}
    BY <1>4 DEF Next, Handle, Refuse, Reserve, Insert, Publish, Release, Crash, Expire,
       Goto, Answer, vars, IInv, TypeOK
  <2>. QED  BY <1>2, <2>1, WordsAreNoRequests
<1>. QED  BY <1>3, <1>4

-----------------------------------------------------------------------------
(* Rows and messages.                                                      *)

LEMMA NextQueued ==
    ASSUME IInv, [Next]_vars
    PROVE  QueuedIsStored'
<1>1. Kept
  BY NextKeeps DEF IInv
<1>2. /\ stored \in [Events -> Requests \cup {NoRow}]
      /\ stream \in Seq(Messages)
  BY DEF IInv, TypeOK
<1>3. CASE stream' = stream /\ stored' = stored
  BY <1>3 DEF QueuedIsStored, InStream, IInv
<1>4. CASE \E r \in Requests : Insert(r)
  <2>1. PICK r \in Requests : Insert(r)
    BY <1>4
  <2>2. r \notin Invalid
    BY <2>1 DEF Insert, IInv, Progress
  <2>3. stored' \in {stored, Row(r)} /\ stream' = stream
    BY <2>1 DEF Insert
  <2>4. \A i \in DOMAIN stream : stream[i].event \in Events
    <3>1. \A i \in DOMAIN stream : stream[i] \in Messages
      BY <1>2
    <3>. QED  BY <3>1 DEF Messages
  <2>5. \A e \in Events : stored'[e] \in {stored[e], r}
    BY <2>3, RowFacts DEF IInv
  <2>. QED  BY <1>1, <2>2, <2>3, <2>4, <2>5
            DEF QueuedIsStored, InStream, IInv, Kept, RowsStay
<1>5. CASE \E r \in Requests : Publish(r)
  <2>1. PICK r \in Requests : Publish(r)
    BY <1>5
  <2>2. r \notin Invalid /\ stored[EventOf[r]] # NoRow
    BY <2>1 DEF Publish, IInv, Progress
  <2>3. stored' = stored /\ stream' \in {stream, Queued(r)}
    BY <2>1 DEF Publish
  <2>4. \A i \in DOMAIN stream' : \/ i \in DOMAIN stream /\ stream'[i] = stream[i]
                                  \/ stream'[i] = [event |-> EventOf[r], id |-> r]
    BY <1>2, <2>3, QueuedTyped DEF Queued
  <2>5. \A q \in Invalid : InStream(q)' => InStream(q)
    BY <2>2, <2>4, IngestorAssumption DEF InStream
  <2>. QED  BY <2>2, <2>3, <2>4, <2>5 DEF QueuedIsStored, IInv
<1>6. CASE UNCHANGED vars
  BY <1>3, <1>6 DEF vars
<1>7. CASE Next /\ ~\E r \in Requests : Insert(r) \/ Publish(r)
  BY <1>3, <1>7 DEF Next, Handle, Refuse, Reserve, Look, Release, Remember, Crash, Expire
<1>. QED  BY <1>4, <1>5, <1>6, <1>7

-----------------------------------------------------------------------------
(* Keys at PROCESSING.                                                     *)

LEMMA NextHeld ==
    ASSUME IInv, [Next]_vars
    PROVE  HeldByWorker'
<1>0. /\ pc \in [Requests -> Steps] /\ idem \in [Keys -> Requests \cup {"free", "PROCESSING"}]
      /\ KeyOf \in [Requests -> Keys]
      /\ pgFaults \in Nat /\ redisFaults \in Nat /\ crashes \in Nat
  BY IngestorAssumption DEF IInv, TypeOK
<1>1. CASE UNCHANGED vars
  BY <1>1 DEF vars, IInv, HeldByWorker, Working
<1>2. CASE Crash
  BY <1>2, <1>0 DEF Crash, HeldByWorker
<1>3. CASE \E k \in Keys : Expire(k)
  BY <1>3, <1>0 DEF Expire, IInv, HeldByWorker, Working
<1>4. CASE \E r \in Requests : Handle(r)
  <2>1. PICK r \in Requests : Handle(r)
    BY <1>4
  <2>2. SUFFICES ASSUME redisFaults' + crashes' = 0, NEW k \in Keys, idem'[k] = "PROCESSING"
                 PROVE  \E s \in Requests : KeyOf[s] = k /\ Working(s)'
    BY DEF HeldByWorker
  <2>3. redisFaults' = redisFaults /\ crashes' = crashes /\ ~RedisFault
    BY <1>0, <2>1, <2>2
    DEF Handle, Refuse, Reserve, Look, Insert, Publish, Release, Remember, NoFault, PgFault,
        RedisFault
  <2>4. \A s \in Requests \ {r} : Working(s)' <=> Working(s)
    BY <1>0, <2>1
    DEF Handle, Refuse, Reserve, Look, Insert, Publish, Release, Remember, Goto, Answer, Working
  <2>5. CASE Working(r)'
    <3>1. idem[k] = "PROCESSING" \/ k = KeyOf[r]
      BY <1>0, <2>1, <2>2, WordsAreNoRequests
      DEF Handle, Refuse, Reserve, Look, Insert, Publish, Release, Remember, Reserved, SetKey
    <3>2. CASE idem[k] = "PROCESSING"
      <4>1. PICK s \in Requests : KeyOf[s] = k /\ Working(s)
        BY <2>2, <2>3, <3>2 DEF IInv, HeldByWorker
      <4>. QED  BY <2>4, <2>5, <4>1
    <3>. QED  BY <2>5, <3>1, <3>2
  <2>6. CASE ~Working(r)'
    <3>1. idem[k] = "PROCESSING" /\ (KeyOf[r] = k => ~Working(r))
      BY <1>0, <2>1, <2>2, <2>3, <2>6, WordsAreNoRequests
      DEF Handle, Refuse, Reserve, Look, Insert, Publish, Release, Remember, Reserved, SetKey,
          Goto, Answer, Working
    <3>2. PICK s \in Requests : KeyOf[s] = k /\ Working(s)
      BY <2>2, <2>3, <3>1 DEF IInv, HeldByWorker
    <3>. QED  BY <2>4, <3>1, <3>2
  <2>. QED  BY <2>5, <2>6
<1>. QED  BY <1>1, <1>2, <1>3, <1>4 DEF Next

\* A 409 is sent by Look only, of a key somebody is at work on.
LEMMA ConflictsJustified ==
    ASSUME IInv, [Next]_vars, redisFaults + crashes = 0, NEW r \in Requests
    PROVE  ConflictJustified(r)
<1>0. KeyOf \in [Requests -> Keys] /\ answer \in [Requests -> Answers]
  BY IngestorAssumption DEF IInv, TypeOK
<1>1. SUFFICES ASSUME answer[r] # "conflict", answer'[r] = "conflict"
               PROVE  \E s \in Requests \ {r} : KeyOf[s] = KeyOf[r] /\ Working(s)
  BY DEF ConflictJustified
<1>2. idem[KeyOf[r]] = "PROCESSING" /\ pc[r] = "look"
  BY <1>0, <1>1, WordsAreNoRequests
  DEF Next, Handle, Refuse, Reserve, Look, Insert, Publish, Release, Remember, Crash, Expire,
      Goto, Answer, vars
<1>3. PICK s \in Requests : KeyOf[s] = KeyOf[r] /\ Working(s)
  BY <1>0, <1>2 DEF IInv, HeldByWorker
<1>. QED  BY <1>2, <1>3 DEF Working

-----------------------------------------------------------------------------
(* The theorems.                                                           *)

LEMMA InitHolds == Init => IInv
<1>. SUFFICES ASSUME Init
              PROVE  IInv
  OBVIOUS
<1>1. TypeOK
  BY DEF Init, TypeOK, Answers, Steps, Messages
<1>2. /\ \A r \in Requests : Progress(r)
      /\ Remembered /\ AcceptedIsQueued /\ QueuedIsStored /\ HeldByWorker
  BY WordsAreNoRequests, IngestorAssumption
  DEF Init, Progress, Remembered, AcceptedIsQueued, QueuedIsStored, InStream,
      HeldByWorker
<1>. QED  BY <1>1, <1>2 DEF IInv

LEMMA NextHolds == IInv /\ [Next]_vars => IInv'
<1>. SUFFICES ASSUME IInv, [Next]_vars
              PROVE  IInv'
  OBVIOUS
<1>1. TypeOK'
  BY NextKeeps DEF IInv, Kept
<1>. QED  BY <1>1, NextProgress, NextRemembered, NextAccepted, NextQueued, NextHeld DEF IInv

\* The inductive invariant holds for any requests, keys, failures and crashes.
THEOREM IngestorInvariant == Spec => []IInv
  BY InitHolds, NextHolds, PTL DEF Spec

\* The shapes of keys, rows, messages and answers that handleEvent relies on.
THEOREM IngestorTyped == Spec => []TypeOK
<1>1. IInv => TypeOK
  BY DEF IInv
<1>. QED  BY <1>1, IngestorInvariant, PTL

\* A 202 of the handler, first or repeated, quotes a message of the stream.
THEOREM IngestorAccepts == Spec => []AcceptedIsQueued
<1>1. IInv => AcceptedIsQueued
  BY DEF IInv
<1>. QED  BY <1>1, IngestorInvariant, PTL

\* What the handler queues has its row, and what it refuses leaves no trace.
THEOREM IngestorStores == Spec => []QueuedIsStored
<1>1. IInv => QueuedIsStored
  BY DEF IInv
<1>. QED  BY <1>1, IngestorInvariant, PTL

\* Whatever PostgreSQL does, handleEvent answers 409 only while another
\* request with the key is at work, until Redis or the process fails.
THEOREM IngestorFreesKeys == Spec => FailureFreesKey
<1>1. IInv /\ [Next]_vars =>
        [redisFaults + crashes = 0 => \A r \in Requests : ConflictJustified(r)]_vars
  BY ConflictsJustified
<1>. QED  BY <1>1, IngestorInvariant, PTL DEF Spec, FailureFreesKey

-----------------------------------------------------------------------------
(* An undisturbed run.                                                     *)

\* What a request may do in it.
Moves(r, from, to) ==
    /\ pc[r] = from
    /\ pc' = [pc EXCEPT ![r] = to]

UndisturbedStep(r) ==
    \/ /\ \/ Moves(r, "start", "done")
          \/ Moves(r, "look", "done")
          \/ Moves(r, "start", "look") /\ idem[KeyOf[r]] # "free"
       /\ UNCHANGED <<idem, stored, stream>>
    \/ /\ Moves(r, "start", "insert")
       /\ idem[KeyOf[r]] = "free"
       /\ idem' = SetKey(r, "PROCESSING")
       /\ UNCHANGED <<stored, stream>>
    \/ /\ Moves(r, "insert", "publish")
       /\ stored' = Row(r)
       /\ UNCHANGED <<idem, stream>>
    \/ /\ Moves(r, "publish", "remember")
       /\ stream' = Queued(r)
       /\ UNCHANGED <<idem, stored>>
    \/ /\ Moves(r, "remember", "done")
       /\ idem' = SetKey(r, r)
       /\ UNCHANGED <<stored, stream>>

LEMMA FaultsDisturb ==
    ASSUME TypeOK, Undisturbed', NoFault \/ PgFault \/ RedisFault
    PROVE  Undisturbed /\ NoFault /\ ~PgFault /\ ~RedisFault
  BY DEF TypeOK, Undisturbed, NoFault, PgFault, RedisFault

LEMMA UndisturbedMoves ==
    ASSUME IInv, OneHolder, Next, Undisturbed'
    PROVE  Undisturbed /\ \E r \in Requests : UndisturbedStep(r)
<1>1. TypeOK
  BY DEF IInv
<1>2. ~Crash /\ ~(\E k \in Keys : Expire(k))
  BY <1>1 DEF Crash, Expire, TypeOK, Undisturbed
<1>3. PICK r \in Requests : Handle(r)
  BY <1>2 DEF Next
<1>4. NoFault \/ PgFault \/ RedisFault
  BY <1>3 DEF Handle, Refuse, Reserve, Look, Insert, Publish, Release, Remember
<1>5. Undisturbed /\ NoFault /\ ~PgFault /\ ~RedisFault
  BY <1>1, <1>4, FaultsDisturb
<1>6. HoldsKey(r)
  BY <1>5 DEF OneHolder
<1>7. CASE Refuse(r)
  BY <1>5, <1>7 DEF Refuse, Answer, UndisturbedStep, Moves
<1>8. CASE Reserve(r)
  <2>1. idem' = Reserved(r) /\ UNCHANGED <<stored, stream>> /\ pc[r] = "start"
        /\ pc' = [pc EXCEPT ![r] = IF idem[KeyOf[r]] = "free" THEN "insert" ELSE "look"]
    BY <1>5, <1>8 DEF Reserve, Goto
  <2>2. UndisturbedStep(r)
    BY <2>1 DEF Reserved, UndisturbedStep, Moves
  <2>. QED  BY <1>5, <2>2
<1>9. CASE Look(r)
  BY <1>5, <1>6, <1>9 DEF Look, Answer, HoldsKey, UndisturbedStep, Moves
<1>10. CASE Insert(r)
  BY <1>5, <1>10 DEF Insert, Goto, UndisturbedStep, Moves
<1>11. CASE Publish(r)
  BY <1>5, <1>11 DEF Publish, Goto, UndisturbedStep, Moves
<1>12. CASE Release(r)
  BY <1>6, <1>12 DEF Release, HoldsKey
<1>13. CASE Remember(r)
  BY <1>5, <1>13 DEF Remember, Answer, UndisturbedStep, Moves
<1>. QED  BY <1>3, <1>5, <1>7, <1>8, <1>9, <1>10, <1>11, <1>12, <1>13 DEF Handle

LEMMA HolderKept ==
    ASSUME OneKeyPerEvent, IInv, OneHolder, Next
    PROVE  OneHolder'
<1>. SUFFICES ASSUME Undisturbed'
              PROVE  /\ \A q \in Requests : HoldsKey(q)'
                     /\ \A e \in Events : RowOfHolder(e)'
                     /\ \A i \in DOMAIN stream' : MessageOfHolder(i)'
  BY DEF OneHolder
<1>1. PICK r \in Requests : UndisturbedStep(r)
  BY UndisturbedMoves
<1>2. /\ \A q \in Requests : HoldsKey(q)
      /\ \A e \in Events : RowOfHolder(e)
      /\ \A i \in DOMAIN stream : MessageOfHolder(i)
  BY UndisturbedMoves DEF OneHolder
<1>3. /\ pc \in [Requests -> Steps] /\ idem \in [Keys -> Requests \cup {"free", "PROCESSING"}]
      /\ stored \in [Events -> Requests \cup {NoRow}] /\ stream \in Seq(Messages)
      /\ KeyOf \in [Requests -> Keys] /\ EventOf \in [Requests -> Events]
  BY IngestorAssumption DEF IInv, TypeOK
<1>4. \A q \in Requests : q \notin {NoRow, "free", "PROCESSING"}
  BY WordsAreNoRequests
<1>5. \A i \in DOMAIN stream : stream[i].event \in Events /\ stream[i].id \in Requests
  <2>1. \A i \in DOMAIN stream : stream[i] \in Messages
    BY <1>3
  <2>. QED  BY <2>1 DEF Messages
<1>6. CASE /\ \/ Moves(r, "start", "done")
              \/ Moves(r, "look", "done")
              \/ Moves(r, "start", "look") /\ idem[KeyOf[r]] # "free"
           /\ UNCHANGED <<idem, stored, stream>>
  <2>1. \A q \in Requests : /\ pc'[q] = pc[q] \/ (q = r /\ pc'[q] \in {"done", "look"})
                            /\ pc[q] \in {"publish", "remember"} => pc'[q] = pc[q]
                            /\ Working(q)' <=> Working(q)
    BY <1>3, <1>6 DEF Moves, Working
  <2>2. pc'[r] = "look" => idem[KeyOf[r]] # "free"
    BY <1>2, <1>3, <1>6 DEF Moves, HoldsKey
  <2>3. \A q \in Requests : HoldsKey(q)'
    BY <1>2, <1>6, <2>1, <2>2 DEF HoldsKey
  <2>4. \A e \in Events : RowOfHolder(e)'
    BY <1>2, <1>3, <1>6, <2>1 DEF RowOfHolder, Settled
  <2>5. \A i \in DOMAIN stream' : MessageOfHolder(i)'
    BY <1>2, <1>5, <1>6, <2>1 DEF MessageOfHolder, Settled
  <2>. QED  BY <2>3, <2>4, <2>5
<1>7. CASE /\ Moves(r, "start", "insert") /\ idem[KeyOf[r]] = "free"
           /\ idem' = SetKey(r, "PROCESSING") /\ UNCHANGED <<stored, stream>>
  <2>1. \A q \in Requests : q # r => pc'[q] = pc[q]
    BY <1>3, <1>7 DEF Moves
  <2>2. pc'[r] = "insert" /\ pc[r] = "start"
    BY <1>3, <1>7 DEF Moves
  <2>3. /\ \A k \in Keys : k # KeyOf[r] => idem'[k] = idem[k]
        /\ idem'[KeyOf[r]] = "PROCESSING"
    BY <1>3, <1>7 DEF SetKey
  <2>4. \A q \in Requests : Settled(q) => Settled(q)'
    BY <1>3, <1>4, <1>7, <2>3 DEF Settled
  <2>5. \A q \in Requests : KeyOf[q] = KeyOf[r] => ~Working(q)
    BY <1>2, <1>7 DEF HoldsKey
  <2>6. \A q \in Requests : HoldsKey(q)'
    BY <1>2, <1>3, <1>7, <2>1, <2>2, <2>3, <2>5 DEF HoldsKey, Working
  <2>7. \A e \in Events : RowOfHolder(e)'
    BY <1>2, <1>3, <1>7, <2>1, <2>2, <2>4 DEF RowOfHolder
  <2>8. \A i \in DOMAIN stream' : MessageOfHolder(i)'
    BY <1>2, <1>5, <1>7, <2>1, <2>2, <2>4 DEF MessageOfHolder
  <2>. QED  BY <2>6, <2>7, <2>8
<1>8. CASE Moves(r, "insert", "publish") /\ stored' = Row(r) /\ UNCHANGED <<idem, stream>>
  <2>1. \A q \in Requests : q # r => pc'[q] = pc[q]
    BY <1>3, <1>8 DEF Moves
  <2>2. pc'[r] = "publish" /\ pc[r] = "insert"
    BY <1>3, <1>8 DEF Moves
  <2>3. stored[EventOf[r]] = NoRow
    <3>1. SUFFICES ASSUME stored[EventOf[r]] # NoRow PROVE FALSE
      OBVIOUS
    <3>. DEFINE s == stored[EventOf[r]]
    <3>2. s \in Requests /\ EventOf[s] = EventOf[r]
          /\ (pc[s] \in {"publish", "remember"} \/ Settled(s))
      BY <1>2, <1>3, <3>1 DEF RowOfHolder
    <3>3. KeyOf[s] = KeyOf[r]
      BY <3>2 DEF OneKeyPerEvent
    <3>4. idem[KeyOf[r]] = "PROCESSING" /\ (Working(s) => s = r)
      BY <1>2, <2>2, <3>2, <3>3 DEF HoldsKey, Working
    <3>. QED  BY <1>4, <2>2, <3>2, <3>3, <3>4 DEF Settled, Working
  <2>4. stored'[EventOf[r]] = r /\ \A e \in Events : e # EventOf[r] => stored'[e] = stored[e]
    BY <1>3, <1>8, <2>3 DEF Row
  <2>5. \A q \in Requests : stored[EventOf[q]] = q => stored'[EventOf[q]] = q
    BY <1>3, <1>4, <2>3, <2>4
  <2>6. \A q \in Requests : HoldsKey(q)'
    BY <1>2, <1>8, <2>1, <2>2, <2>4, <2>5 DEF HoldsKey, Working
  <2>7. \A e \in Events : RowOfHolder(e)'
    BY <1>2, <1>3, <1>8, <2>1, <2>2, <2>4 DEF RowOfHolder, Settled
  <2>8. \A i \in DOMAIN stream' : MessageOfHolder(i)'
    BY <1>2, <1>4, <1>5, <1>8, <2>1, <2>2, <2>3, <2>4 DEF MessageOfHolder, Settled
  <2>. QED  BY <2>6, <2>7, <2>8
<1>9. CASE Moves(r, "publish", "remember") /\ stream' = Queued(r) /\ UNCHANGED <<idem, stored>>
  <2>1. \A q \in Requests : q # r => pc'[q] = pc[q]
    BY <1>3, <1>9 DEF Moves
  <2>2. pc'[r] = "remember" /\ pc[r] = "publish"
    BY <1>3, <1>9 DEF Moves
  <2>3. stored[EventOf[r]] = r /\ idem[KeyOf[r]] = "PROCESSING"
    BY <1>2, <2>2 DEF HoldsKey, Working
  <2>4. \A i \in DOMAIN stream : stream[i].id # r /\ stream[i].event # EventOf[r]
    BY <1>2, <1>4, <2>2, <2>3 DEF MessageOfHolder, Settled
  <2>5. /\ Len(stream) + 1 \in DOMAIN stream'
        /\ stream'[Len(stream) + 1] = [event |-> EventOf[r], id |-> r]
        /\ \A i \in DOMAIN stream' : i = Len(stream) + 1 \/ (i \in DOMAIN stream /\ stream'[i] = stream[i])
    <3>1. [event |-> EventOf[r], id |-> r] \in Messages
      BY QueuedTyped
    <3>. QED  BY <1>3, <1>9, <3>1 DEF Queued
  <2>6. \A q \in Requests : HoldsKey(q)'
    BY <1>2, <1>9, <2>1, <2>2, <2>3 DEF HoldsKey, Working
  <2>7. \A e \in Events : RowOfHolder(e)'
    BY <1>2, <1>3, <1>9, <2>1, <2>2 DEF RowOfHolder, Settled
  <2>8. \A i \in DOMAIN stream' : MessageOfHolder(i)'
    BY <1>2, <1>9, <2>1, <2>2, <2>3, <2>4, <2>5, <1>5 DEF MessageOfHolder, Settled
  <2>. QED  BY <2>6, <2>7, <2>8
<1>10. CASE Moves(r, "remember", "done") /\ idem' = SetKey(r, r) /\ UNCHANGED <<stored, stream>>
  <2>1. \A q \in Requests : q # r => pc'[q] = pc[q]
    BY <1>3, <1>10 DEF Moves
  <2>2. pc'[r] = "done" /\ pc[r] = "remember"
    BY <1>3, <1>10 DEF Moves
  <2>3. /\ \A k \in Keys : k # KeyOf[r] => idem'[k] = idem[k]
        /\ idem'[KeyOf[r]] = r
    BY <1>3, <1>10 DEF SetKey
  <2>4. Settled(r)' /\ \A q \in Requests : Settled(q) => Settled(q)'
    BY <1>3, <2>3 DEF Settled
  <2>5. \A q \in Requests : KeyOf[q] = KeyOf[r] /\ Working(q) => q = r
    BY <1>2, <2>2 DEF HoldsKey, Working
  <2>6. \A q \in Requests : HoldsKey(q)'
    BY <1>2, <1>3, <1>4, <1>10, <2>1, <2>2, <2>3, <2>5 DEF HoldsKey, Working
  <2>7. \A e \in Events : RowOfHolder(e)'
    BY <1>2, <1>3, <1>10, <2>1, <2>2, <2>4 DEF RowOfHolder
  <2>8. \A i \in DOMAIN stream' : MessageOfHolder(i)'
    BY <1>2, <1>5, <1>10, <2>1, <2>2, <2>4 DEF MessageOfHolder
  <2>. QED  BY <2>6, <2>7, <2>8
<1>. QED  BY <1>1, <1>6, <1>7, <1>8, <1>9, <1>10 DEF UndisturbedStep

\* As long as nothing fails, dies or expires, handleEvent queues an event once,
\* under the id of its row, however many requests carry it: any number of
\* requests and keys, each event with one key.
THEOREM IngestorQueuesOnce ==
    ASSUME OneKeyPerEvent
    PROVE  Spec => []QueuedOnce
<1>1. Init => OneHolder
  BY WordsAreNoRequests, IngestorAssumption
  DEF Init, OneHolder, HoldsKey, RowOfHolder, MessageOfHolder, Working
<1>2. IInv /\ OneHolder /\ [Next]_vars => OneHolder'
  <2>1. ASSUME OneHolder, UNCHANGED vars PROVE OneHolder'
    BY <2>1 DEF vars, OneHolder, Undisturbed, HoldsKey, RowOfHolder, MessageOfHolder, Settled,
                Working
  <2>. QED  BY <2>1, HolderKept
<1>3. IInv /\ OneHolder => QueuedOnce
  BY DEF IInv, TypeOK, OneHolder, Undisturbed, MessageOfHolder, QueuedOnce
<1>. QED  BY <1>1, <1>2, <1>3, IngestorInvariant, PTL DEF Spec

=============================================================================
