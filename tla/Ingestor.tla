------------------------------- MODULE Ingestor -------------------------------
(***************************************************************************)
(* POST /api/v1/events/:source (src/services/ingestor/handler.go).         *)
(*                                                                         *)
(* Each request runs handleEvent in its own goroutine; the requests share  *)
(* the idempotency keys in Redis, the events table and the stream the      *)
(* matcher reads.  Each call to a store is a step and may fail; a failed   *)
(* call may have been applied all the same.  A client that got no answer   *)
(* or a bad one may post the event again: a retry is one more request with *)
(* the same event, and with the same key unless the client changes it.     *)
(*                                                                         *)
(* A request stands for the internal_event_id it draws (a fresh UUID), so  *)
(* a 202 answer is the request whose id it quotes.                         *)
(***************************************************************************)
EXTENDS Integers, Sequences, FiniteSets

CONSTANTS Requests,      \* the requests clients may make
          Events,        \* (event_id, source) pairs
          Keys,          \* idempotency keys: the header, or the hash of the body
          EventOf, KeyOf,\* what each request carries
          Invalid,       \* the requests validateEvent refuses
          NoRow,         \* no row, no response
          MaxPgFaults,   \* bound: failing PostgreSQL calls
          MaxRedisFaults,\* bound: failing Redis calls
          MaxCrashes,    \* bound: crashes of the process
          MaxExpiries    \* bound: keys whose 24 h TTL runs out

ASSUME IngestorAssumption ==
    /\ EventOf \in [Requests -> Events]
    /\ KeyOf \in [Requests -> Keys]
    /\ Invalid \subseteq Requests
    /\ Requests \cap {NoRow, "free", "PROCESSING", "conflict", "error", "invalid"} = {}
    /\ NoRow \notin {"free", "PROCESSING", "conflict", "error", "invalid"}
    /\ MaxPgFaults \in Nat
    /\ MaxRedisFaults \in Nat
    /\ MaxCrashes \in Nat
    /\ MaxExpiries \in Nat

VARIABLES pc,       \* the next call of each request
          answer,   \* its HTTP answer: a request's id (202), "conflict" (409), ...
          idem,     \* Redis: idempotency:<key>
          stored,   \* PostgreSQL: internal_event_id of the row of an event
          stream,   \* Redis: transactions:raw
          pgFaults, redisFaults, crashes, expiries

vars == <<pc, answer, idem, stored, stream, pgFaults, redisFaults, crashes, expiries>>

Init ==
    /\ pc = [r \in Requests |-> "start"]
    /\ answer = [r \in Requests |-> NoRow]
    /\ idem = [k \in Keys |-> "free"]
    /\ stored = [e \in Events |-> NoRow]
    /\ stream = <<>>
    /\ pgFaults = 0
    /\ redisFaults = 0
    /\ crashes = 0
    /\ expiries = 0

Goto(r, step) == pc' = [pc EXCEPT ![r] = step] /\ UNCHANGED answer

Answer(r, a) ==
    /\ pc' = [pc EXCEPT ![r] = "done"]
    /\ answer' = [answer EXCEPT ![r] = a]

PgFault ==
    /\ pgFaults < MaxPgFaults
    /\ pgFaults' = pgFaults + 1
    /\ UNCHANGED <<redisFaults, crashes, expiries>>

RedisFault ==
    /\ redisFaults < MaxRedisFaults
    /\ redisFaults' = redisFaults + 1
    /\ UNCHANGED <<pgFaults, crashes, expiries>>

NoFault == UNCHANGED <<pgFaults, redisFaults, crashes, expiries>>

SetKey(r, value) == [idem EXCEPT ![KeyOf[r]] = value]

\* validateEvent fails before any store is touched.
Refuse(r) ==
    /\ pc[r] = "start"
    /\ r \in Invalid
    /\ Answer(r, "invalid")
    /\ NoFault
    /\ UNCHANGED <<idem, stored, stream>>

Reserved(r) == IF idem[KeyOf[r]] = "free" THEN SetKey(r, "PROCESSING") ELSE idem

\* SETNX idempotency:<key> PROCESSING.
Reserve(r) ==
    /\ pc[r] = "start"
    /\ r \notin Invalid
    /\ \/ /\ idem' = Reserved(r)
          /\ Goto(r, IF idem[KeyOf[r]] = "free" THEN "insert" ELSE "look")
          /\ NoFault
       \/ /\ idem' \in {idem, Reserved(r)}
          /\ Answer(r, "error")
          /\ RedisFault
    /\ UNCHANGED <<stored, stream>>

\* Mutant: a key that is being processed does not stop the request.
LookNever(r) ==
    /\ pc[r] = "look"
    /\ Goto(r, "insert")
    /\ NoFault
    /\ UNCHANGED <<idem, stored, stream>>

\* GET of a key somebody else has set.  Its error is ignored: a value that
\* cannot be read, or is gone by now, lets the request through without a key.
Look(r) ==
    /\ pc[r] = "look"
    /\ \/ /\ idem[KeyOf[r]] = "PROCESSING"
          /\ Answer(r, "conflict")
          /\ NoFault
       \/ /\ idem[KeyOf[r]] \in Requests
          /\ Answer(r, idem[KeyOf[r]])
          /\ NoFault
       \/ /\ idem[KeyOf[r]] = "free"
          /\ Goto(r, "insert")
          /\ NoFault
       \/ /\ Goto(r, "insert")
          /\ RedisFault
    /\ UNCHANGED <<idem, stored, stream>>

\* The row of an event is written once: ON CONFLICT DO NOTHING.
Row(r) == IF stored[EventOf[r]] = NoRow THEN [stored EXCEPT ![EventOf[r]] = r] ELSE stored

\* Mutant: a failed INSERT is logged and the event is queued.
InsertCarriesOn(r) ==
    /\ pc[r] = "insert"
    /\ \/ stored' = Row(r) /\ NoFault
       \/ stored' \in {stored, Row(r)} /\ PgFault
    /\ Goto(r, "publish")
    /\ UNCHANGED <<idem, stream>>

Insert(r) ==
    /\ pc[r] = "insert"
    /\ \/ stored' = Row(r) /\ Goto(r, "publish") /\ NoFault
       \/ stored' \in {stored, Row(r)} /\ Goto(r, "release") /\ PgFault
    /\ UNCHANGED <<idem, stream>>

Queued(r) == Append(stream, [event |-> EventOf[r], id |-> r])

\* Mutant: a failed XADD is only logged.
PublishCarriesOn(r) ==
    /\ pc[r] = "publish"
    /\ \/ stream' = Queued(r) /\ NoFault
       \/ stream' \in {stream, Queued(r)} /\ RedisFault
    /\ Goto(r, "remember")
    /\ UNCHANGED <<idem, stored>>

\* XADD transactions:raw.
Publish(r) ==
    /\ pc[r] = "publish"
    /\ \/ stream' = Queued(r) /\ Goto(r, "remember") /\ NoFault
       \/ stream' \in {stream, Queued(r)} /\ Goto(r, "release") /\ RedisFault
    /\ UNCHANGED <<idem, stored>>

\* Mutant: the key of a request that failed is kept.
ReleaseNothing(r) ==
    /\ pc[r] = "release"
    /\ Answer(r, "error")
    /\ NoFault
    /\ UNCHANGED <<idem, stored, stream>>

\* DEL of the key, whoever holds it; its own failure is ignored.
Release(r) ==
    /\ pc[r] = "release"
    /\ \/ idem' = SetKey(r, "free") /\ NoFault
       \/ idem' \in {idem, SetKey(r, "free")} /\ RedisFault
    /\ Answer(r, "error")
    /\ UNCHANGED <<stored, stream>>

\* Mutant: the key is marked done without the response.
RememberDone(r) ==
    /\ pc[r] = "remember"
    /\ idem' = SetKey(r, "DONE")
    /\ Answer(r, r)
    /\ NoFault
    /\ UNCHANGED <<stored, stream>>

\* SET of the key to the response; a failure is ignored.
Remember(r) ==
    /\ pc[r] = "remember"
    /\ \/ idem' = SetKey(r, r) /\ NoFault
       \/ idem' \in {idem, SetKey(r, r)} /\ RedisFault
    /\ Answer(r, r)
    /\ UNCHANGED <<stored, stream>>

InFlight(r) == pc[r] \notin {"start", "done", "dead"}

\* The process dies: requests in flight never get an answer.
Crash ==
    /\ crashes < MaxCrashes
    /\ crashes' = crashes + 1
    /\ \E r \in Requests : InFlight(r)
    /\ pc' = [r \in Requests |-> IF InFlight(r) THEN "dead" ELSE pc[r]]
    /\ UNCHANGED <<answer, idem, stored, stream, pgFaults, redisFaults, expiries>>

\* The TTL of a key outlasts every request that uses it.
Expire(k) ==
    /\ expiries < MaxExpiries
    /\ expiries' = expiries + 1
    /\ idem[k] # "free"
    /\ \A r \in Requests : KeyOf[r] = k => ~InFlight(r)
    /\ idem' = [idem EXCEPT ![k] = "free"]
    /\ UNCHANGED <<pc, answer, stored, stream, pgFaults, redisFaults, crashes>>

Handle(r) == Refuse(r) \/ Reserve(r) \/ Look(r) \/ Insert(r) \/ Publish(r) \/ Release(r)
             \/ Remember(r)

Next == \/ \E r \in Requests : Handle(r)
        \/ Crash
        \/ \E k \in Keys : Expire(k)

Spec == Init /\ [][Next]_vars

-----------------------------------------------------------------------------
(* Properties.                                                             *)

Messages == [event : Events, id : Requests]

Answers == Requests \cup {NoRow, "conflict", "error", "invalid"}

Steps == {"start", "look", "insert", "publish", "release", "remember", "done", "dead"}

InStream(r) == \E i \in DOMAIN stream : stream[i] = [event |-> EventOf[r], id |-> r]

\* The shapes of the stores, and of the requests' progress.
TypeOK ==
    /\ pc \in [Requests -> Steps]
    /\ answer \in [Requests -> Answers]
    /\ idem \in [Keys -> Requests \cup {"free", "PROCESSING"}]
    /\ stored \in [Events -> Requests \cup {NoRow}]
    /\ stream \in Seq(Messages)
    /\ pgFaults \in Nat /\ redisFaults \in Nat /\ crashes \in Nat /\ expiries \in Nat

\* README.md: the ingestor persists an event and pushes it to the stream.
\* A 202, also one that quotes an earlier answer, quotes the id of a message
\* in the stream that a request with the same key put there.
AcceptedIsQueued ==
    \A r \in Requests : answer[r] \in Requests =>
        KeyOf[answer[r]] = KeyOf[r] /\ InStream(answer[r])

\* Nothing reaches the matcher that is not in the events table, and nothing
\* validateEvent refused reaches either.
QueuedIsStored ==
    /\ \A i \in DOMAIN stream : stored[stream[i].event] # NoRow
    /\ \A r \in Invalid : ~InStream(r) /\ \A e \in Events : stored[e] # r

\* The dedup of the endpoint: as long as no call fails and no key expires, an
\* event is queued once, however many requests carry it with one key and
\* however they interleave, and under the id of its row.
QueuedOnce ==
    pgFaults + redisFaults + crashes + expiries = 0 =>
        /\ \A i, j \in DOMAIN stream : stream[i].event = stream[j].event => i = j
        /\ \A i \in DOMAIN stream : stored[stream[i].event] = stream[i].id

Working(r) == pc[r] \in {"insert", "publish", "release", "remember"}

ConflictJustified(r) ==
    answer[r] # "conflict" /\ answer'[r] = "conflict" =>
        \E s \in Requests \ {r} : KeyOf[s] = KeyOf[r] /\ Working(s)

\* The 409 says "request with same key is being processed" (handler.go): a
\* request with the same key is at work when it is sent.
ConflictMeansInFlight == [][\A r \in Requests : ConflictJustified(r)]_vars

\* It does mean that as long as Redis answers and the process lives, whatever
\* PostgreSQL does: a request that failed has freed its key.
FailureFreesKey ==
    [][redisFaults + crashes = 0 => \A r \in Requests : ConflictJustified(r)]_vars

-----------------------------------------------------------------------------
(* The inductive invariant: how far a request has come.                    *)

\* What a request goes on to has its ground in the stores.
Progress(r) ==
    /\ pc[r] \in {"publish", "remember"} => stored[EventOf[r]] # NoRow
    /\ pc[r] = "remember" => InStream(r)
    /\ r \in Invalid => pc[r] \in {"start", "done"}

\* A remembered answer belongs to the key and to a queued message.
Remembered ==
    \A k \in Keys : idem[k] \in Requests => KeyOf[idem[k]] = k /\ InStream(idem[k])

\* Until Redis fails or the process dies, a key at PROCESSING has a request
\* that will change it: not always the one that set it.
HeldByWorker ==
    redisFaults + crashes = 0 =>
        \A k \in Keys : idem[k] = "PROCESSING" =>
            \E s \in Requests : KeyOf[s] = k /\ Working(s)

IInv ==
    /\ TypeOK
    /\ HeldByWorker
    /\ \A r \in Requests : Progress(r)
    /\ Remembered
    /\ AcceptedIsQueued
    /\ QueuedIsStored

\* What an undisturbed run adds, when an event always comes with one key: the
\* key has one holder, and who wrote the row of an event holds its key or has
\* left it his answer.
OneKeyPerEvent ==
    \A r, s \in Requests : EventOf[r] = EventOf[s] => KeyOf[r] = KeyOf[s]

Undisturbed == pgFaults = 0 /\ redisFaults = 0 /\ crashes = 0 /\ expiries = 0

Settled(r) == idem[KeyOf[r]] \in Requests

HoldsKey(r) ==
    /\ pc[r] \notin {"release", "dead"}
    /\ pc[r] = "look" => idem[KeyOf[r]] # "free"
    /\ Working(r) => /\ idem[KeyOf[r]] = "PROCESSING"
                     /\ \A s \in Requests : Working(s) /\ KeyOf[s] = KeyOf[r] => s = r
    /\ pc[r] \in {"publish", "remember"} => stored[EventOf[r]] = r

RowOfHolder(e) ==
    stored[e] # NoRow =>
        /\ EventOf[stored[e]] = e
        /\ pc[stored[e]] \in {"publish", "remember"} \/ Settled(stored[e])

MessageOfHolder(i) ==
    /\ stored[stream[i].event] = stream[i].id
    /\ pc[stream[i].id] = "remember" \/ Settled(stream[i].id)
    /\ \A j \in DOMAIN stream : stream[i].event = stream[j].event => i = j

OneHolder ==
    Undisturbed =>
        /\ \A r \in Requests : HoldsKey(r)
        /\ \A e \in Events : RowOfHolder(e)
        /\ \A i \in DOMAIN stream : MessageOfHolder(i)

=============================================================================
