--------------------------- MODULE UndisturbedEngine ---------------------------
(***************************************************************************)
(* The matcher while no call fails.  Two kinds of run:                     *)
(*                                                                         *)
(*   - undisturbed runs of MatchingEngine, in which a timeout may fall     *)
(*     into the handling of an event of the same transaction;              *)
(*   - serial runs, in which it does not: an event is handled in           *)
(*     milliseconds and a deadline is two seconds.                         *)
(*                                                                         *)
(* The module states what holds between two calls in either; the proofs    *)
(* are in UndisturbedEngineProofs.                                         *)
(***************************************************************************)
EXTENDS MatchingEngine

Undisturbed == faults = 0 /\ crashes = 0

-----------------------------------------------------------------------------
(* Undisturbed runs: an event the consumer is through with is kept.        *)

Cleaning == {"forget", "delete", "undeadline", "unregister"}

Copying == {"deadline", "store", "save", "restore", "resave"}

\* A transaction a round has yet to handle has no task.
TimerOnce == \A tx \in tscan \cup tpopped : pc[tx] = "idle"

\* Windows are closed after the status is written.
CleansJudged == \A p \in Procs : pc[p] \in Cleaning => status[Tx(p)] # "none"

Due(tx) == tx \in deadlines \cup tpopped

\* The task of tx is about to write a status; it took the window with e.
TaskHolds(e) == pc[e.tx] = "upsert" /\ win[e.tx][e.source] = e

Judged(tx) == status[tx] # "none"

\* The window and its checkpoint hold e, and so does the clone that will
\* replace them; e is known as the event of its source.
StoresHold(e) ==
    /\ windows[e.tx] # NoWindow /\ windows[e.tx][e.source] = e
    /\ rwin[e.tx] # NoWindow /\ rwin[e.tx][e.source] = e
    /\ ConsumerOn(e.tx) /\ pc[Consumer] \in Copying => win[Consumer][e.source] = e
    /\ e.source \in sources[e.tx]

InHand(e) == ConsumerOn(e.tx) /\ e = Entry /\ pc[Consumer] # "tally"

Kept(e) == Judged(e.tx) \/ TaskHolds(e) \/ StoresHold(e)

\* Another event of the source of a new one is out of the stores.
NewSource ==
    pc[Consumer] = "open" =>
        \A e \in EventsOf(Entry.tx, claimed) :
            e # Entry /\ e.source = Entry.source => Judged(e.tx) \/ TaskHolds(e)

\* The way of an event into the stores.
OnItsWay ==
    /\ pc[Consumer] \in {"open"} \cup Copying =>
         Judged(Entry.tx) \/ Entry.source \in sources[Entry.tx]
    /\ pc[Consumer] \in Copying => win[Consumer][Entry.source] = Entry
    /\ pc[Consumer] = "resave" =>
         \/ Judged(Entry.tx) \/ TaskHolds(Entry)
         \/ windows[Entry.tx] # NoWindow /\ windows[Entry.tx][Entry.source] = Entry

\* An open window of a transaction without a status will be timed out.
OpenIsDue(tx) ==
    ~Judged(tx) /\ pc[tx] # "upsert" =>
        /\ windows[tx] # NoWindow =>
             Due(tx) \/ pc[tx] = "take" \/ (ConsumerOn(tx) /\ pc[Consumer] = "deadline")
        /\ ConsumerOn(tx) /\ pc[Consumer] \in Copying => windows[tx] # NoWindow

\* What was acknowledged is known, and nothing of it is worked on again.
AckedIsKnown ==
    /\ \A k \in acked : log[k] # Malformed =>
         /\ log[k].id \in dedup
         /\ pc[Consumer] \notin {"idle", "claim", "ack"} => log[k] # Entry
    /\ pc[Consumer] = "ack" /\ Entry # Malformed => Entry.id \in dedup

RaceInv ==
    /\ TimerOnce
    /\ CleansJudged
    /\ AckedIsKnown
    /\ Undisturbed =>
         /\ \A e \in claimed : InHand(e) \/ Kept(e)
         /\ NewSource
         /\ OnItsWay
         /\ \A tx \in Txs : OpenIsDue(tx)

-----------------------------------------------------------------------------
(* Serial runs.                                                            *)

\* The case the time-outs are chosen for: an event is handled in milliseconds
\* and a deadline is two seconds, so no timeout of a transaction falls into
\* the handling of an event of the same transaction.
Overlap == \E tx \in Txs : ConsumerOn(tx) /\ pc[tx] # "idle"

\* Every event of the stream has an id of its own and no source sends a second
\* one about a transaction.
Orderly ==
    \A j, k \in DOMAIN log : j # k /\ log[j] # Malformed /\ log[k] # Malformed =>
        /\ log[j].id # log[k].id
        /\ log[j].tx = log[k].tx => log[j].source # log[k].source

\* Only while it works on such a stream may the process die.
SerialNext == Next /\ ~Overlap' /\ (crashes' # crashes => Orderly)

SerialSpec == Init /\ [][SerialNext]_vars

-----------------------------------------------------------------------------
(* What memory, checkpoint, source set and deadline of a transaction are    *)
(* while a process works on it, if the process has lived and no call failed.*)

By(tx) == IF ConsumerOn(tx) THEN Consumer ELSE tx

At(tx) == pc[By(tx)]

Complete(w) == IsComplete(w, ExpectedSources)

SameStores(tx) ==
    /\ rwin[tx] = windows[tx]
    /\ windows[tx] = NoWindow => sources[tx] = {}
    /\ windows[tx] # NoWindow =>
         sources[tx] = SourcesSeen(windows[tx]) /\ ~Complete(windows[tx])

AtRest(tx) == SameStores(tx) /\ (windows[tx] # NoWindow => Due(tx))

\* A second event of a source is being reported.
Repeating(tx) == At(tx) \in Reporting /\ outcome[By(tx)] = "pending"

\* The consumer has judged a window, which is still in memory and Redis.
Closing(tx) ==
    By(tx) = Consumer /\ At(tx) \in Reporting \cup {"forget"} /\ outcome[Consumer] # "pending"

\* The task of the timeout writes what it has taken.
TimingOut(tx) == By(tx) = tx /\ At(tx) \in Reporting \cup {"forget"}

\* The window of the consumer's event before that is added.
Opened(tx) == IF windows[tx] = NoWindow THEN EmptyWindow ELSE windows[tx]

Filing(tx) ==
    /\ rwin[tx] = windows[tx]
    /\ Entry.source \notin SourcesSeen(Opened(tx))
    /\ sources[tx] = SourcesSeen(Opened(tx)) \cup {Entry.source}
    /\ windows[tx] # NoWindow => Due(tx) /\ ~Complete(windows[tx])

\* The event is in the copy of the window; the window of before is in memory.
Filed(tx) ==
    /\ windows[tx] # NoWindow
    /\ Entry.source \notin SourcesSeen(windows[tx])
    /\ win[Consumer] = InsertEvent(windows[tx], Entry)
    /\ sources[tx] = SourcesSeen(win[Consumer])

Stored(tx) ==
    /\ windows[tx] = win[Consumer]
    /\ sources[tx] = SourcesSeen(win[Consumer])
    /\ Due(tx)

Stage(tx) ==
    /\ By(tx) = tx => At(tx) \in {"idle", "take"} \cup Reporting \cup Cleaning
    /\ At(tx) \in {"idle", "register", "tally"} => AtRest(tx)
    /\ Repeating(tx) => AtRest(tx) /\ windows[tx] # NoWindow /\ By(tx) = Consumer
    /\ At(tx) = "take" => SameStores(tx)
    /\ At(tx) = "open" => Filing(tx)
    /\ At(tx) \in {"deadline", "store"} => Filed(tx)
    /\ At(tx) = "store" => Due(tx)
    /\ At(tx) \in {"save", "restore", "resave"} => Stored(tx)
    /\ At(tx) \in {"restore", "resave"} =>
         rwin[tx] = windows[tx] /\ ~Complete(windows[tx])
    /\ Closing(tx) =>
         /\ windows[tx] = win[Consumer]
         /\ Complete(windows[tx])
    /\ TimingOut(tx) => windows[tx] = NoWindow /\ outcome[tx] = "degraded"
    /\ At(tx) \in Cleaning \ {"forget"} => windows[tx] = NoWindow
    /\ At(tx) \in {"undeadline", "unregister"} => rwin[tx] = NoWindow

SerialInv ==
    /\ ~Overlap
    /\ Undisturbed => \A tx \in Txs : Stage(tx)

-----------------------------------------------------------------------------
(* What the tables say of a transaction while a process works on it.       *)

\* The incidents a status needs.
KindsOf(st) ==
    CASE st = "mismatch" -> {"currency_mismatch", "amount_mismatch", "fee_mismatch"}
      [] st = "degraded" -> {"missing_source"}
      [] st = "pending"  -> {"duplicate"}
      [] OTHER -> {}

\* StatusExplained for one transaction, but for the window of a pending one.
Told(tx) ==
    /\ status[tx] = "matched" =>
         /\ DOMAIN details[tx] = Source
         /\ \A s \in Source : details[tx][s].is_matched /\ details[tx][s].reason = "none"
    /\ status[tx] = "mismatch" => \E s \in DOMAIN details[tx] : details[tx][s].reason # "none"
    /\ status[tx] \in {"mismatch", "degraded", "pending"} =>
         Reported(tx, KindsOf(status[tx]))

\* The status is written, what explains it is on its way.
Telling(tx) == At(tx) \in (Reporting \ {"upsert"}) \cup Cleaning

Judging(tx) ==
    At(tx) \in Reporting \cup Cleaning /\ outcome[By(tx)] \in {"matched", "mismatch"}

\* The rows that are not to be written any more are there.
RowsWritten(tx) ==
    LET p == By(tx)
    IN  /\ SourcesSeen(win[p]) = Source
        /\ outcome[p] = Verdict(win[p])
        /\ \A s \in Source \ rows[p] :
             s \in DOMAIN details[tx] /\ details[tx][s] = BuildDetails(win[p])[s]
        /\ At(tx) \notin {"upsert", "details"} => rows[p] = {}

IncidentsOnTheirWay(tx) ==
    LET p == By(tx)
    IN  /\ At(tx) \in Reporting =>
             \A i \in DOMAIN todo[p] : todo[p][i] \in KindsOf(outcome[p])
        /\ At(tx) \in {"upsert", "details", "record"} /\ outcome[p] = "mismatch" =>
             todo[p] # <<>>
        /\ At(tx) = "escalate" =>
             /\ iid[p] \in DOMAIN incidents
             /\ incidents[iid[p]].tx = tx /\ incidents[iid[p]].kind \in KindsOf(outcome[p])
        /\ At(tx) \in Cleaning =>
             outcome[p] = "matched" \/ Reported(tx, KindsOf(outcome[p]))

Tells(tx) ==
    /\ ~Telling(tx) => Told(tx)
    /\ Telling(tx) => status[tx] = outcome[By(tx)]
    /\ Judging(tx) => RowsWritten(tx)
    /\ IncidentsOnTheirWay(tx)
    /\ status[tx] = "pending" =>
         /\ At(tx) \notin Cleaning
         /\ windows[tx] # NoWindow \/ (By(tx) = tx /\ At(tx) = "upsert")

TablesInv == Undisturbed => \A tx \in Txs : Tells(tx)

-----------------------------------------------------------------------------
(* What the counters say while a process works.                            *)

Decisions == {"matched", "mismatch"}

Decided == {tx \in Txs : status[tx] \in Decisions}

Recordings == counts.success + counts.failed

\* An event is claimed and not counted yet.
InWork == IF pc[Consumer] \in {"idle", "claim", "ack"} THEN 0 ELSE 1

\* A decision is in the tables and not counted yet.
ToRecord ==
    IF pc[Consumer] \in {"details", "record"} /\ outcome[Consumer] \in Decisions THEN 1 ELSE 0

\* The event in work has reached the shared window, if it does.
Arrived ==
    IF pc[Consumer] \in {"idle", "claim", "ack", "register", "open", "deadline", "store"}
    THEN 0 ELSE 1

\* The decision on the window is counted, the window not yet removed.
Recorded(tx) ==
    ConsumerOn(tx) /\ pc[Consumer] \in {"create", "escalate", "forget"}
    /\ outcome[Consumer] \in Decisions

\* The events a window holds for the decision to come.
HeldOf(tx) ==
    IF windows[tx] = NoWindow \/ Recorded(tx) THEN {} ELSE SourcesSeen(windows[tx])

Held == {x \in Txs \X Source : x[2] \in HeldOf(x[1])}

\* Only a verdict on a complete window is counted.
RecordsDecisions(p) ==
    /\ pc[p] = "details" => outcome[p] \in Final
    /\ pc[p] = "record" => outcome[p] \in Decisions

EventsCounted ==
    IsFiniteSet(claimed) /\ counts.events + InWork = Cardinality(claimed)

DecisionsCounted ==
    IsFiniteSet(Decided) /\ Cardinality(Decided) <= Recordings + ToRecord

EventsSpentOnce ==
    IsFiniteSet(Held)
    /\ ExpectedSources * Recordings + Cardinality(Held) <= counts.events + Arrived

CountersInv ==
    Undisturbed =>
        /\ \A p \in Procs : RecordsDecisions(p)
        /\ EventsCounted
        /\ DecisionsCounted
        /\ EventsSpentOnce

-----------------------------------------------------------------------------
(* Serial runs in which the process dies, on an orderly stream.  The       *)
(* entries that were delivered and not acknowledged are lost; of the       *)
(* acknowledged ones the checkpoints tell, while the deadlines keep the    *)
(* checkpoints from expiring.                                              *)

\* The window holds e, and so does the clone that will replace it; or the task
\* of the timeout has it.
Remembered(e) ==
    /\ windows[e.tx] = NoWindow => TaskHolds(e)
    /\ windows[e.tx] # NoWindow => windows[e.tx][e.source] = e
    /\ ConsumerOn(e.tx) /\ pc[Consumer] \in Copying => win[Consumer][e.source] = e

Checkpointed(e) == rwin[e.tx] # NoWindow /\ rwin[e.tx][e.source] = e

\* One crash more takes nothing from a transaction that is not stranded.
Saved(e) ==
    \/ Judged(e.tx)
    \/ stranded[e.tx] > 1
    \/ Remembered(e) /\ (stranded[e.tx] = 1 \/ Checkpointed(e))

\* Unless it is stranded, an open window has a deadline, or the task of its
\* timeout is at work, and no checkpoint is left without one.
Scheduled(tx) ==
    ~Judged(tx) /\ stranded[tx] = 0 =>
        /\ windows[tx] # NoWindow =>
             Due(tx) \/ pc[tx] = "take" \/ (ConsumerOn(tx) /\ pc[Consumer] = "deadline")
        /\ rwin[tx] # NoWindow =>
             \/ pc[tx] = "upsert"
             \/ windows[tx] # NoWindow /\ (Due(tx) \/ pc[tx] = "take")
        /\ ConsumerOn(tx) /\ pc[Consumer] \in Copying => windows[tx] # NoWindow

\* Every event is accepted where the stream has it.
ClaimedInOrder ==
    \A e \in claimed : \E j \in 1..cur : e = log[j] /\ (pc[Consumer] = "claim" => j # cur)

\* The way of an event into the checkpoint.
EntryOnItsWay ==
    /\ pc[Consumer] \in Copying => win[Consumer][Entry.source] = Entry
    /\ pc[Consumer] = "save" =>
         windows[Entry.tx] # NoWindow /\ windows[Entry.tx][Entry.source] = Entry

\* The consumer is through with e, or has checkpointed it at least.
Handled(e) ==
    \/ \E k \in acked : log[k] = e
    \/ pc[Consumer] \in {"restore", "resave", "tally", "ack"} /\ e = Entry

HandledIsSaved ==
    /\ pc[Consumer] # "idle" => cur \notin acked
    /\ \A e \in Events : Handled(e) => Saved(e)

InOrder ==
    /\ ClaimedInOrder
    /\ EntryOnItsWay
    /\ HandledIsSaved
    /\ \A tx \in Txs : Scheduled(tx)

CrashInv ==
    /\ ~Orderly => crashes = 0
    /\ Orderly /\ faults = 0 /\ (LongOutage => crashes = 0) => InOrder

-----------------------------------------------------------------------------
(* What it takes to judge a transaction once only.                         *)

\* e is not judged yet: the consumer is adding it, the window holds it, or the
\* task of the timeout that took it.
Unjudged(e) ==
    \/ By(e.tx) = Consumer /\ At(e.tx) \in {"register", "open"} \cup Copying /\ e = Entry
    \/ windows[e.tx] # NoWindow /\ windows[e.tx][e.source] = e /\ ~Telling(e.tx)
    \/ By(e.tx) = e.tx /\ At(e.tx) = "upsert" /\ win[e.tx][e.source] = e

\* An event of its own is judged with every window.
NeverEmpty(tx) ==
    /\ windows[tx] # NoWindow /\ At(tx) \notin {"deadline", "store"} =>
         SourcesSeen(windows[tx]) # {}
    /\ By(tx) = tx /\ At(tx) = "upsert" => SourcesSeen(win[tx]) # {}

\* A complete window has used up the events of its transaction; one that was
\* judged without them all has used up one at least.
Stands(tx) ==
    /\ NeverEmpty(tx)
    /\ At(tx) \in Reporting => outcome[By(tx)] # "pending"
    /\ status[tx] = "degraded" => \E e \in EventsOf(tx, claimed) : ~Unjudged(e)
    /\ status[tx] \in Decisions =>
         /\ \A s \in Source : \E e \in EventsOf(tx, claimed) : e.source = s
         /\ \A e \in EventsOf(tx, claimed) : ~Unjudged(e)

StandInv == Undisturbed /\ Orderly => \A tx \in Txs : Stands(tx)

\* A decision is final: no later event, no timeout and no other task changes it.
DecisionsStand ==
    [][Undisturbed' /\ Orderly =>
         \A tx \in Txs : status[tx] \in Final => status'[tx] = status[tx]]_vars

=============================================================================
