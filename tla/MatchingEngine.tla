---------------------------- MODULE MatchingEngine ----------------------------
(***************************************************************************)
(* The matcher process (src/matcher): one stream consumer and one timer    *)
(* that share the in-memory windows, Redis and PostgreSQL.                 *)
(*                                                                         *)
(*   - Consumer reads the stream in batches and runs handle_event on one   *)
(*     entry after the other.                                              *)
(*   - The timer pops expired deadlines and spawns a handle_timeout task   *)
(*     for each; the task of a transaction is the process of that name.    *)
(*                                                                         *)
(* Every await on Redis or PostgreSQL is a step of its own: the two sides  *)
(* interleave between any two of them, and any of them may fail.  A failed *)
(* call may have been applied: the failure is then one step later.         *)
(***************************************************************************)
EXTENDS Reconciliation

CONSTANTS Txs,             \* transaction ids
          Events,          \* payment events: [id, tx, source, amount, fee, currency]
          Logs,            \* the contents the stream may have
          Malformed,       \* a stream entry without a parsable payload
          Consumer,        \* the stream consumer task
          NoWindow,        \* a transaction without a window
          ExpectedSources, \* expected_sources_count
          BatchSize,       \* XREADGROUP COUNT
          TaskLimit,       \* timeout tasks running at once
          MaxFaults,       \* bound: failing calls in one behaviour
          MaxCrashes,      \* bound: crashes of the process in one behaviour
          LongOutage       \* may a restart take longer than the Redis key TTLs?

ASSUME EngineAssumption ==
    /\ Consumer \notin Txs
    /\ Events \subseteq [id : {e.id : e \in Events}, tx : Txs, source : Source,
                         amount : 0..I64Max, fee : 0..I64Max,
                         currency : {e.currency : e \in Events}]
    /\ Malformed \notin Events
    /\ NoEvent \notin Events
    /\ NoWindow \notin [Source -> Events \cup {NoEvent}]
    /\ Logs \subseteq Seq(Events \cup {Malformed})
    /\ ExpectedSources \in Nat \ {0}
    /\ BatchSize \in Nat \ {0}
    /\ TaskLimit \in Nat \ {0}
    /\ MaxFaults \in Nat
    /\ MaxCrashes \in Nat
    /\ LongOutage \in BOOLEAN

Procs == Txs \cup {Consumer}

VARIABLES
    log,       \* the stream; an entry counts as added once it is read
    last,      \* last-delivered position of the consumer group
    cur,       \* position of the entry the consumer handles or handled last
    acked,     \* positions acknowledged with XACK
    pc,        \* the next call of each process
    win,       \* the local copy of the window
    outcome,   \* the overall_status being written
    rows,      \* the reconciliation_details rows still to write
    todo,      \* the incidents still to create
    iid,       \* the id create_incident returned last
    windows,   \* the DashMap of open windows
    dedup,     \* Redis: dedup:event:<id>
    claimed,   \* history: the events whose claim succeeded
    sources,   \* Redis: sources:<tx>
    rwin,      \* Redis: window:<tx>, the checkpoint of a window
    deadlines, \* Redis: members of the deadlines ZSET
    scheduled, \* Redis: members of the incident_escalations ZSET
    counts,    \* Redis: the metrics counters
    tscan,     \* timer: members ZRANGEBYSCORE returned, not yet removed
    tpopped,   \* timer: transactions popped, no task spawned yet
    status,    \* PostgreSQL: transactions.overall_status, "none" without a row
    details,   \* PostgreSQL: reconciliation_details of each transaction
    incidents, \* PostgreSQL: incidents, in the order of their ids
    faults,    \* failing calls so far
    crashes,   \* crashes so far
    stranded   \* history: how often the process died since it took the timeout
               \* of a transaction with it

streamVars == <<log, last, cur, acked>>
procVars   == <<pc, win, outcome, rows, todo, iid>>
redisVars  == <<dedup, claimed, sources, rwin, deadlines, scheduled, counts>>
timerVars  == <<tscan, tpopped>>
pgVars     == <<status, details, incidents>>
budgetVars == <<faults, crashes, stranded>>
vars == <<streamVars, procVars, windows, redisVars, timerVars, pgVars, budgetVars>>

Entry == log[cur]

Tx(p) == IF p = Consumer THEN Entry.tx ELSE p

\* Does somebody work on tx?
ConsumerOn(tx) == pc[Consumer] \notin {"idle", "claim", "ack"} /\ Entry.tx = tx

Quiet(tx) == ~ConsumerOn(tx) /\ pc[tx] = "idle"

Goto(p, step) == pc' = [pc EXCEPT ![p] = step]

Fault == faults < MaxFaults /\ faults' = faults + 1

\* A process that ends its handler forgets its locals.
Return(p) ==
    /\ pc'      = [pc EXCEPT ![p] = "idle"]
    /\ win'     = [win EXCEPT ![p] = EmptyWindow]
    /\ outcome' = [outcome EXCEPT ![p] = "none"]
    /\ rows'    = [rows EXCEPT ![p] = {}]
    /\ todo'    = [todo EXCEPT ![p] = <<>>]
    /\ iid'     = [iid EXCEPT ![p] = 0]

ProcInit ==
    /\ pc      = [p \in Procs |-> "idle"]
    /\ win     = [p \in Procs |-> EmptyWindow]
    /\ outcome = [p \in Procs |-> "none"]
    /\ rows    = [p \in Procs |-> {}]
    /\ todo    = [p \in Procs |-> <<>>]
    /\ iid     = [p \in Procs |-> 0]

Init ==
    /\ log \in Logs
    /\ last = 0
    /\ cur = 0
    /\ acked = {}
    /\ ProcInit
    /\ windows = [tx \in Txs |-> NoWindow]
    /\ dedup = {}
    /\ claimed = {}
    /\ sources = [tx \in Txs |-> {}]
    /\ rwin = [tx \in Txs |-> NoWindow]
    /\ deadlines = {}
    /\ scheduled = {}
    /\ counts = [events |-> 0, success |-> 0, failed |-> 0]
    /\ tscan = {}
    /\ tpopped = {}
    /\ status = [tx \in Txs |-> "none"]
    /\ details = [tx \in Txs |-> <<>>]
    /\ incidents = <<>>
    /\ faults = 0
    /\ crashes = 0
    /\ stranded = [tx \in Txs |-> 0]

-----------------------------------------------------------------------------
(* stream.rs: the consumer's loop.                                         *)

\* XREADGROUP > delivers up to BatchSize new entries once the batch before
\* is worked off.
XRead ==
    /\ pc[Consumer] = "idle"
    /\ cur = last
    /\ \E n \in 1..BatchSize :
         /\ last + n <= Len(log)
         /\ last' = last + n
    /\ UNCHANGED <<log, cur, acked, procVars, windows, redisVars, timerVars, pgVars, budgetVars>>

\* XREADGROUP moves the group on and its answer is lost: the consumer logs the
\* error and reads on behind a batch it never saw.
XReadLost ==
    /\ pc[Consumer] = "idle"
    /\ cur = last
    /\ \E n \in 1..BatchSize :
         /\ last + n <= Len(log)
         /\ last' = last + n
    /\ cur' = last'
    /\ Fault
    /\ UNCHANGED <<log, acked, procVars, windows, redisVars, timerVars, pgVars, crashes, stranded>>

\* Mutant: an entry without a payload is skipped without an ack.
FirstCallNoAck(entry) == IF entry = Malformed THEN "idle" ELSE "claim"

FirstCall(entry) == IF entry = Malformed THEN "ack" ELSE "claim"

\* The next entry of the batch; one without a payload is skipped and acked.
NextEntry ==
    /\ pc[Consumer] = "idle"
    /\ cur < last
    /\ cur' = cur + 1
    /\ Goto(Consumer, FirstCall(log[cur + 1]))
    /\ UNCHANGED <<log, last, acked, win, outcome, rows, todo, iid,
                   windows, redisVars, timerVars, pgVars, budgetVars>>

Ack ==
    /\ pc[Consumer] = "ack"
    /\ acked' = acked \cup {cur}
    /\ Return(Consumer)
    /\ UNCHANGED <<log, last, cur, windows, redisVars, timerVars, pgVars, budgetVars>>

-----------------------------------------------------------------------------
(* handle_event up to the decision.                                        *)

\* Mutant: SET without NX, every entry counts as new.
AlreadyClaimedNever == FALSE

AlreadyClaimed == Entry.id \in dedup

\* SET dedup:event:<id> NX: a second entry with the id is acked and ignored.
Claim ==
    /\ pc[Consumer] = "claim"
    /\ \/ /\ AlreadyClaimed
          /\ Goto(Consumer, "ack")
          /\ UNCHANGED <<dedup, claimed>>
       \/ /\ ~AlreadyClaimed
          /\ dedup' = dedup \cup {Entry.id}
          /\ claimed' = claimed \cup {Entry}
          /\ Goto(Consumer, "register")
    /\ UNCHANGED <<streamVars, win, outcome, rows, todo, iid, windows, sources, rwin,
                   deadlines, scheduled, counts, timerVars, pgVars, budgetVars>>

\* Mutant: one key for all sources of the transaction.
AlreadyRegisteredAny == sources[Entry.tx] # {}

AlreadyRegistered == Entry.source \in sources[Entry.tx]

\* SADD sources:<tx>: the second event of a source goes to the duplicate path,
\* which leaves the window alone.
Register ==
    /\ pc[Consumer] = "register"
    /\ sources' = [sources EXCEPT ![Entry.tx] = @ \cup {Entry.source}]
    /\ \/ /\ ~AlreadyRegistered
          /\ Goto(Consumer, "open")
          /\ UNCHANGED <<win, outcome, todo>>
       \/ /\ AlreadyRegistered
          /\ Goto(Consumer, "upsert")
          /\ win' = [win EXCEPT ![Consumer] = InsertEvent(EmptyWindow, Entry)]
          /\ outcome' = [outcome EXCEPT ![Consumer] = "pending"]
          /\ todo' = [todo EXCEPT ![Consumer] = <<"duplicate">>]
    /\ UNCHANGED <<streamVars, rows, iid, windows, dedup, claimed, rwin, deadlines,
                   scheduled, counts, timerVars, pgVars, budgetVars>>

\* The shared window, or a new empty one, is cloned; the event goes into the
\* clone only.
OpenWindow ==
    /\ pc[Consumer] = "open"
    /\ LET w == IF windows[Entry.tx] = NoWindow THEN EmptyWindow ELSE windows[Entry.tx]
       IN  /\ windows' = [windows EXCEPT ![Entry.tx] = w]
           /\ win' = [win EXCEPT ![Consumer] = InsertEvent(w, Entry)]
           /\ Goto(Consumer, IF w = EmptyWindow THEN "deadline" ELSE "store")
    /\ UNCHANGED <<streamVars, outcome, rows, todo, iid, redisVars, timerVars, pgVars, budgetVars>>

\* Mutant: the deadline is not written.
AddDeadlineLost ==
    /\ pc[Consumer] = "deadline"
    /\ Goto(Consumer, "store")
    /\ UNCHANGED <<streamVars, win, outcome, rows, todo, iid, windows, redisVars, timerVars,
                   pgVars, budgetVars>>

\* ZADD deadlines, for the first event of a window.
AddDeadline ==
    /\ pc[Consumer] = "deadline"
    /\ deadlines' = deadlines \cup {Entry.tx}
    /\ Goto(Consumer, "store")
    /\ UNCHANGED <<streamVars, win, outcome, rows, todo, iid, windows, dedup, claimed,
                   sources, rwin, scheduled, counts, timerVars, pgVars, budgetVars>>

\* The clone replaces the shared window, before the decision ("store") and
\* once more after it when the window stays open ("restore").
StoreWindow ==
    /\ \/ pc[Consumer] = "store"   /\ Goto(Consumer, "save")
       \/ pc[Consumer] = "restore" /\ Goto(Consumer, "resave")
    /\ windows' = [windows EXCEPT ![Entry.tx] = win[Consumer]]
    /\ UNCHANGED <<streamVars, win, outcome, rows, todo, iid, redisVars, timerVars, pgVars, budgetVars>>

\* Mutant: only a wrong amount makes a mismatch.
FinalizeIgnoresFee(p, w) ==
    /\ Goto(p, "upsert")
    /\ outcome' = [outcome EXCEPT ![p] = IF AmountMismatch(w) THEN "mismatch" ELSE "matched"]
    /\ rows' = [rows EXCEPT ![p] = SourcesSeen(w)]
    /\ todo' = [todo EXCEPT ![p] = MismatchIncidents(w)]

\* Mutant: the rows are written before the transaction.
FinalizeRowsFirst(p, w) ==
    /\ Goto(p, "details")
    /\ outcome' = [outcome EXCEPT ![p] = Verdict(w)]
    /\ rows' = [rows EXCEPT ![p] = SourcesSeen(w)]
    /\ todo' = [todo EXCEPT ![p] = MismatchIncidents(w)]

\* finalize_window decides from the local copy alone.
Finalize(p, w) ==
    /\ Goto(p, "upsert")
    /\ outcome' = [outcome EXCEPT ![p] = Verdict(w)]
    /\ rows' = [rows EXCEPT ![p] = SourcesSeen(w)]
    /\ todo' = [todo EXCEPT ![p] = MismatchIncidents(w)]

\* SET window:<tx>, followed by the completeness test the first time.
SaveWindow ==
    /\ pc[Consumer] \in {"save", "resave"}
    /\ rwin' = [rwin EXCEPT ![Entry.tx] = win[Consumer]]
    /\ \/ /\ pc[Consumer] = "save"
          /\ IsComplete(win[Consumer], ExpectedSources)
          /\ Finalize(Consumer, win[Consumer])
       \/ /\ pc[Consumer] = "save"
          /\ ~IsComplete(win[Consumer], ExpectedSources)
          /\ Goto(Consumer, "restore")
          /\ UNCHANGED <<outcome, rows, todo>>
       \/ /\ pc[Consumer] = "resave"
          /\ Goto(Consumer, "tally")
          /\ UNCHANGED <<outcome, rows, todo>>
    /\ UNCHANGED <<streamVars, win, iid, windows, dedup, claimed, sources, deadlines,
                   scheduled, counts, timerVars, pgVars, budgetVars>>

-----------------------------------------------------------------------------
(* Writing a decision: the steps finalize_window, the degraded path of     *)
(* handle_timeout and the duplicate path of handle_event share.            *)

\* Mutant: no incident for a degraded transaction.
AfterRowsSilent(p) == IF outcome[p] = "degraded" THEN "forget" ELSE "record"

\* Mutant: a degraded transaction counts as a failed match.
AfterRowsCounted(p) == "record"

AfterRows(p) == IF outcome[p] = "degraded" THEN "create" ELSE "record"

AfterUpsert(p) ==
    IF outcome[p] = "pending" THEN "create"
    ELSE IF rows[p] = {} THEN AfterRows(p)
    ELSE "details"

\* INSERT ... ON CONFLICT DO UPDATE: whatever status was there is overwritten.
UpsertTransaction(p) ==
    /\ pc[p] = "upsert"
    /\ status' = [status EXCEPT ![Tx(p)] = outcome[p]]
    /\ Goto(p, AfterUpsert(p))
    /\ UNCHANGED <<streamVars, win, outcome, rows, todo, iid, windows, redisVars, timerVars,
                   details, incidents, budgetVars>>

\* The rows are written one statement each, in the order of build_details.
NextRow(p) == rows[p] \cap
    (IF "merchant" \in rows[p] THEN {"merchant"}
     ELSE IF "gateway" \in rows[p] THEN {"gateway"} ELSE {"bank"})

UpsertDetail(p) ==
    /\ pc[p] = "details"
    /\ \E s \in NextRow(p) :
         /\ details' = [details EXCEPT ![Tx(p)] = PutRow(@, s, BuildDetails(win[p])[s])]
         /\ rows' = [rows EXCEPT ![p] = @ \ {s}]
         /\ Goto(p, IF rows[p] = {s} THEN AfterRows(p) ELSE "details")
    /\ UNCHANGED <<streamVars, win, outcome, todo, iid, windows, redisVars, timerVars,
                   status, incidents, budgetVars>>

\* The counters of record_match_result and record_event_processed are best
\* effort: a failure is ignored.
Count(field) ==
    \/ /\ counts' = [counts EXCEPT ![field] = @ + 1]
       /\ UNCHANGED faults
    \/ /\ faults < MaxFaults
       /\ faults' = faults + 1
       /\ UNCHANGED counts

\* Mutant: the window and its checkpoint are not removed.
AfterIncidentsKeepWindow(p) == IF outcome[p] = "pending" THEN "tally" ELSE "undeadline"

\* Mutant: a duplicate event closes the window it should leave alone.
AfterIncidentsAlwaysClean(p) == "forget"

AfterIncidents(p) == IF outcome[p] = "pending" THEN "tally" ELSE "forget"

RecordMatchResult(p) ==
    /\ pc[p] = "record"
    /\ Count(IF outcome[p] = "matched" THEN "success" ELSE "failed")
    /\ Goto(p, IF todo[p] = <<>> THEN AfterIncidents(p) ELSE "create")
    /\ UNCHANGED <<streamVars, win, outcome, rows, todo, iid, windows, dedup, claimed, sources,
                   rwin, deadlines, scheduled, timerVars, pgVars, crashes, stranded>>

\* INSERT INTO incidents ... RETURNING id.  The description quotes the window.
CreateIncident(p) ==
    /\ pc[p] = "create"
    /\ incidents' = Append(incidents,
                           [tx |-> Tx(p), kind |-> Head(todo[p]), window |-> win[p]])
    /\ iid' = [iid EXCEPT ![p] = Len(incidents) + 1]
    /\ todo' = [todo EXCEPT ![p] = Tail(@)]
    /\ Goto(p, "escalate")
    /\ UNCHANGED <<streamVars, win, outcome, rows, windows, redisVars, timerVars,
                   status, details, budgetVars>>

\* ZADD incident_escalations: every incident is created with severity 1.
AddEscalation(p) ==
    /\ pc[p] = "escalate"
    /\ scheduled' = scheduled \cup {iid[p]}
    /\ Goto(p, IF todo[p] = <<>> THEN AfterIncidents(p) ELSE "create")
    /\ UNCHANGED <<streamVars, win, outcome, rows, todo, iid, windows, dedup, claimed, sources,
                   rwin, deadlines, counts, timerVars, pgVars, budgetVars>>

\* cleanup_window, call by call.
ForgetWindow(p) ==
    /\ pc[p] = "forget"
    /\ windows' = [windows EXCEPT ![Tx(p)] = NoWindow]
    /\ Goto(p, "delete")
    /\ UNCHANGED <<streamVars, win, outcome, rows, todo, iid, redisVars, timerVars, pgVars, budgetVars>>

DeleteWindow(p) ==
    /\ pc[p] = "delete"
    /\ rwin' = [rwin EXCEPT ![Tx(p)] = NoWindow]
    /\ Goto(p, "undeadline")
    /\ UNCHANGED <<streamVars, win, outcome, rows, todo, iid, windows, dedup, claimed, sources,
                   deadlines, scheduled, counts, timerVars, pgVars, budgetVars>>

RemoveDeadline(p) ==
    /\ pc[p] = "undeadline"
    /\ deadlines' = deadlines \ {Tx(p)}
    /\ Goto(p, "unregister")
    /\ UNCHANGED <<streamVars, win, outcome, rows, todo, iid, windows, dedup, claimed, sources,
                   rwin, scheduled, counts, timerVars, pgVars, budgetVars>>

\* DEL sources:<tx> ends the work on a window: the task of a timeout is over,
\* the consumer goes on to its counters.
CleanupSources(p) ==
    /\ pc[p] = "unregister"
    /\ sources' = [sources EXCEPT ![Tx(p)] = {}]
    /\ \/ /\ p = Consumer
          /\ Goto(p, "tally")
          /\ UNCHANGED <<win, outcome, rows, todo, iid>>
       \/ /\ p # Consumer
          /\ Return(p)
    /\ UNCHANGED <<streamVars, windows, dedup, claimed, rwin, deadlines, scheduled, counts,
                   timerVars, pgVars, budgetVars>>

\* record_event_processed, and handle_event returns Ok.
Tally ==
    /\ pc[Consumer] = "tally"
    /\ Count("events")
    /\ Goto(Consumer, "ack")
    /\ UNCHANGED <<streamVars, win, outcome, rows, todo, iid, windows, dedup, claimed, sources,
                   rwin, deadlines, scheduled, timerVars, pgVars, crashes, stranded>>

-----------------------------------------------------------------------------
(* timer.rs and process_expired_windows.                                   *)

Running == {tx \in Txs : pc[tx] # "idle"}

\* A tick: ZRANGEBYSCORE returns the deadlines that are due.  The round before
\* is over: process_expired_windows joins all its tasks.
Scan(due) ==
    /\ tscan = {} /\ tpopped = {} /\ Running = {}
    /\ due # {}
    /\ due \subseteq deadlines
    /\ tscan' = due
    /\ UNCHANGED <<streamVars, procVars, windows, redisVars, tpopped, pgVars, budgetVars>>

\* Mutant: each member popped replaces the one before.
PopOverwrites(tx) ==
    /\ tx \in tscan
    /\ tscan' = tscan \ {tx}
    /\ deadlines' = deadlines \ {tx}
    /\ tpopped' = {tx} \cap deadlines
    /\ UNCHANGED <<streamVars, procVars, windows, dedup, claimed, sources, rwin, scheduled,
                   counts, pgVars, budgetVars>>

\* ZREM: only a member this call removed is handled.
Pop(tx) ==
    /\ tx \in tscan
    /\ tscan' = tscan \ {tx}
    /\ deadlines' = deadlines \ {tx}
    /\ tpopped' = tpopped \cup ({tx} \cap deadlines)
    /\ UNCHANGED <<streamVars, procVars, windows, dedup, claimed, sources, rwin, scheduled,
                   counts, pgVars, budgetVars>>

Spawn(tx) ==
    /\ tscan = {}
    /\ tx \in tpopped
    /\ Cardinality(Running) < TaskLimit
    /\ tpopped' = tpopped \ {tx}
    /\ Goto(tx, "take")
    /\ UNCHANGED <<streamVars, win, outcome, rows, todo, iid, windows, redisVars, tscan,
                   pgVars, budgetVars>>

\* handle_timeout takes the window out of memory and decides what it is: gone,
\* complete after all, or degraded.
Take(tx) ==
    /\ pc[tx] = "take"
    /\ windows' = [windows EXCEPT ![tx] = NoWindow]
    /\ \/ /\ windows[tx] = NoWindow
          /\ Return(tx)
       \/ /\ windows[tx] # NoWindow
          /\ IsComplete(windows[tx], ExpectedSources)
          /\ win' = [win EXCEPT ![tx] = windows[tx]]
          /\ Finalize(tx, windows[tx])
          /\ UNCHANGED iid
       \/ /\ windows[tx] # NoWindow
          /\ ~IsComplete(windows[tx], ExpectedSources)
          /\ win' = [win EXCEPT ![tx] = windows[tx]]
          /\ Goto(tx, "upsert")
          /\ outcome' = [outcome EXCEPT ![tx] = "degraded"]
          /\ rows' = [rows EXCEPT ![tx] = SourcesSeen(windows[tx])]
          /\ todo' = [todo EXCEPT ![tx] = <<"missing_source">>]
          /\ UNCHANGED iid
    /\ UNCHANGED <<streamVars, redisVars, timerVars, pgVars, budgetVars>>

-----------------------------------------------------------------------------
(* Failures, expiry and restarts.                                          *)

\* A failed Redis, PostgreSQL or publish call ends the handler with Err.  The
\* consumer logs it and goes on to the next entry without an ack; the task of
\* a timeout logs it and ends.
ProcFails(p) ==
    /\ pc[p] \notin {"idle", "take"}
    /\ Fault
    /\ Return(p)
    /\ UNCHANGED <<streamVars, windows, redisVars, timerVars, pgVars, crashes, stranded>>

\* A failed ZREM (applied or not) ends the tick: what it popped is forgotten.
TimerFails ==
    /\ \E tx \in tscan : deadlines' \in {deadlines, deadlines \ {tx}}
    /\ Fault
    /\ tscan' = {}
    /\ tpopped' = {}
    /\ UNCHANGED <<streamVars, procVars, windows, dedup, claimed, sources, rwin, scheduled,
                   counts, pgVars, crashes, stranded>>

\* Mutant: the process starts with no windows.
RestoreNothing(gone, unread) ==
    /\ rwin' = [tx \in Txs |-> IF tx \in gone THEN NoWindow ELSE rwin[tx]]
    /\ windows' = [tx \in Txs |-> NoWindow]

\* restore_from_redis loads the checkpoints that did not expire, but for those
\* whose GET fails: they are left out without a word.
Restore(gone, unread) ==
    /\ rwin' = [tx \in Txs |-> IF tx \in gone THEN NoWindow ELSE rwin[tx]]
    /\ windows' = [tx \in Txs |-> IF tx \in gone \cup unread THEN NoWindow ELSE rwin[tx]]

\* A deadline is removed before its timeout is handled: when the process dies
\* in between, nothing is left that would judge the transaction.
TimeoutsInWork ==
    {tx \in Txs \ deadlines : tx \in tpopped \/ pc[tx] \in {"take", "upsert"}}

\* The process dies and starts again.  What was delivered to the old consumer is
\* not read again: the new one has another name and reads ">" only.  gone are the
\* checkpoints (30 s) and forgotten the source sets (60 s) that expired in
\* between, unread the checkpoints the new process could not load.
CrashAndRestart(gone, forgotten, unread) ==
    /\ crashes < MaxCrashes
    /\ LongOutage \/ (gone = {} /\ forgotten = {})
    /\ crashes' = crashes + 1
    /\ pc' = [p \in Procs |-> "idle"]
    /\ win' = [p \in Procs |-> EmptyWindow]
    /\ outcome' = [p \in Procs |-> "none"]
    /\ rows' = [p \in Procs |-> {}]
    /\ todo' = [p \in Procs |-> <<>>]
    /\ iid' = [p \in Procs |-> 0]
    /\ cur' = last
    /\ tscan' = {}
    /\ tpopped' = {}
    /\ Restore(gone, unread)
    /\ \/ unread = {} /\ UNCHANGED faults
       \/ unread # {} /\ Fault
    /\ stranded' = [tx \in Txs |->
           IF stranded[tx] > 0 \/ tx \in TimeoutsInWork THEN stranded[tx] + 1 ELSE 0]
    /\ sources' = [tx \in Txs |-> IF tx \in forgotten THEN {} ELSE sources[tx]]
    /\ UNCHANGED <<log, last, acked, dedup, claimed, deadlines, scheduled, counts, pgVars>>

\* window:<tx> expires 30 s after the last SET, long after the deadline of the
\* window was popped and its timeout handled.  Neither a restart nor the copy
\* in memory renews it.
ExpireCheckpoint(tx) ==
    /\ rwin[tx] # NoWindow
    /\ tx \notin deadlines \cup tscan \cup tpopped
    /\ Quiet(tx)
    /\ rwin' = [rwin EXCEPT ![tx] = NoWindow]
    /\ UNCHANGED <<streamVars, procVars, windows, dedup, claimed, sources, deadlines, scheduled,
                   counts, timerVars, pgVars, budgetVars>>

\* sources:<tx> expires 60 s after the last event, long after the window's
\* deadline was popped and its timeout handled.
ExpireSources(tx) ==
    /\ sources[tx] # {}
    /\ tx \notin deadlines \cup tscan \cup tpopped
    /\ Quiet(tx)
    /\ sources' = [sources EXCEPT ![tx] = {}]
    /\ UNCHANGED <<streamVars, procVars, windows, dedup, claimed, rwin, deadlines, scheduled,
                   counts, timerVars, pgVars, budgetVars>>

-----------------------------------------------------------------------------
Consume == XRead \/ NextEntry \/ Claim \/ Register \/ OpenWindow \/ AddDeadline
           \/ StoreWindow \/ SaveWindow \/ Tally \/ Ack

Conclude(p) == UpsertTransaction(p) \/ UpsertDetail(p) \/ RecordMatchResult(p)
               \/ CreateIncident(p) \/ AddEscalation(p) \/ ForgetWindow(p)
               \/ DeleteWindow(p) \/ RemoveDeadline(p) \/ CleanupSources(p)

Environment == \/ \E p \in Procs : ProcFails(p)
               \/ XReadLost
               \/ TimerFails
               \/ \E gone, forgotten, unread \in SUBSET Txs :
                    CrashAndRestart(gone, forgotten, unread)
               \/ \E tx \in Txs : ExpireCheckpoint(tx) \/ ExpireSources(tx)

Next == \/ Consume
        \/ \E p \in Procs : Conclude(p)
        \/ \E due \in SUBSET Txs : Scan(due)
        \/ \E tx \in Txs : Pop(tx) \/ Spawn(tx) \/ Take(tx)
        \/ Environment

Spec == Init /\ [][Next]_vars

\* The tasks run: a call that is due is made.  A deadline stays due until it
\* is removed, so a timer that ticks for ever scans it.
Fairness ==
    /\ WF_vars(Consume \/ Conclude(Consumer))
    /\ \A tx \in Txs :
         /\ WF_vars(Take(tx) \/ Conclude(tx))
         /\ WF_vars(Pop(tx) \/ Spawn(tx))
         /\ SF_vars(\E due \in SUBSET Txs : tx \in due /\ Scan(due))

FairSpec == Spec /\ Fairness

-----------------------------------------------------------------------------
(* Properties.                                                             *)

Steps == {"idle", "claim", "register", "open", "deadline", "store", "save", "restore",
          "resave", "upsert", "details", "record", "create", "escalate", "forget",
          "delete", "undeadline", "unregister", "tally", "ack", "take"}

StreamTypeOK ==
    /\ log \in Logs
    /\ last \in 0..Len(log)
    /\ cur \in 0..last
    /\ acked \subseteq 1..cur

ProcTypeOK ==
    /\ pc \in [Procs -> Steps]
    /\ win \in [Procs -> Slots(Events)]
    /\ outcome \in [Procs -> Statuses]
    /\ rows \in [Procs -> SUBSET Source]
    /\ todo \in [Procs -> Seq(IncidentKinds)]
    /\ iid \in [Procs -> Nat]

RedisTypeOK ==
    /\ windows \in [Txs -> Slots(Events) \cup {NoWindow}]
    /\ claimed \subseteq Events
    /\ dedup = {e.id : e \in claimed}
    /\ sources \in [Txs -> SUBSET Source]
    /\ rwin \in [Txs -> Slots(Events) \cup {NoWindow}]
    /\ deadlines \subseteq Txs
    /\ scheduled \subseteq 1..Len(incidents)
    /\ counts \in [events : Nat, success : Nat, failed : Nat]
    /\ tscan \subseteq Txs
    /\ tpopped \subseteq Txs

RowSets == UNION {[S -> Row] : S \in SUBSET Source}

PgTypeOK ==
    /\ status \in [Txs -> Statuses]
    /\ details \in [Txs -> RowSets]
    /\ incidents \in Seq([tx : Txs, kind : IncidentKinds, window : Slots(Events)])

\* Every variable has the shape its store gives it, and only incidents that
\* exist are scheduled.
TypeOK ==
    /\ StreamTypeOK
    /\ ProcTypeOK
    /\ RedisTypeOK
    /\ PgTypeOK
    /\ faults \in Nat /\ crashes \in Nat /\ (\A tx \in Txs : stranded[tx] \in Nat)

\* The status of a transaction is never invented: some window made only of
\* events accepted for it has that outcome, whatever the interleaving of
\* consumer and timer and whichever calls failed.
VerdictJustified ==
    \A tx \in Txs : status[tx] # "none" =>
        \E w \in Slots(EventsOf(tx, claimed)) :
            Justified(status[tx], w, tx, claimed, ExpectedSources)

\* No incident is a false alarm: each quotes accepted events of its own
\* transaction that show what it reports; a duplicate means two different
\* accepted events of one source, never a retry of one event.
IncidentJustified ==
    \A i \in DOMAIN incidents :
        Evidence(incidents[i].kind, incidents[i].window, incidents[i].tx,
                 claimed, ExpectedSources)

\* The foreign keys of the schema: rows and incidents belong to a transaction
\* row written before them, on every path and after every failure.
RowsReferenceTransactions ==
    /\ \A tx \in Txs : DOMAIN details[tx] # {} => status[tx] # "none"
    /\ \A i \in DOMAIN incidents : status[incidents[i].tx] # "none"

\* An event is in PostgreSQL's account of its transaction, in the checkpoint in
\* Redis, or held by the task of its timeout.
Durable(e) ==
    \/ status[e.tx] # "none"
    \/ rwin[e.tx] # NoWindow /\ rwin[e.tx][e.source] = e
    \/ win[e.tx][e.source] = e

Acknowledged == {log[k] : k \in acked} \cap claimed

\* An acknowledged event is not lost: its transaction has a row in
\* PostgreSQL, or the event is in the checkpoint in Redis, or the task of its
\* timeout holds it.
AckedIsDurable == \A e \in Acknowledged : Durable(e)

\* Nor is it lost when the process dies and is soon back, unless it died between
\* the removal of a deadline and the row its timeout writes: the checkpoint then
\* expires, the next process has the window in memory alone, and when that one
\* dies too the event is gone.
AckedSurvivesCrashes ==
    \A e \in Acknowledged :
        \/ Durable(e)
        \/ stranded[e.tx] = 1 /\ windows[e.tx] # NoWindow /\ windows[e.tx][e.source] = e
        \/ stranded[e.tx] > 1

\* The engine keeps the contract of ReconcilerContract: its claimed events are
\* the accepted ones, and each write to PostgreSQL is one the contract allows.
Contract == INSTANCE ReconcilerContract WITH accepted <- claimed

KeepsContract == Contract!Spec

-----------------------------------------------------------------------------
(* The inductive invariant: what a process knows between two calls.        *)

\* Past the claim the consumer handles an event it has claimed.
ConsumerHoldsEvent ==
    /\ pc[Consumer] \notin {"idle", "ack"} => cur \in 1..Len(log) /\ Entry \in Events
    /\ pc[Consumer] = "ack" => cur \in 1..Len(log)
    /\ pc[Consumer] \notin {"idle", "ack", "claim"} => Entry \in claimed

\* No window, shared or saved, mixes transactions or sources.
StoresGenuine ==
    \A tx \in Txs :
        /\ windows[tx] # NoWindow => Genuine(windows[tx], tx, claimed)
        /\ rwin[tx] # NoWindow => Genuine(rwin[tx], tx, claimed)

\* A registered source has sent an accepted event other than the one that is
\* about to be registered.
Registering(e) == pc[Consumer] = "register" /\ e = Entry

SourcesBacked ==
    \A tx \in Txs : \A s \in sources[tx] :
        \E e \in EventsOf(tx, claimed) : e.source = s /\ ~Registering(e)

\* Nor does the copy a process works on.
Reporting == {"upsert", "details", "record", "create", "escalate"}

Holding == {"deadline", "store", "save", "restore", "resave"} \cup Reporting

HoldsGenuine(p) == pc[p] \in Holding => Genuine(win[p], Tx(p), claimed)

\* A decision in progress rests on the window its process holds.
DecisionJustified(p) ==
    /\ pc[p] = "upsert" =>
         /\ outcome[p] # "none"
         /\ Justified(outcome[p], win[p], Tx(p), claimed, ExpectedSources)
    /\ pc[p] \in Reporting =>
         \A i \in DOMAIN todo[p] :
             Evidence(todo[p][i], win[p], Tx(p), claimed, ExpectedSources)
    /\ pc[p] \in {"upsert", "details", "record"} /\ outcome[p] \in {"pending", "degraded"}
         => todo[p] # <<>>
    /\ pc[p] = "create" => todo[p] # <<>>
    /\ pc[p] \in {"upsert", "details"} => rows[p] \subseteq SourcesSeen(win[p])
    /\ pc[p] \in {"idle", "claim", "register"} => rows[p] = {}

\* What is written about a transaction is written after its row.
WriteOrdered(p) ==
    /\ pc[p] \in Reporting \ {"upsert"} => status[Tx(p)] # "none"
    /\ pc[p] = "escalate" => iid[p] \in 1..Len(incidents)

Sound(p) == HoldsGenuine(p) /\ DecisionJustified(p) /\ WriteOrdered(p)

IInv ==
    /\ TypeOK
    /\ ConsumerHoldsEvent
    /\ StoresGenuine
    /\ SourcesBacked
    /\ \A p \in Procs : Sound(p)
    /\ VerdictJustified
    /\ IncidentJustified
    /\ RowsReferenceTransactions

-----------------------------------------------------------------------------
(* Properties of a transaction nobody is working on.                       *)

Tracked(tx) == tx \in deadlines \cup tscan \cup tpopped

\* Until the process dies, memory, checkpoint, source set and deadline of a
\* transaction at rest tell one story: the checkpoint is the window, an open
\* window has registered exactly its sources and is still due, and a closed one
\* registers none.
StoresAgree ==
    \A tx \in Txs : Quiet(tx) /\ crashes = 0 =>
        /\ rwin[tx] = windows[tx]
        /\ windows[tx] = NoWindow => sources[tx] = {}
        /\ windows[tx] # NoWindow => sources[tx] = SourcesSeen(windows[tx]) /\ Tracked(tx)

Reported(tx, kinds) ==
    \E i \in scheduled : incidents[i].tx = tx /\ incidents[i].kind \in kinds

\* Until then the tables of a transaction at rest explain its status: matched
\* means all three rows match, mismatch that a row has a reason and an incident
\* due for escalation names it, degraded that a missing source is reported,
\* pending that a duplicate is reported while the window is open.
StatusExplained ==
    \A tx \in Txs : Quiet(tx) /\ crashes = 0 =>
        /\ status[tx] = "matched" =>
             /\ DOMAIN details[tx] = Source
             /\ \A s \in Source : details[tx][s].is_matched /\ details[tx][s].reason = "none"
        /\ status[tx] = "mismatch" =>
             /\ \E s \in DOMAIN details[tx] : details[tx][s].reason # "none"
             /\ Reported(tx, {"currency_mismatch", "amount_mismatch", "fee_mismatch"})
        /\ status[tx] = "degraded" => Reported(tx, {"missing_source"})
        /\ status[tx] = "pending" => Reported(tx, {"duplicate"}) /\ windows[tx] # NoWindow

\* What the speedometer of the gateway shows adds up once nobody works: every
\* accepted event was counted once, and each verdict once, at the price of one
\* event per source.  A retry, a late event and a degraded transaction count
\* for no verdict.  (The count of events expires an hour after the last one;
\* no behaviour here is that long.)
CountersAgree ==
    (\A p \in Procs : pc[p] = "idle") /\ faults = 0 /\ crashes = 0 =>
        /\ counts.events = Cardinality(claimed)
        /\ Cardinality({tx \in Txs : status[tx] \in {"matched", "mismatch"}})
              <= counts.success + counts.failed
        /\ ExpectedSources * (counts.success + counts.failed) <= counts.events

\* README.md: the platform identifies duplicate transactions.  A second event
\* of a source that was handled to the end has been reported as a duplicate.
DuplicateReported ==
    \A k \in acked : \A j \in 1..(k - 1) :
        /\ {log[j], log[k]} \subseteq claimed
        /\ log[j].id # log[k].id
        /\ log[j].tx = log[k].tx
        /\ log[j].source = log[k].source
        => \E i \in DOMAIN incidents :
              incidents[i].tx = log[k].tx /\ incidents[i].kind = "duplicate"

\* README.md: idempotent processing.  One finding about one window is one
\* incident, however often the window is worked on.
IncidentsUnique ==
    \A i, j \in DOMAIN incidents : incidents[i] = incidents[j] => i = j

-----------------------------------------------------------------------------
(* Liveness.                                                               *)

Delivered(e) == {k \in 1..last : log[k] = e}

\* Every entry delivered to the consumer is acknowledged in the end.
EveryEntryAcked ==
    \A e \in Events \cup {Malformed} : (Delivered(e) # {}) ~> (Delivered(e) \subseteq acked)

\* stream.rs: a message whose handling failed will be retried.  An event the
\* consumer starts to handle is acknowledged in the end.
StartedIsAcked ==
    \A e \in Events :
        (pc[Consumer] # "idle" /\ Entry = e) ~> \E k \in acked : log[k] = e

Seen(tx) == EventsOf(tx, claimed) # {}

\* Every transaction with an accepted event is decided, by its last event or
\* by its timeout, and does not fall back to pending, if the process lives.
JudgedForGood ==
    \A tx \in Txs : Seen(tx) ~> (crashes > 0 \/ [](status[tx] \in Final))

Repeated(tx) == \E i \in DOMAIN incidents : incidents[i].tx = tx /\ incidents[i].kind = "duplicate"

\* Nor does it when the timeout runs into the handling of an event, unless a
\* source has sent a second event: that alone writes pending.
JudgedDespiteRaces ==
    \A tx \in Txs : Seen(tx) ~> [](status[tx] \in Final \/ Repeated(tx))

\* No window stays open for ever, if the process lives.
EveryWindowCloses ==
    \A tx \in Txs : (windows[tx] # NoWindow) ~> (crashes > 0 \/ windows[tx] = NoWindow)

=============================================================================
