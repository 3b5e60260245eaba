# CodeStorm in TLA+

CodeStorm reconciles payments: three systems (merchant, gateway, bank) each
report an event about a transaction, the *ingestor* queues the events, and the
*matcher* decides per transaction whether the three agree, writes the verdict
to PostgreSQL and raises incidents. Operators follow it through an API gateway
and a dashboard. This directory models the parts of it that keep state,
model-checks them on small instances with TLC and proves the central results
for every instance with TLAPS.

## 1. The system

| Component | State it keeps | Operations | Talks to |
|---|---|---|---|
| ingestor (`services/ingestor`, Go) | `idempotency:<key>` in Redis, the `events` table | `POST /events/:source` (validate, SETNX, INSERT, XADD, SET) | clients by HTTP; the stream `transactions:raw` |
| stream consumer (`matcher/src/stream.rs`) | position of the consumer group, unacknowledged entries | XREADGROUP, `handle_event`, XACK | stream, engine |
| matching engine (`matcher/src/matcher.rs`) | open windows (DashMap) | `handle_event`, `finalize_window`, `handle_timeout`, `cleanup_window`, `restore` | both stores, publisher |
| rules (`matcher/src/model.rs`) | none (pure) | `is_complete`, `check_invariants`, `build_details` | called by the engine |
| stores (`matcher/src/store.rs`) | Redis: dedup keys, source sets, window checkpoints, two schedules, counters; PostgreSQL: transactions, reconciliation_details, incidents | one method per query | Redis, PostgreSQL |
| timer (`matcher/src/timer.rs`) | the schedules in Redis | every 100 ms: expired windows, expired escalations; up to 50 tasks each | engine |
| startup (`matcher/src/main.rs`) | - | migrations, group, restore, the two loops, health probes | all of the above |
| publisher (`matcher/src/publisher.rs`) | - | PUBLISH on `reconciliation.events` | gateway's sockets |
| API gateway (`api-gateway`, Go) | the incidents' status | queries, acknowledge, resolve, WebSocket | PostgreSQL, Redis |
| dashboard (`frontend/src/App.jsx`) | lists and the selected incident in memory | fetch on mount and after an action, refetch on WebSocket messages, poll a badge, acknowledge, resolve | API gateway |
| scenario and emulators (`services/scenario`, `services/emulator-*`) | none | publish a scenario; each emulator sends it, late, twice, wrong or not at all | Redis pub/sub, ingestor |
| `api` | - | an earlier, incomplete copy of the gateway | - |

What is hard about it:

* **Two tasks, one window.** The consumer works on a clone of a window across
  awaits while a timeout task may remove and judge the window meanwhile.
* **Four stores, no transaction.** A window lives in memory, in a checkpoint,
  in a schedule and in a source set; a verdict is one row, then up to three
  rows, then incidents, then clean-up. Any call between two of these may fail,
  or the process may die there.
* **Deduplication at three places**: the idempotency key (per client key), the
  dedup key (per event id), the source set (per transaction).
* **A screen fed by two channels.** Messages say that something changed, fetches
  bring what; fetches overlap, and a socket that is down loses messages.
* **Time**: deadlines (2 s), escalations (10 s), key TTLs (30 s for
  checkpoints, 60 s for source sets, 10 min for dedup keys, 24 h for
  idempotency keys) pass while calls are under way.

What makes each part correct: the ingestor accepts only what it has queued and
queues an event once; the engine decides every transaction, only on accepted
events, and never loses an acknowledged one; the rules find exactly the books
that do not balance and their two outputs agree; an incident is escalated
unless an operator was there first, and told only once it is in the table; what
was accepted by a 202 is handled once; a dashboard ends up showing what the
tables say.

## 2. The modules

| Module | Models | Role |
|---|---|---|
| `Reconciliation` | `model.rs`, the enums of the schema | pure operators, no RECURSIVE; also what it means for a window to be `Genuine`, a status to be `Justified` and an incident to have `Evidence` |
| `PartialTransaction` | a window filled in any order | every input of the rules is a reachable state |
| `MatchingEngine` | `stream.rs`, `matcher.rs`, `store.rs`, `timer.rs`, restart of `main.rs` | one action per await; failing calls, crashes and TTLs |
| `ReconcilerContract` | what a reader of the tables may rely on | abstract specification; `MatchingEngine` implements it |
| `UndisturbedEngine` | `MatchingEngine` while no call fails | `SerialSpec` (section 3) and what holds between two calls of undisturbed and of serial runs |
| `MCMatchingEngine` | - | instances, and the fairness of `SerialSpec` |
| `Ingestor`, `MCIngestor` | `handler.go` | one action per store call of `handleEvent`; instances |
| `Pipeline`, `MCPipeline` | `Ingestor` composed with the position of the consumer group and the claim of `handle_event` | from a client's post to the matcher; a crash of either side |
| `IncidentBoard` | the incidents table and the messages about it | abstract specification; `IncidentLifecycle` implements it, `Dashboard` instantiates it as its surroundings |
| `IncidentLifecycle` | `persist_incident`, `process_expired_escalations`, acknowledge and resolve of the gateway | one action per call |
| `Dashboard`, `MCDashboard` | `App.jsx`, `ws.go`, the queries it sends, the messages about transactions | requests, answers and messages under way; instances |
| `Emulators`, `MCEmulators` | `scenario/main.go`, the three `emulator-*/main.go` | the events the ingestor gets, judged by `Reconciliation`; an instance |
| `...Proofs` of `PartialTransaction`, `MatchingEngine`, `UndisturbedEngine`, `Ingestor`, `Pipeline`, `IncidentLifecycle`, `Dashboard`, `Emulators` | - | theorems |

`PROJECT.json` maps each definition to its lines. A few correspondences are
worth knowing before reading the modules:

* **A process is a task.** `MatchingEngine` has one consumer and, per
  transaction, the `handle_timeout` task of that transaction (the process has
  its name). `pc[p]` is the call it makes next: "store" is the `windows.insert`
  after `add_deadline`, "save" the `save_window` that follows, and so on. `win`,
  `outcome`, `rows`, `todo` and `iid` are its locals, and are empty when its
  handler is over.
* **A failing call.** `?` ends the handler: `ProcFails` ends the task's work,
  and the consumer goes on with its next entry without an XACK. That a failed
  call may have been applied is the same failure one call later. In `Ingestor`,
  where a failure is handled rather than propagated, each action has both
  outcomes.
* **A crash** clears memory and locals; Redis and PostgreSQL stay.
  `CrashAndRestart(gone, forgotten, unread)` includes the restart (`restore`).
  A long outage may have expired checkpoints (`gone`) and source sets
  (`forgotten`); a checkpoint whose GET fails is left out of memory without a
  word (`unread`), and counts as a failing call.
* **Keys that expire in a live process.** `window:<tx>` lives 30 s from its last
  SET and `sources:<tx>` 60 s from its last event. Both are long against the
  deadline of 2 s, so `ExpireCheckpoint` and `ExpireSources` wait until the
  deadline was popped and nobody works on the transaction; they assume that the
  calls of a handler, and the queue for a task, take less than 28 s. This
  matters after a restart: a window restored without a deadline stays in memory
  while its checkpoint expires. `stranded` is the history of that: how often
  the process has died since it first took the timeout of a transaction with it,
  between the ZREM of the deadline and the timeout's first write
  (`TimeoutsInWork`). No guard reads it.
* **A lost answer of XREADGROUP.** The group has moved on, the consumer logs the
  error and reads on: `XReadLost` (and `ReadLost` of `Pipeline`) skip the batch.
* **Time** is a choice: any deadline in the schedule may be due at any scan. A
  scan reads the due members (ZRANGEBYSCORE) and then removes them one at a
  time; who removes a member owns it.
* **Ghosts.** `claimed` records the events whose dedup key was set, so that
  properties can speak of accepted events; an incident carries the `window` it
  was found in (the code writes that into its description).
* **Amounts** are integers `0..I64Max`; subtraction wraps as `i64` does in the
  release build.
* **Counters.** `counts` holds the three that must add up: events, successful
  and failed matches. Latencies and last-seen times are left out.
* **Requests** of `Ingestor` stand for the UUID each of them draws, so a 202 is
  the request whose id it quotes. A retry is another request with the same
  event and key.
* **Incidents** of `IncidentLifecycle` are numbered by the table; the timer's
  escalation half of the tick is there, the window half in `MatchingEngine`:
  they run one after the other and touch different keys.
* **An entry of `Pipeline`** is read once: the group's position (`read`) moves
  on whether the claim succeeds, fails or is cut by a crash, as XREADGROUP with
  `>` does; a batch may pass without being seen at all (`LoseBatch`). `handled` and `lost` are ghosts: entries the handler went on with,
  and those a failure or a crash took.
* **A fee** of `Emulators` is `int64(float64(amount) * pct / 100)`. Rates are
  counted in 1/`RateUnit` of a percent, so that 0.5 and 0.2 are 5 and 2 with
  `RateUnit` 10. A float64 is a whole multiple of a power of two (0.5 and 0.2 of
  1/2^55), so each rate from 0 to 100 percent satisfies the assumption for some
  `RateUnit`. The product and the quotient are rounded, which may carry a
  fraction up to the next whole number: `Shares` is the set of both outcomes.
* **A fetch of `Dashboard`** has three moments: it is sent (`asked`), the gateway
  reads the tables for it (`answers`, in the order of reading) and it is shown
  (`Show`, any of them next). `fetchAll` waits for all its parts, each of which
  may fail alone (`Promise.allSettled`). A failing call takes its parts from the
  answer.
* **Excuses.** `excused` records, as a ghost, for which part of the screen
  something happened that the code does not make up for: a message lost (socket
  closed, PUBLISH failed), a query failed, an answer that overtook another, an
  incident handled elsewhere. The properties say that nothing *else* leaves the
  screen behind.
* **A transaction of `Dashboard`** is "mismatch" for every status that is not
  "matched": none of these is published.

## 3. The runs

Violations are listed in section 6. Nothing is checked for deadlock: in every
instance the input is finite and the system may rest.

| Run | Question | Instance |
|---|---|---|
| `window_verdict` | Do verdict, rows and incidents agree with the books, for every window? | amounts and fees `0..3`, two currencies: every comparison can be equal, above and below |
| `engine_races` | Consumer and timeouts interleaved at every await: is every write one the contract allows, is every acknowledged event durable, is every entry acknowledged and every transaction decided for good? | `FairSpec`, two transactions, one task at a time; streams with all sources right, all wrong, a duplicate, a retry with a malformed entry, and two transactions mixed |
| `engine_faults` | The same with one failing call and one crash anywhere (lost answers and unreadable checkpoints included): are statuses, incidents and foreign keys still sound? Also checks the inductive invariant of section 5 | one transaction; `LongOutage`: keys may expire during the outage, too |
| `engine_serial` | Does a transaction at rest look the same in memory, in Redis and in the tables, do the counters add up, and is every window closed? After two crashes: is an acknowledged event still there, unless its timeout died with the first? | `SerialFairSpec`; duplicates before and after the verdict; crashes on the streams with one event per source |
| `ingest_faults` | Does a 202 quote a queued message and come true, has every message its row, is an event queued once while nothing fails and handled once in any case, is none skipped, and does a failed request free its key? | `Pipeline`: three requests with one event and key, two with another of which one is invalid; any two of: PostgreSQL failures, Redis failures, a crash of either process, an expired key, a lapsed claim; batches of two |
| `incident_lifecycle` | Are handled incidents left alone, do schedule, table and messages agree, is an open incident escalated, is every step one of `IncidentBoard`? | two incidents, one task at a time, two failures, one crash |
| `dashboard` | Does the screen show what the tables say once nothing is on its way, does it get there, do the buttons come back? | two incidents on a page of one, or one transaction; two requests at a time; any two of: a change, a progress message, an action elsewhere, a failure, a closed socket, on an open page |
| `emulators` | Do emulators and matcher share one notion of balanced books, and is a wrong report found? | two transactions of 0 or 500 at the deployed rates of 0.5 % and 0.2 % (fees of 2.5, rounded down or up, and of 1), two pieces of noise; of the wrong amounts those next to the right one and the outermost (`TakesNearOrFar`) |

*Why the bounds suffice.* Windows of different transactions share only the
batch, the task limit and the id space of incidents, so one transaction shows
the races and two show the sharing. Every handler is a straight line of calls:
one failure and one crash put it at every prefix, and the second crash of
`engine_serial` is one that hits a restored window, with its checkpoint expired
or not. Batches of two, with up to
four entries, give a full batch, a partial one and an entry left over. In
`Emulators` two pieces of noise are enough for a loss with a repetition and for
one wrong field beside another; each source's noise is independent. In
`Ingestor` three requests are the least with which one holds a key, one slips
through the gap between SETNX and GET, and one more finds the key taken. In
`incident_lifecycle` the second incident waits for the task of the first. In
`dashboard` a page of one makes the order of severity and age decide what is
listed, two requests overtake each other, and incidents and transactions share
nothing but the connections, so that a behaviour has the one or the other.

*The serial case.* An event is handled in milliseconds and a deadline is two
seconds away, so a timeout normally does not fall into the handling of an event
of the same transaction. What is only true in that case (`StoresAgree`,
`StatusExplained`, `CountersAgree`, `EveryWindowCloses`) is checked under
`SerialSpec` of `UndisturbedEngine`; what must hold regardless is checked under
`Spec`. Section 7 says what the overlap does. `SerialSpec` disables that overlap
and, besides it, one thing: a crash while the stream is not `Orderly`, that is,
holds two events of one id or two of one source about one transaction. After
such a crash a second event may overwrite the first in a restored window
(section 7), which no promise excludes.

*Fairness.* Weak fairness of the consumer and of each timeout task: tokio polls
tasks that can go on, and a call returns. Weak fairness of popping and
spawning: the tick goes on to its end. Strong fairness of a scan that finds a
given deadline: the timer rescans every 100 ms as long as the process lives, and
a deadline that is due stays due, but a scan that misses it may run in between.
In `incident_lifecycle` the same for escalations; operators are not fair. In
`ingest_faults` weak fairness of the claim: the consumer's loop reads on for
ever; no client has to post or retry. In `dashboard` weak fairness of the page
(it is opened, its hook reconnects, its handlers run), of the gateway (a request
is read and answered) and of the matcher's publishing of what it wrote; nobody
has to click and nothing has to happen to a transaction.
Nothing is assumed of clients, of failures or of crashes. The liveness
properties exclude failures, since a failed call really may leave a window
without a deadline (section 7).

Each property of a passing run comes with a mutant: a change of one mapped
definition such as a bug could make it (a forgotten guard, a dropped ZADD, an
error that is only logged), defined beside the original and marked "Mutant",
under which TLC finds the property violated.

## 4. What the properties say

* `MatchedIffBooksBalance`, `RowsExplainVerdict`, `RowsNeverRecant`: three
  functions of `model.rs` with their own comparisons agree with each other and
  with the books, also while the window is still filling.
* `VerdictJustified`, `IncidentJustified`: a status or an incident can be
  traced to accepted events of that transaction, however tasks interleave.
* `RowsReferenceTransactions`: foreign keys never reject a write.
* `AckedIsDurable`: no XACK before its event is safe. `AckedSurvivesCrashes` is
  what is left of it when the process dies and is soon back: an event is lost
  only by two crashes, the first of which took the timeout of its transaction
  between the ZREM and its first write.
* `KeepsContract`: refinement; each step of the engine is a step of
  `ReconcilerContract` or a stutter.
* `StoresAgree`, `StatusExplained`: a transaction nobody works on.
* `JudgedForGood`, `EveryWindowCloses`, `EveryEntryAcked`: progress.
  `JudgedDespiteRaces` is what is left of the first when a timeout runs into the
  handling of an event. `StartedIsAcked` is the part of the third that the log
  line of `stream.rs` promises (section 6).
* `CountersAgree`: every accepted event is counted once, every verdict once.
* `AcceptedIsQueued`, `QueuedIsStored`, `QueuedOnce`, `FailureFreesKey`: the
  promises of the ingestor.
* `HandledOnce`, `ReadIsHandled`, `PromiseKept`: two keys that know nothing of
  each other (the client's at the ingestor, the producer's at the matcher) make
  at-least-once queueing an exactly-once start, as far as nothing fails in the
  matcher.
* `StagesAgree`, `HandledIsLeftAlone`, `OpenIsEscalated`: escalation.
  `KeepsBoard`: refinement; each step is one `IncidentBoard` allows.
* `ListIsCurrent`, `MatchesAreShown`, `ScreenCatchesUp`, `ButtonsComeBack`: the
  screen. They rest on the order in the matcher (row first, message second) and
  on every message leading to a fetch.
* `CopiesAgree`, `HonestBooksMatch`, `OneLieIsFound`: emulators and rules, two
  programs in two languages, agree on what a balanced transaction is.

## 5. The proofs

Checked by `tlapm` for all values of the constants that satisfy the named
assumptions (`NoEventAssumption`, `I64MaxAssumption`, `EngineAssumption`,
`IngestorAssumption`, `PipelineAssumption`, `LifecycleAssumption`,
`DashboardAssumption`, `EmulatorsAssumption`): any number of transactions,
entries, requests, incidents, tasks, connections, failures and crashes.

`PartialTransactionProofs`: `WindowTyped`, `VerdictExact`,
`RowsAndIncidentsAgree`, `RowsStand`. The type invariant is inductive (an event
is filed under its own source), and the other three follow from it. That the
subtraction `amount - fee` does not wrap is a lemma: both are non-negative.

`MatchingEngineProofs`: `EngineInvariant` proves `Spec => []IInv`;
`EngineTyped`, `EngineVerdicts`, `EngineIncidents`, `EngineRows` and
`EngineKeepsContract` follow from it. `VerdictJustified` alone is not
inductive: a status is written from what a task decided several calls earlier,
on a window it copied earlier still. `IInv` therefore adds, along the way of an
event:

1. `ConsumerHoldsEvent`: past the claim, the consumer's event is an accepted one;
2. `StoresGenuine`: a window in memory or in a checkpoint holds accepted events
   of its transaction, each in its source's place;
3. `SourcesBacked`: a registered source has sent an accepted event *other than
   the one being registered*, which is why a "duplicate" is never a retry;
4. `HoldsGenuine(p)`: so does the copy a process works on;
5. `DecisionJustified(p)`: the status and the incidents it is about to write
   follow from that copy;
6. `WriteOrdered(p)`: rows and incidents come after the transaction's row.

Accepted events only grow and `Genuine`, `Justified` and `Evidence` are
monotonic in them (lemmas), which carries these facts over the steps of other
processes. There is one lemma per action, with one step per conjunct the action
can disturb. For the refinement, each action maps to one contract action (a
claim to `Accept`, an upsert to `Judge`, a row to `Report`, an incident to
`Raise`, ZADD to `Schedule`) and all others to a stutter.

`UndisturbedEngineProofs` is about runs in which no call fails. `IInv` says that
what is written is true; here the question is whether anything is *lost*, which
is false as soon as a call fails (section 7). It is answered by six invariants,
each inductive together with `IInv` and, in serial runs, with those before it.

* `RaceInv`, of every behaviour, gives `EngineKeepsEvents` and
  `EngineAckedDurable`: an accepted event is in the consumer's hand, in window
  *and* checkpoint *and* the copy that will replace them (`StoresHold`), with
  the timeout's task that took the window (`TaskHolds`), or judged. The last two
  are what makes it true when a timeout takes a window away under an event that
  is just being added: `OpenIsDue` sees to it that there is a status or a
  deadline left.
* `SerialInv` gives `SerialStages` and `EngineStoresAgree`: without the overlap a
  transaction has at most one task, and its next call (`At`) tells what the four
  stores hold (`Stage`). Every step concerns one transaction or none, so that a
  lemma carries the others over and each action is looked at for its own only.
* `TablesInv` gives `SerialTables` and `EngineStatusExplained`: while a decision
  is written the rows that are missing are those in `rows`, the incidents those
  in `todo`. The hypothesis `ExpectedSources >= 3` is needed: with 2 a complete
  window may lack an event and is judged "mismatch" without a reason.
* `CountersInv` gives `SerialCounters` and `EngineCountersAgree`. It is an
  account: events claimed are counted or in work (`InWork`), decisions in the
  table are counted or in work (`ToRecord`), and `ExpectedSources` events are
  spent on each recorded decision, the others being held by windows (`Held`).
  A window pays when its decision is counted, not when it is removed
  (`Recorded`); a timeout or a late event can then only leave events unspent.
  The proof counts pairs of transaction and source, one set for all windows, so
  that a step adds or removes one pair or the pairs of one transaction.
* `CrashInv` gives `SerialCrashes` and `EngineSurvivesCrashes`, the first two
  with crashes. On an orderly stream an acknowledged event is judged, or in the
  window in memory *and* in the checkpoint a restart begins with (`Saved`), since
  `save_window` comes before XACK; and that checkpoint is kept by a deadline
  or by the task that popped it (`Scheduled`), without which it could expire in a
  live process. Only a transaction in `TimeoutsInWork` at a crash is without
  either (`stranded`): it is in memory until the next crash. That no claim finds
  its key taken, although keys survive, follows from the order of the stream
  (`ClaimedInOrder`). The hypothesis `~LongOutage` says that no checkpoint expires
  while a deadline for it is pending: outages, alone or together, are shorter
  than 30 s less the time since the checkpoint was written. It does not keep the
  checkpoint of a window without a deadline.
* `StandInv` gives `SerialStands` and, as an action property,
  `EngineDecisionsStand`: on an orderly stream a status in `Final` is never
  written over with another one, although the upsert would allow it. An event
  that was judged is in no window any more (`Unjudged` is what it leaves), a
  verdict has used the events of all three sources and a degraded transaction at
  least one (`NeverEmpty`), so that a second complete window cannot come about.
  Both the third source (with 2 expected the third event degrades a verdict) and
  the stream (a second event of a source writes "pending") are needed.

`IngestorProofs`: `IngestorInvariant`, and from it `IngestorTyped`,
`IngestorAccepts`, `IngestorStores` and `IngestorFreesKeys`. The invariant adds what a request
relies on between its calls: past the INSERT its row is there, past the XADD its
message is (`Progress`); a remembered answer belongs to its key and to a queued
message (`Remembered`); and a key at PROCESSING has *some* request at work that
will change it (`HeldByWorker`). That request need not be the one that set the
key: one that slipped through the gap after SETNX works with it as well. The
argument rests on the stream and the rows only growing.

`IngestorQueuesOnce` proves `QueuedOnce` by a second invariant, `OneHolder`, of
runs in which no call fails, no process dies and no key expires (`Undisturbed`).
There a key at PROCESSING has *one* holder: nobody is sent to `release`, SETNX
never lets a second request in, and a row or a message of an event is the
holder's or was left by one that finished, after which the key keeps its answer.
The theorem assumes that an event comes with one key (`OneKeyPerEvent`); a
producer that varies the header for one event gets one row (ON CONFLICT DO
NOTHING) and a message per key.

`PipelineProofs`: `PipelineInvariant`, `PipelineHandlesOnce`,
`PipelineSkipsNothing`. The steps of the ingestor keep its own invariant by
`IngestorProofs` and only append to the stream (lemma), so what was read stays
what it was. The invariant adds `KeysExplained`: a dedup key stands for an entry
that was read and, until one lapses, every handled event has its key. That a key
stands for *this* event needs the assumption that event ids are unique.

`IncidentLifecycleProofs`: `LifecycleInvariant`, `LifecycleTyped`,
`LifecycleStages`, `LifecycleRespectsOperators`, `LifecycleKeepsBoard`. `StagesAgree` says that an escalated incident is
past schedule and task; it is inductive once an incident is known to be at one
stage at a time (`AtOneStage`), which holds since ZREM hands a member to one
tick only. For the refinement, `told` of the board collects the two channel variables; each action is one of the board or a stutter.

`DashboardProofs`: `DashboardInvariant`, `DashboardListCurrent`,
`DashboardMatchesShown`, `DashboardTyped`. `ListIsCurrent` speaks of the moment nothing is under
way; the invariant says what makes it true before: of the answers that are under
way, the *newest* one about a part is what the tables say now, or something
is coming that will start a fetch (`Coming`). The tables change only together
with something that is coming: the message of a change is untold until it is
published, and then in the socket, or excused. An answer shown last is the
newest, unless one overtook another, which is excused. For the type invariant
the page has to have its length: the ranks of n open incidents are n different
numbers below n (`RankTaken`), so each place of the page has its incident. That
is an argument by counting, and needs no induction.

`EmulatorsProofs`: `EmulatorsInvariant`, and from it `EmulatorsTyped`,
`EmulatorsCopiesAgree`, `EmulatorsHonestMatch`, `EmulatorsOneLie`. The invariant
says that a transaction waits at most once in a channel and before anything is
made of it (`WaitsOnce`), and that all an emulator holds or has delivered of it
is one report (`HoldsOne`, `Delivers`). The last two theorems are then
arithmetic on one window: a fee is at most its amount, however it is rounded, so
that no subtraction wraps and the bank's floor at zero is never reached. The rate
enters in no other way, which is why the theorems hold for every `RateUnit`, that
is for every float rate from 0 to 100 percent.

Each inductive invariant was first checked by TLC on the instance of its run,
those of `UndisturbedEngine` also with one to three expected sources.

Every safety property of the runs is proved, the two refinements included. Only model-checked is all liveness (`EveryEntryAcked`,
`JudgedForGood`, `JudgedDespiteRaces`, `EveryWindowCloses`, `PromiseKept`,
`OpenIsEscalated`, `ScreenCatchesUp`, `ButtonsComeBack`): the prover reasons
neither about fairness nor about ENABLED.

## 6. Where code and documentation disagree

| Run | Said | Done |
|---|---|---|
| `engine_retry` | "handle_event failed, message will be retried" (`stream.rs`) | nothing reads the pending entries: the consumer asks for `>` only and has a new random name in each process |
| `engine_duplicate` | "identifies ... duplicate transactions" (`README.md`) | after the verdict `cleanup_sources` has forgotten the sources: the second event opens a new window, which times out and turns the matched transaction degraded |
| `engine_idempotent` | "idempotent processing" (`README.md`) | a failure after the first incident leaves window and deadline, and the timeout inserts the incident again |
| `ingest_crash` | "request with same key is being processed" (`handler.go`) | a crash leaves the key at PROCESSING for 24 h |

## 7. Known limits of the code

Behaviour the models show that contradicts no document:

* Overlap of a timeout with the handling of an event: a duplicate reported
  meanwhile can put a judged transaction back to "pending" for good; a
  `save_window` after a clean-up leaves a checkpoint until its TTL; a verdict of
  "degraded" may rest on a window that was emptied.
* One failure: a ZREM that fails half-way through `pop_expired_deadlines` loses
  the deadlines removed so far; those windows stay open unless their remaining
  events arrive. A
  failure after the claim loses the event: a retry is taken for a known one. An
  XREADGROUP whose answer is lost loses its batch.
* A crash: a restored window has no deadline if the crash came between the ZREM
  and the timeout's first write. It waits in memory for its remaining events. 30 s
  after its last SET its checkpoint expires, and if the process dies again the
  acknowledged events are in neither PostgreSQL nor Redis (`AckedSurvivesCrashes`
  says that nothing less loses them). After 60 s it has no source set either; a
  second event of a source then overwrites the first. A checkpoint whose GET
  fails at the restart is not loaded. A crash between the pop and the UPDATE of an
  escalation loses the escalation.
* A matching row may carry a reason: `is_matched` compares the amount with one
  neighbour, `reason` also considers currency and fee.
* With `EXPECTED_SOURCES_COUNT` 2 a complete window lacks an event and is
  judged "mismatch" with no incident. Every deployment file sets 3.
* The bank's own fee is compared with nothing: a wrong one is never found. Two
  wrong reports of one transaction may cancel out (merchant and gateway agree on
  a wrong amount and the gateway's fee differs by as much).
* The emulators of merchant and gateway read their random numbers off the
  clock, so that successive draws are nearly equal: past the first test
  (missing) the smaller probabilities hardly ever apply.
* Ingestor: a request whose GET finds no key works without one, may delete or
  overwrite another's, and the event is then queued twice (the claim of the
  matcher removes the copy). A 202 after a retry quotes an internal id the
  `events` table does not hold, since the row keeps the first id. Without a
  header the key is the hash of the body, which lacks the source in the path.

* Pipeline: the matcher's dedup key holds ten minutes, the client's key 24 hours;
  a retry under a new key after that is handled again. The dedup key is the event
  id alone, the key of the `events` table event id and source.
* Dashboard: the page fetches nothing when its socket is back, and after a
  refused action nothing either, so it stays behind until the next message. An
  answer that was read earlier may be shown later. Verdicts other than matched
  are not published and reach the table with the next fetch of another cause; an
  operator's action is not published at all, and an acknowledged incident
  cannot be resolved from the page, which lists open ones only.
* The gateway notices that a client has left its WebSocket when it writes the next
  message; `SourceStatusChanged` has a handler in the page and no sender.
* Statistics: `GET /metrics/matcher-stats` of the gateway reads a key nothing
  writes, and `get_matcher_stats` is never called; the count of events expires an
  hour after the last event while the counts of matches stay.
* The consumer group is created at `$`: what is in the stream before the first
  start of the matcher is never read.

## 8. Not modelled

Metrics, health and detail queries of the API gateway, connection set-up,
latencies and last-seen times: they change no state another part reads. Of the
dashboard: the badge and the speedometer that are polled every second, the
chart and the source lamps. `config.rs` and `error.rs` hold no behaviour beyond
the constants above. `api` and `emulator-common`: unused copies. XREADGROUP by
several matcher processes: each deployment runs one. Two sources that post one
body without an idempotency header, and share its key (section 7).

## 9. Plan

Done, in this order: rules and windows; the engine, its contract and its
proofs; the ingestor; the life of an incident; the emulators; the board and the
dashboard; the pipeline.

All safety properties of the runs are proved, and of the liveness properties
of the engine the safety halves: a decision of a serial run on an orderly stream
stands (`EngineDecisionsStand`, for `JudgedForGood`), and a window that is open
at rest is still due (`EngineStoresAgree`, for `EveryWindowCloses`). What remains
are the safety halves of the others: that an open incident stays scheduled until
it is escalated (`OpenIsEscalated`), and that a promise to a client is kept by the
row or the message that backs it (`PromiseKept`).

## 10. Running

    tlc -workers 2 -config engine_races.cfg MCMatchingEngine
    tlapm MatchingEngineProofs.tla
    tlapm UndisturbedEngineProofs.tla
