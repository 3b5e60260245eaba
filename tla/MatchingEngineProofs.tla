------------------------- MODULE MatchingEngineProofs -------------------------
(***************************************************************************)
(* The matcher's safety for any number of transactions, events, streams,   *)
(* failures and crashes: the inductive invariant IInv of MatchingEngine,   *)
(* what it implies, and that the engine implements ReconcilerContract.     *)
(***************************************************************************)
EXTENDS MatchingEngine, TLAPS

-----------------------------------------------------------------------------
(* Facts about the operators of Reconciliation.                            *)

LEMMA EventFields ==
    ASSUME NEW e \in Events
    PROVE  /\ e.tx \in Txs
           /\ e.source \in Source
           /\ e # NoEvent
           /\ e # Malformed
  BY EngineAssumption

LEMMA EmptyWindowFacts ==
    /\ EmptyWindow \in Slots(Events)
    /\ SourcesSeen(EmptyWindow) = {}
    /\ \A tx, evs : Genuine(EmptyWindow, tx, evs)
  BY DEF EmptyWindow, Slots, SourcesSeen, Genuine

LEMMA WindowsAreNotNoWindow == \A w \in Slots(Events) : w # NoWindow
  BY EngineAssumption DEF Slots

LEMMA InsertEventTyped ==
    ASSUME NEW w \in Slots(Events), NEW e \in Events
    PROVE  InsertEvent(w, e) \in Slots(Events)
  BY EventFields DEF InsertEvent, Slots

LEMMA VerdictFacts ==
    ASSUME NEW w
    PROVE  /\ Verdict(w) \in {"matched", "mismatch"}
           /\ SourcesSeen(w) \subseteq Source
           /\ MismatchIncidents(w) \in Seq(IncidentKinds)
           /\ Verdict(w) \in Statuses
<1>1. MismatchIncidents(w) \in Seq(IncidentKinds)
  BY DEF MismatchIncidents, IncidentKinds
<1>. QED  BY <1>1 DEF Verdict, SourcesSeen, Statuses, Final

LEMMA RowTyped ==
    ASSUME NEW w, NEW s \in SourcesSeen(w)
    PROVE  BuildDetails(w)[s] \in Row
<1>1. RowMatches(w, s) \in BOOLEAN
  BY DEF RowMatches, BothSeen
<1>2. RowReason(w, s) \in RowReasons
  BY DEF RowReason, RowReasons
<1>. QED  BY <1>1, <1>2 DEF BuildDetails, Row

LEMMA PutRowTyped ==
    ASSUME NEW d \in RowSets, NEW s \in Source, NEW row \in Row
    PROVE  PutRow(d, s, row) \in RowSets
<1>1. PICK S \in SUBSET Source : d \in [S -> Row]
  BY DEF RowSets
<1>2. PutRow(d, s, row) \in [S \cup {s} -> Row]
  BY <1>1 DEF PutRow
<1>3. S \cup {s} \in SUBSET Source
  BY <1>1
<1>. QED  BY <1>2, <1>3 DEF RowSets

-----------------------------------------------------------------------------
(* What rests on accepted events still does when more are accepted.        *)

LEMMA GenuineTyped ==
    ASSUME NEW w, NEW tx, NEW A, A \subseteq Events, Genuine(w, tx, A)
    PROVE  w \in Slots(Events) /\ w \in Slots(EventsOf(tx, A))
  BY DEF Genuine, Slots, EventsOf

LEMMA GenuineGrows ==
    ASSUME NEW w, NEW tx, NEW A, NEW B, A \subseteq B, Genuine(w, tx, A)
    PROVE  Genuine(w, tx, B)
  BY DEF Genuine, Slots, EventsOf

LEMMA DoubleGrows ==
    ASSUME NEW w, NEW tx, NEW A, NEW B, A \subseteq B, HasDouble(w, tx, A)
    PROVE  HasDouble(w, tx, B)
  BY DEF HasDouble, EventsOf

LEMMA JustifiedGrows ==
    ASSUME NEW st, NEW w, NEW tx, NEW A, NEW B, NEW n, A \subseteq B,
           Justified(st, w, tx, A, n)
    PROVE  Justified(st, w, tx, B, n)
  BY GenuineGrows, DoubleGrows DEF Justified

LEMMA EvidenceGrows ==
    ASSUME NEW kind, NEW w, NEW tx, NEW A, NEW B, NEW n, A \subseteq B,
           Evidence(kind, w, tx, A, n)
    PROVE  Evidence(kind, w, tx, B, n)
  BY GenuineGrows, DoubleGrows DEF Evidence

-----------------------------------------------------------------------------
(* What a step leaves standing, one lemma per conjunct of the invariant.   *)

LEMMA TxTyped ==
    ASSUME IInv, NEW p \in Procs, pc[p] \notin {"idle", "ack"}
    PROVE  Tx(p) \in Txs
<1>1. CASE p = Consumer
  BY <1>1, EventFields DEF IInv, ConsumerHoldsEvent, Tx
<1>2. CASE p # Consumer
  BY <1>2 DEF Procs, Tx
<1>. QED  BY <1>1, <1>2

\* A process whose locals a step leaves alone still knows what it knew.
LEMMA SoundStands ==
    ASSUME IInv, NEW p \in Procs,
           claimed \subseteq claimed',
           pc'[p] = pc[p], win'[p] = win[p], outcome'[p] = outcome[p],
           rows'[p] = rows[p], todo'[p] = todo[p], iid'[p] = iid[p],
           Tx(p)' = Tx(p),
           \A tx \in Txs : status[tx] # "none" => status'[tx] # "none",
           Len(incidents) \in Nat, Len(incidents') \in Nat,
           Len(incidents) <= Len(incidents')
    PROVE  Sound(p)'
<1>. Sound(p)
  BY DEF IInv
<1>1. HoldsGenuine(p)'
  BY GenuineGrows DEF Sound, HoldsGenuine
<1>2. DecisionJustified(p)'
  BY JustifiedGrows, EvidenceGrows DEF Sound, DecisionJustified
<1>3. WriteOrdered(p)'
  <2>1. pc[p] \in Reporting \ {"upsert"} => Tx(p) \in Txs
    BY TxTyped DEF Reporting
  <2>. QED  BY <2>1 DEF Sound, WriteOrdered
<1>. QED  BY <1>1, <1>2, <1>3 DEF Sound

\* The tables stand when PostgreSQL is left alone.
LEMMA TablesStand ==
    ASSUME IInv, UNCHANGED <<status, details, incidents>>, claimed \subseteq claimed'
    PROVE  VerdictJustified' /\ IncidentJustified' /\ RowsReferenceTransactions'
<1>1. VerdictJustified'
  <2>. SUFFICES ASSUME NEW tx \in Txs, status'[tx] # "none"
                PROVE  \E w \in Slots(EventsOf(tx, claimed')) :
                          Justified(status'[tx], w, tx, claimed', ExpectedSources)
    BY DEF VerdictJustified
  <2>1. PICK w : Justified(status[tx], w, tx, claimed, ExpectedSources)
    BY DEF IInv, VerdictJustified
  <2>2. Justified(status[tx], w, tx, claimed', ExpectedSources)
    BY <2>1, JustifiedGrows
  <2>. QED  BY <2>2 DEF Justified, Genuine
<1>2. IncidentJustified'
  BY EvidenceGrows DEF IInv, IncidentJustified
<1>3. RowsReferenceTransactions'
  BY DEF IInv, RowsReferenceTransactions
<1>. QED  BY <1>1, <1>2, <1>3

\* The windows of memory and Redis stand when they are only dropped.
LEMMA StoresStand ==
    ASSUME IInv, claimed \subseteq claimed',
           \A tx \in Txs : windows'[tx] \in {windows[tx], NoWindow},
           \A tx \in Txs : rwin'[tx] \in {rwin[tx], NoWindow}
    PROVE  StoresGenuine'
  BY GenuineGrows DEF IInv, StoresGenuine

\* The registered sources stand when they are only forgotten.
LEMMA SourcesStand ==
    ASSUME IInv, claimed' = claimed,
           \A tx \in Txs : sources'[tx] \subseteq sources[tx],
           pc'[Consumer] = "register" => pc[Consumer] = "register" /\ Entry' = Entry
    PROVE  SourcesBacked'
  BY DEF IInv, SourcesBacked, Registering

LEMMA ConsumerStands ==
    ASSUME IInv, UNCHANGED <<log, cur>>, claimed \subseteq claimed',
           pc'[Consumer] = pc[Consumer]
    PROVE  ConsumerHoldsEvent'
  BY DEF IInv, ConsumerHoldsEvent, Entry

LEMMA ConsumerNotTx == Consumer \in Procs /\ \A tx \in Txs : tx \in Procs /\ tx # Consumer /\ Tx(tx) = tx
  BY EngineAssumption DEF Procs, Tx

Untouched(q) ==
    /\ pc'[q] = pc[q]
    /\ win'[q] = win[q]
    /\ outcome'[q] = outcome[q]
    /\ rows'[q] = rows[q]
    /\ todo'[q] = todo[q]
    /\ iid'[q] = iid[q]

\* A step of p leaves every other process with what it knew.
LEMMA OthersStand ==
    ASSUME IInv, TypeOK', NEW p \in Procs, claimed \subseteq claimed',
           p = Consumer \/ UNCHANGED <<log, cur>>,
           \A q \in Procs \ {p} : Untouched(q),
           \A tx \in Txs : status[tx] # "none" => status'[tx] # "none",
           Len(incidents) <= Len(incidents')
    PROVE  \A q \in Procs \ {p} : Sound(q)'
<1>. SUFFICES ASSUME NEW q \in Procs \ {p}
              PROVE  Sound(q)'
  OBVIOUS
<1>1. Tx(q)' = Tx(q)
  BY EngineAssumption DEF Procs, Tx, Entry
<1>2. Len(incidents) \in Nat /\ Len(incidents') \in Nat
  BY DEF IInv, TypeOK, PgTypeOK
<1>. QED  BY <1>1, <1>2, SoundStands DEF Untouched

\* A step of p that neither accepts an event nor writes to PostgreSQL.
LEMMA LocalStep ==
    ASSUME IInv, TypeOK', StoresGenuine', NEW p \in Procs, Sound(p)',
           UNCHANGED <<log, cur, claimed, status, details, incidents>>,
           \A q \in Procs \ {p} : Untouched(q),
           \A tx \in Txs : sources'[tx] \subseteq sources[tx],
           p = Consumer => \/ pc'[p] = "idle"
                           \/ pc[p] \notin {"idle", "ack", "claim"} /\ pc'[p] # "register"
                           \/ pc'[p] = pc[p]
    PROVE  IInv'
<1>1. ConsumerHoldsEvent'
  BY ConsumerNotTx DEF IInv, ConsumerHoldsEvent, Entry, Untouched
<1>2. SourcesBacked'
  BY SourcesStand, ConsumerNotTx DEF Entry, Untouched
<1>3. \A q \in Procs \ {p} : Sound(q)'
  BY OthersStand DEF IInv, TypeOK, PgTypeOK
<1>4. VerdictJustified' /\ IncidentJustified' /\ RowsReferenceTransactions'
  BY TablesStand
<1>. QED  BY <1>1, <1>2, <1>3, <1>4 DEF IInv

\* A step that touches no process at all.
LEMMA StoreStep ==
    ASSUME IInv, TypeOK',
           UNCHANGED <<log, cur, claimed, procVars, windows, rwin, pgVars>>,
           \A tx \in Txs : sources'[tx] \subseteq sources[tx]
    PROVE  IInv'
<1>1. Untouched(Consumer) /\ \A q \in Procs : Untouched(q)
  BY DEF procVars, Untouched
<1>2. Tx(Consumer)' = Tx(Consumer) /\ Len(incidents) \in Nat /\ Len(incidents') = Len(incidents)
  BY DEF Tx, Entry, IInv, TypeOK, PgTypeOK, pgVars
<1>3. Sound(Consumer)'
  BY <1>1, <1>2, SoundStands, ConsumerNotTx DEF Untouched, pgVars
<1>4. StoresGenuine'
  BY StoresStand
<1>. QED  BY <1>1, <1>3, <1>4, LocalStep, ConsumerNotTx DEF Untouched, pgVars

-----------------------------------------------------------------------------
(* The consumer's loop.                                                    *)

LEMMA XReadStep == ASSUME IInv, XRead PROVE IInv'
<1>1. TypeOK'
  BY EngineAssumption DEF IInv, XRead, TypeOK, StreamTypeOK, ProcTypeOK, RedisTypeOK, PgTypeOK,
     procVars, redisVars, timerVars, pgVars, budgetVars
<1>. QED  BY <1>1, StoreStep DEF XRead, redisVars, pgVars

LEMMA XReadLostStep == ASSUME IInv, XReadLost PROVE IInv'
<1>1. /\ pc[Consumer] = "idle" /\ UNCHANGED <<log, acked, procVars, windows, redisVars, pgVars>>
      /\ UNCHANGED <<tscan, tpopped, crashes, stranded>>
      /\ last' \in 0..Len(log) /\ cur' = last' /\ cur' >= cur /\ faults' \in Nat
  BY EngineAssumption DEF XReadLost, Fault, IInv, TypeOK, StreamTypeOK, timerVars
<1>2. TypeOK'
  BY <1>1 DEF IInv, TypeOK, StreamTypeOK, ProcTypeOK, RedisTypeOK, PgTypeOK,
     procVars, redisVars, pgVars
<1>3. StoresGenuine'
  BY <1>1, StoresStand DEF redisVars
<1>4. \A q \in Procs : Untouched(q)
  BY <1>1 DEF procVars, Untouched
<1>5. \A q \in Procs \ {Consumer} : Sound(q)'
  BY <1>1, <1>2, <1>4, OthersStand, ConsumerNotTx DEF IInv, TypeOK, PgTypeOK, redisVars, pgVars
<1>6. Sound(Consumer)'
  BY <1>1, ConsumerNotTx DEF procVars, Sound, HoldsGenuine, DecisionJustified, WriteOrdered,
     Holding, Reporting, IInv
<1>7. ConsumerHoldsEvent' /\ SourcesBacked'
  BY <1>1, SourcesStand DEF procVars, redisVars, ConsumerHoldsEvent
<1>8. VerdictJustified' /\ IncidentJustified' /\ RowsReferenceTransactions'
  BY <1>1, TablesStand DEF redisVars, pgVars
<1>. QED  BY <1>2, <1>3, <1>5, <1>6, <1>7, <1>8 DEF IInv

LEMMA AckStep == ASSUME IInv, Ack PROVE IInv'
<1>1. TypeOK'
  BY EmptyWindowFacts, ConsumerNotTx
  DEF IInv, Ack, Return, TypeOK, StreamTypeOK, ProcTypeOK, RedisTypeOK, PgTypeOK,
     ConsumerHoldsEvent, Steps, Statuses, Final,
     procVars, redisVars, timerVars, pgVars, budgetVars
<1>2. StoresGenuine'
  BY StoresStand DEF Ack, redisVars
<1>3. Sound(Consumer)'
  BY ConsumerNotTx DEF Ack, Return, Sound, HoldsGenuine, DecisionJustified, WriteOrdered,
     Holding, Reporting, IInv, TypeOK, ProcTypeOK
<1>. QED  BY <1>1, <1>2, <1>3, LocalStep, ConsumerNotTx
     DEF Ack, Return, Untouched, redisVars, pgVars, IInv, TypeOK, ProcTypeOK

LEMMA NextEntryStep == ASSUME IInv, NextEntry PROVE IInv'
<1>1. /\ log[cur + 1] \in Events \cup {Malformed}
      /\ cur + 1 \in 1..last
      /\ cur + 1 \in 1..Len(log)
      /\ acked \subseteq 1..(cur + 1)
  BY EngineAssumption DEF IInv, TypeOK, StreamTypeOK, NextEntry
<1>2. FirstCall(log[cur + 1]) \in {"claim", "ack"}
  BY DEF FirstCall
<1>3. TypeOK'
  <2>1. StreamTypeOK'
    BY <1>1 DEF IInv, NextEntry, TypeOK, StreamTypeOK
  <2>2. ProcTypeOK'
    BY <1>2 DEF IInv, NextEntry, Goto, TypeOK, ProcTypeOK, Steps
  <2>. QED  BY <2>1, <2>2 DEF IInv, NextEntry, TypeOK, RedisTypeOK, PgTypeOK,
            redisVars, timerVars, pgVars, budgetVars
<1>4. pc'[Consumer] = FirstCall(log[cur + 1]) /\ rows'[Consumer] = {}
  BY ConsumerNotTx DEF IInv, TypeOK, ProcTypeOK, NextEntry, Goto, Sound, DecisionJustified
<1>5. ConsumerHoldsEvent'
  BY <1>1, <1>2, <1>4 DEF ConsumerHoldsEvent, NextEntry, Entry, FirstCall
<1>6. Sound(Consumer)'
  BY <1>2, <1>4 DEF Sound, HoldsGenuine, DecisionJustified, WriteOrdered, Holding, Reporting
<1>7. SourcesBacked'
  BY <1>2, <1>4, SourcesStand DEF NextEntry, redisVars
<1>8. \A q \in Procs \ {Consumer} : Sound(q)'
  BY <1>3, OthersStand, ConsumerNotTx DEF NextEntry, Goto, Untouched, IInv, TypeOK, PgTypeOK,
     ProcTypeOK, redisVars, pgVars
<1>9. StoresGenuine' /\ VerdictJustified' /\ IncidentJustified' /\ RowsReferenceTransactions'
  BY StoresStand, TablesStand DEF NextEntry, redisVars, pgVars
<1>. QED  BY <1>3, <1>5, <1>6, <1>7, <1>8, <1>9 DEF IInv

-----------------------------------------------------------------------------
(* handle_event.                                                           *)

LEMMA ClaimStep == ASSUME IInv, Claim PROVE IInv'
<1>1. Entry \in Events /\ cur \in 1..Len(log)
  BY DEF IInv, ConsumerHoldsEvent, Claim
<1>2. TypeOK'
  <2>1. dedup' = {e.id : e \in claimed'} /\ claimed' \subseteq Events
    BY <1>1 DEF Claim, IInv, TypeOK, RedisTypeOK
  <2>. QED  BY <2>1 DEF IInv, Claim, Goto, TypeOK, StreamTypeOK, ProcTypeOK, RedisTypeOK,
            PgTypeOK, Steps, streamVars, timerVars, pgVars, budgetVars
<1>3. claimed \subseteq claimed' /\ Entry' = Entry /\ pc'[Consumer] \in {"ack", "register"}
      /\ (pc'[Consumer] = "register" =>
            Entry \notin claimed /\ claimed' = claimed \cup {Entry})
      /\ rows'[Consumer] = {}
  <2>1. \A e \in claimed : e.id \in dedup
    BY DEF IInv, TypeOK, RedisTypeOK
  <2>. QED  BY <2>1, ConsumerNotTx DEF Claim, Goto, AlreadyClaimed, IInv, TypeOK, ProcTypeOK,
            Entry, streamVars, Sound, DecisionJustified
<1>4. ConsumerHoldsEvent'
  BY <1>1, <1>3 DEF ConsumerHoldsEvent, Claim, Entry, streamVars
<1>5. SourcesBacked'
  <2>. SUFFICES ASSUME NEW tx \in Txs, NEW s \in sources[tx]
                PROVE  \E e \in EventsOf(tx, claimed') : e.source = s /\ ~Registering(e)'
    BY DEF SourcesBacked, Claim
  <2>1. PICK e \in EventsOf(tx, claimed) : e.source = s
    BY DEF IInv, SourcesBacked
  <2>2. e \in EventsOf(tx, claimed') /\ e \in claimed
    BY <1>3 DEF EventsOf
  <2>3. ~(pc'[Consumer] = "register" /\ e = Entry')
    BY <1>3, <2>2
  <2>. QED  BY <2>1, <2>2, <2>3 DEF Registering
<1>6. Sound(Consumer)'
  BY <1>3 DEF Sound, HoldsGenuine, DecisionJustified, WriteOrdered, Holding, Reporting
<1>7. \A q \in Procs \ {Consumer} : Sound(q)'
  <2>1. \A q \in Procs \ {Consumer} : Untouched(q)
    BY DEF Claim, Goto, Untouched, IInv, TypeOK, ProcTypeOK
  <2>. QED  BY <1>2, <1>3, <2>1, OthersStand, ConsumerNotTx
            DEF Claim, IInv, TypeOK, PgTypeOK, pgVars
<1>8. StoresGenuine' /\ VerdictJustified' /\ IncidentJustified' /\ RowsReferenceTransactions'
  BY <1>3, StoresStand, TablesStand DEF Claim, pgVars
<1>. QED  BY <1>2, <1>4, <1>5, <1>6, <1>7, <1>8 DEF IInv

\* A window with the event of the consumer added is still genuine.
LEMMA InsertGenuine ==
    ASSUME NEW e \in Events, NEW A, A \subseteq Events, e \in A,
           NEW w, Genuine(w, e.tx, A)
    PROVE  /\ Genuine(InsertEvent(w, e), e.tx, A)
           /\ InsertEvent(w, e)[e.source] = e
           /\ e.source \in SourcesSeen(InsertEvent(w, e))
  BY EventFields DEF Genuine, InsertEvent, Slots, EventsOf, SourcesSeen

LEMMA RegisterStep == ASSUME IInv, Register PROVE IInv'
<1>. DEFINE W == InsertEvent(EmptyWindow, Entry)
<1>1. Entry \in Events /\ Entry \in claimed /\ claimed \subseteq Events
      /\ Entry.tx \in Txs /\ Entry.source \in Source
  BY EventFields DEF IInv, ConsumerHoldsEvent, Register, TypeOK, RedisTypeOK
<1>2. Genuine(W, Entry.tx, claimed) /\ W[Entry.source] = Entry
      /\ Entry.source \in SourcesSeen(W) /\ W \in Slots(Events)
  BY <1>1, InsertGenuine, InsertEventTyped, EmptyWindowFacts
<1>3. Tx(Consumer) = Entry.tx /\ Entry' = Entry /\ Tx(Consumer)' = Entry.tx /\ claimed' = claimed
  BY DEF Tx, Entry, Register, streamVars
<1>4. TypeOK'
  <2>1. ProcTypeOK'
    <3>1. <<"duplicate">> \in Seq(IncidentKinds) /\ "pending" \in Statuses
          /\ "open" \in Steps /\ "upsert" \in Steps
      BY DEF IncidentKinds, Statuses, Steps
    <3>. QED  BY <1>2, <3>1 DEF IInv, Register, Goto, TypeOK, ProcTypeOK
  <2>2. RedisTypeOK'
    BY <1>1 DEF IInv, Register, TypeOK, RedisTypeOK, timerVars, pgVars
  <2>. QED  BY <2>1, <2>2 DEF IInv, Register, TypeOK, StreamTypeOK, PgTypeOK,
            streamVars, pgVars, budgetVars
<1>5. pc'[Consumer] \in {"open", "upsert"} /\ UNCHANGED <<log, cur>>
  BY ConsumerNotTx DEF Register, Goto, IInv, TypeOK, ProcTypeOK, streamVars
<1>6. ConsumerHoldsEvent'
  BY <1>1, <1>3, <1>5 DEF IInv, ConsumerHoldsEvent, Register
<1>7. SourcesBacked'
  <2>. SUFFICES ASSUME NEW tx \in Txs, NEW s \in sources'[tx]
                PROVE  \E e \in EventsOf(tx, claimed) : e.source = s
    BY <1>3, <1>5 DEF SourcesBacked, Registering
  <2>1. CASE s \in sources[tx]
    BY <2>1 DEF IInv, SourcesBacked
  <2>2. CASE s \notin sources[tx]
    <3>1. tx = Entry.tx /\ s = Entry.source
      BY <2>2 DEF Register, IInv, TypeOK, RedisTypeOK
    <3>. QED  BY <3>1, <1>1 DEF EventsOf
  <2>. QED  BY <2>1, <2>2
<1>8. Sound(Consumer)'
  <2>1. CASE AlreadyRegistered
    <3>1. HasDouble(W, Entry.tx, claimed)
      <4>1. PICK e \in EventsOf(Entry.tx, claimed) : e.source = Entry.source /\ e # Entry
        BY <1>1, <2>1 DEF IInv, SourcesBacked, Registering, AlreadyRegistered, Register
      <4>. QED  BY <1>2, <4>1 DEF HasDouble
    <3>2. win'[Consumer] = W /\ outcome'[Consumer] = "pending"
          /\ todo'[Consumer] = <<"duplicate">> /\ pc'[Consumer] = "upsert" /\ rows' = rows
          /\ pc[Consumer] = "register"
      BY <2>1, ConsumerNotTx DEF Register, Goto, IInv, TypeOK, ProcTypeOK
    <3>3. rows'[Consumer] \subseteq SourcesSeen(W)
      BY <3>2, ConsumerNotTx DEF IInv, Sound, DecisionJustified
    <3>. QED  BY <1>2, <1>3, <3>1, <3>2, <3>3
         DEF Sound, HoldsGenuine, DecisionJustified, WriteOrdered, Justified, Evidence, Final
  <2>2. CASE ~AlreadyRegistered
    BY <2>2, ConsumerNotTx DEF Register, Goto, IInv, TypeOK, ProcTypeOK,
       Sound, HoldsGenuine, DecisionJustified, WriteOrdered, Holding, Reporting
  <2>. QED  BY <2>1, <2>2
<1>9. \A q \in Procs \ {Consumer} : Sound(q)'
  <2>1. \A q \in Procs \ {Consumer} : Untouched(q)
    BY DEF Register, Goto, Untouched, IInv, TypeOK, ProcTypeOK
  <2>. QED  BY <1>3, <1>4, <2>1, OthersStand, ConsumerNotTx
            DEF Register, IInv, TypeOK, PgTypeOK, pgVars
<1>10. StoresGenuine' /\ VerdictJustified' /\ IncidentJustified' /\ RowsReferenceTransactions'
  BY <1>3, StoresStand, TablesStand DEF Register, pgVars
<1>. QED  BY <1>4, <1>6, <1>7, <1>8, <1>9, <1>10 DEF IInv

LEMMA OpenWindowStep == ASSUME IInv, OpenWindow PROVE IInv'
<1>. DEFINE w == IF windows[Entry.tx] = NoWindow THEN EmptyWindow ELSE windows[Entry.tx]
            W == InsertEvent(w, Entry)
<1>1. Entry \in Events /\ Entry \in claimed /\ claimed \subseteq Events /\ Entry.tx \in Txs
  BY EventFields DEF IInv, ConsumerHoldsEvent, OpenWindow, TypeOK, RedisTypeOK
<1>2. Genuine(w, Entry.tx, claimed) /\ w \in Slots(Events)
  BY <1>1, EmptyWindowFacts, GenuineTyped DEF IInv, StoresGenuine
<1>3. Genuine(W, Entry.tx, claimed) /\ W \in Slots(Events)
  BY <1>1, <1>2, InsertGenuine, InsertEventTyped
<1>4. /\ windows' = [windows EXCEPT ![Entry.tx] = w]
      /\ win' = [win EXCEPT ![Consumer] = W]
      /\ \E step \in {"deadline", "store"} : pc' = [pc EXCEPT ![Consumer] = step]
      /\ UNCHANGED <<outcome, rows, todo, iid>>
      /\ UNCHANGED <<dedup, claimed, sources, rwin, deadlines, scheduled, counts, tscan, tpopped>>
      /\ UNCHANGED incidents
  BY DEF OpenWindow, Goto, redisVars, timerVars, pgVars
<1>. HIDE DEF w, W
<1>5. TypeOK'
  <2>1. ProcTypeOK'
    BY <1>3, <1>4 DEF IInv, TypeOK, ProcTypeOK, Steps
  <2>2. RedisTypeOK'
    BY <1>2, <1>4 DEF IInv, TypeOK, RedisTypeOK
  <2>. QED  BY <2>1, <2>2 DEF IInv, OpenWindow, TypeOK, StreamTypeOK, PgTypeOK,
            streamVars, pgVars, budgetVars
<1>6. StoresGenuine'
  BY <1>2, <1>4 DEF IInv, OpenWindow, StoresGenuine, redisVars, TypeOK, RedisTypeOK
<1>7. Sound(Consumer)'
  <2>1. win'[Consumer] = W /\ pc'[Consumer] \in {"deadline", "store"} /\ Tx(Consumer)' = Entry.tx
        /\ claimed' = claimed
    BY <1>4, ConsumerNotTx DEF IInv, TypeOK, ProcTypeOK, Tx, Entry, OpenWindow, streamVars, redisVars
  <2>. QED  BY <1>3, <2>1 DEF Sound, HoldsGenuine, DecisionJustified, WriteOrdered, Reporting
<1>8. \A q \in Procs \ {Consumer} : Untouched(q)
  BY <1>4 DEF OpenWindow, Untouched, IInv, TypeOK, ProcTypeOK
<1>9. pc[Consumer] = "open" /\ pc'[Consumer] \in {"deadline", "store"}
  BY <1>4, ConsumerNotTx DEF IInv, TypeOK, ProcTypeOK, OpenWindow
<1>. QED  BY <1>5, <1>6, <1>7, <1>8, <1>9, LocalStep, ConsumerNotTx
     DEF OpenWindow, streamVars, redisVars, pgVars

LEMMA AddDeadlineStep == ASSUME IInv, AddDeadline PROVE IInv'
<1>1. Entry.tx \in Txs
  BY EventFields DEF IInv, ConsumerHoldsEvent, AddDeadline
<1>2. pc' = [pc EXCEPT ![Consumer] = "store"] /\ pc'[Consumer] = "store"
  BY ConsumerNotTx DEF AddDeadline, Goto, IInv, TypeOK, ProcTypeOK
<1>3. TypeOK'
  <2>1. ProcTypeOK' /\ RedisTypeOK'
    BY <1>1, <1>2 DEF IInv, AddDeadline, TypeOK, ProcTypeOK, RedisTypeOK, Steps, timerVars, pgVars
  <2>. QED  BY <2>1 DEF IInv, AddDeadline, TypeOK, StreamTypeOK, PgTypeOK,
            streamVars, pgVars, budgetVars
<1>4. StoresGenuine'
  BY StoresStand DEF AddDeadline
<1>5. Sound(Consumer)'
  <2>1. HoldsGenuine(Consumer)'
    BY <1>2, ConsumerNotTx DEF IInv, Sound, HoldsGenuine, Holding, AddDeadline, Tx, Entry, streamVars
  <2>. QED  BY <1>2, <2>1 DEF Sound, DecisionJustified, WriteOrdered, Reporting
<1>6. \A q \in Procs \ {Consumer} : Untouched(q)
  BY <1>2 DEF AddDeadline, Untouched, IInv, TypeOK, ProcTypeOK
<1>. QED  BY <1>2, <1>3, <1>4, <1>5, <1>6, LocalStep, ConsumerNotTx
     DEF AddDeadline, streamVars, pgVars

LEMMA StoreWindowStep == ASSUME IInv, StoreWindow PROVE IInv'
<1>1. Entry.tx \in Txs /\ win[Consumer] \in Slots(Events)
      /\ Genuine(win[Consumer], Entry.tx, claimed)
  BY EventFields, ConsumerNotTx
  DEF IInv, ConsumerHoldsEvent, StoreWindow, TypeOK, ProcTypeOK, Sound, HoldsGenuine, Holding, Tx
<1>2. \E step \in {"save", "resave"} :
         pc' = [pc EXCEPT ![Consumer] = step] /\ pc'[Consumer] = step
  BY ConsumerNotTx DEF StoreWindow, Goto, IInv, TypeOK, ProcTypeOK
<1>3. TypeOK'
  <2>1. ProcTypeOK' /\ RedisTypeOK'
    BY <1>1, <1>2 DEF IInv, StoreWindow, TypeOK, ProcTypeOK, RedisTypeOK, Steps, redisVars,
       timerVars, pgVars
  <2>. QED  BY <2>1 DEF IInv, StoreWindow, TypeOK, StreamTypeOK, PgTypeOK,
            streamVars, pgVars, budgetVars
<1>4. StoresGenuine'
  BY <1>1 DEF StoreWindow, IInv, StoresGenuine, redisVars, TypeOK, RedisTypeOK
<1>5. Sound(Consumer)'
  <2>1. HoldsGenuine(Consumer)'
    BY <1>1 DEF HoldsGenuine, StoreWindow, Tx, Entry, streamVars, redisVars
  <2>. QED  BY <1>2, <2>1 DEF Sound, DecisionJustified, WriteOrdered, Reporting
<1>6. \A q \in Procs \ {Consumer} : Untouched(q)
  BY <1>2 DEF StoreWindow, Untouched, IInv, TypeOK, ProcTypeOK
<1>. QED  BY <1>2, <1>3, <1>4, <1>5, <1>6, LocalStep, ConsumerNotTx
     DEF StoreWindow, streamVars, redisVars, pgVars

LEMMA MismatchKinds ==
    ASSUME NEW w, NEW i \in DOMAIN MismatchIncidents(w)
    PROVE  MismatchIncidents(w)[i] \in {"currency_mismatch", "amount_mismatch", "fee_mismatch"}
  BY DEF MismatchIncidents

\* finalize_window decides soundly from a complete genuine window.
LEMMA FinalizeSound ==
    ASSUME TypeOK, NEW p \in Procs, NEW w \in Slots(Events), Finalize(p, w),
           Genuine(w, Tx(p), claimed), IsComplete(w, ExpectedSources),
           win'[p] = w, Tx(p)' = Tx(p), claimed' = claimed
    PROVE  /\ Sound(p)'
           /\ pc' \in [Procs -> Steps] /\ pc'[p] = "upsert"
           /\ outcome' \in [Procs -> Statuses]
           /\ rows' \in [Procs -> SUBSET Source]
           /\ todo' \in [Procs -> Seq(IncidentKinds)]
           /\ \A q \in Procs \ {p} : pc'[q] = pc[q] /\ outcome'[q] = outcome[q]
                                     /\ rows'[q] = rows[q] /\ todo'[q] = todo[q]
<1>1. /\ pc' = [pc EXCEPT ![p] = "upsert"] /\ "upsert" \in Steps
      /\ outcome' = [outcome EXCEPT ![p] = Verdict(w)]
      /\ rows' = [rows EXCEPT ![p] = SourcesSeen(w)]
      /\ todo' = [todo EXCEPT ![p] = MismatchIncidents(w)]
  BY DEF Finalize, Goto, Steps
<1>2. /\ pc \in [Procs -> Steps]
      /\ outcome \in [Procs -> Statuses]
      /\ rows \in [Procs -> SUBSET Source]
      /\ todo \in [Procs -> Seq(IncidentKinds)]
  BY DEF TypeOK, ProcTypeOK
<1>3. /\ pc' \in [Procs -> Steps] /\ pc'[p] = "upsert"
      /\ outcome' \in [Procs -> Statuses] /\ outcome'[p] = Verdict(w)
      /\ rows' \in [Procs -> SUBSET Source] /\ rows'[p] = SourcesSeen(w)
      /\ todo' \in [Procs -> Seq(IncidentKinds)] /\ todo'[p] = MismatchIncidents(w)
  BY <1>1, <1>2, VerdictFacts
<1>4. Justified(Verdict(w), w, Tx(p), claimed, ExpectedSources)
  BY VerdictFacts DEF Justified
<1>5. ASSUME NEW i \in DOMAIN MismatchIncidents(w)
      PROVE  Evidence(MismatchIncidents(w)[i], w, Tx(p), claimed, ExpectedSources)
  BY <1>5, MismatchKinds DEF Evidence, Raises
<1>6. Sound(p)'
  BY <1>3, <1>4, <1>5, VerdictFacts
  DEF Sound, HoldsGenuine, DecisionJustified, WriteOrdered, Reporting
<1>. QED  BY <1>1, <1>2, <1>3, <1>6

LEMMA SaveWindowStep == ASSUME IInv, SaveWindow PROVE IInv'
<1>1. Entry.tx \in Txs /\ win[Consumer] \in Slots(Events)
      /\ Genuine(win[Consumer], Entry.tx, claimed)
  BY EventFields, ConsumerNotTx
  DEF IInv, ConsumerHoldsEvent, SaveWindow, TypeOK, ProcTypeOK, Sound, HoldsGenuine, Holding, Tx
<1>2. /\ UNCHANGED <<log, last, cur, acked>> /\ UNCHANGED <<win, iid>>
      /\ UNCHANGED <<windows, dedup, claimed, sources, deadlines, scheduled, counts>>
      /\ UNCHANGED <<tscan, tpopped, status, details, incidents, faults, crashes, stranded>>
      /\ rwin' = [rwin EXCEPT ![Entry.tx] = win[Consumer]]
      /\ pc[Consumer] \in {"save", "resave"}
      /\ Tx(Consumer) = Entry.tx /\ Tx(Consumer)' = Entry.tx
  BY DEF SaveWindow, streamVars, timerVars, pgVars, budgetVars, Tx, Entry
<1>3. /\ pc' \in [Procs -> Steps] /\ pc'[Consumer] \in {"upsert", "restore", "tally"}
      /\ outcome' \in [Procs -> Statuses]
      /\ rows' \in [Procs -> SUBSET Source]
      /\ todo' \in [Procs -> Seq(IncidentKinds)]
      /\ \A q \in Procs \ {Consumer} : Untouched(q)
      /\ Sound(Consumer)'
  <2>1. CASE IsComplete(win[Consumer], ExpectedSources) /\ Finalize(Consumer, win[Consumer])
    BY <1>1, <1>2, <2>1, FinalizeSound, ConsumerNotTx DEF IInv, Untouched
  <2>2. CASE \E step \in {"restore", "tally"} :
               Goto(Consumer, step) /\ UNCHANGED <<outcome, rows, todo>>
    <3>1. pc' \in [Procs -> Steps] /\ pc'[Consumer] \in {"restore", "tally"}
          /\ \A q \in Procs \ {Consumer} : Untouched(q)
      BY <1>2, <2>2, ConsumerNotTx DEF Goto, IInv, TypeOK, ProcTypeOK, Steps, Untouched
    <3>2. Sound(Consumer)'
      BY <1>1, <1>2, <3>1 DEF Sound, HoldsGenuine, DecisionJustified, WriteOrdered, Reporting
    <3>. QED  BY <2>2, <3>1, <3>2 DEF IInv, TypeOK, ProcTypeOK
  <2>. QED  BY <2>1, <2>2 DEF SaveWindow
<1>4. TypeOK'
  <2>1. RedisTypeOK' /\ ProcTypeOK'
    BY <1>1, <1>2, <1>3 DEF IInv, TypeOK, ProcTypeOK, RedisTypeOK
  <2>. QED  BY <1>2, <2>1 DEF IInv, TypeOK, StreamTypeOK, PgTypeOK
<1>5. StoresGenuine'
  BY <1>1, <1>2 DEF IInv, StoresGenuine, TypeOK, RedisTypeOK
<1>. QED  BY <1>2, <1>3, <1>4, <1>5, LocalStep, ConsumerNotTx

LEMMA CountTyped ==
    ASSUME TypeOK, NEW field \in {"events", "success", "failed"}, Count(field)
    PROVE  counts' \in [events : Nat, success : Nat, failed : Nat] /\ faults' \in Nat
<1>1. counts \in [events : Nat, success : Nat, failed : Nat] /\ faults \in Nat
  BY DEF TypeOK, RedisTypeOK
<1>2. CASE counts' = [counts EXCEPT ![field] = @ + 1]
  <2>1. CASE field = "events"
    BY <1>1, <1>2, <2>1 DEF Count
  <2>2. CASE field = "success"
    BY <1>1, <1>2, <2>2 DEF Count
  <2>3. CASE field = "failed"
    BY <1>1, <1>2, <2>3 DEF Count
  <2>. QED  BY <1>1, <2>1, <2>2, <2>3 DEF Count
<1>. QED  BY <1>1, <1>2 DEF Count

LEMMA TallyStep == ASSUME IInv, Tally PROVE IInv'
<1>1. pc' = [pc EXCEPT ![Consumer] = "ack"] /\ pc'[Consumer] = "ack" /\ pc[Consumer] = "tally"
  BY ConsumerNotTx DEF Tally, Goto, IInv, TypeOK, ProcTypeOK
<1>2. TypeOK'
  <2>1. ProcTypeOK'
    BY <1>1 DEF Tally, IInv, TypeOK, ProcTypeOK, Steps
  <2>2. RedisTypeOK' /\ faults' \in Nat
    BY CountTyped DEF Tally, IInv, TypeOK, RedisTypeOK, timerVars, pgVars
  <2>. QED  BY <2>1, <2>2 DEF Tally, IInv, TypeOK, StreamTypeOK, PgTypeOK, streamVars, pgVars
<1>3. Sound(Consumer)'
  BY <1>1 DEF Sound, HoldsGenuine, DecisionJustified, WriteOrdered, Holding, Reporting
<1>4. StoresGenuine'
  BY StoresStand DEF Tally
<1>5. \A q \in Procs \ {Consumer} : Untouched(q)
  BY <1>1 DEF Tally, Untouched, IInv, TypeOK, ProcTypeOK
<1>. QED  BY <1>1, <1>2, <1>3, <1>4, <1>5, LocalStep, ConsumerNotTx
     DEF Tally, streamVars, pgVars

-----------------------------------------------------------------------------
(* Writing a decision.                                                     *)

LEMMA AfterFacts ==
    ASSUME NEW p \in Procs
    PROVE  /\ AfterIncidents(p) \in {"tally", "forget"}
           /\ AfterRows(p) \in {"create", "record"}
           /\ AfterRows(p) = "create" => outcome[p] = "degraded"
           /\ AfterUpsert(p) \in {"create", "record", "details"}
           /\ AfterUpsert(p) = "create" => outcome[p] \in {"pending", "degraded"}
  BY DEF AfterIncidents, AfterRows, AfterUpsert

\* Steps of a handler that move on without touching its locals.
LEMMA TxStands ==
    ASSUME NEW p \in Procs, UNCHANGED <<log, cur>>
    PROVE  Tx(p)' = Tx(p)
  BY DEF Tx, Entry

LEMMA IncidentTyped ==
    ASSUME IInv, NEW i \in DOMAIN incidents
    PROVE  incidents[i].tx \in Txs
<1>. DEFINE R == [tx : Txs, kind : IncidentKinds, window : Slots(Events)]
<1>1. incidents \in Seq(R)
  BY DEF IInv, TypeOK, PgTypeOK
<1>2. incidents[i] \in R
  <2>. HIDE DEF R
  <2>. QED  BY <1>1
<1>. QED  BY <1>2

LEMMA UpsertTransactionStep ==
    ASSUME IInv, NEW p \in Procs, UpsertTransaction(p)
    PROVE  IInv'
<1>1. Tx(p) \in Txs /\ Tx(p)' = Tx(p) /\ pc[p] = "upsert"
  BY TxTyped, TxStands DEF UpsertTransaction, streamVars
<1>2. Sound(p) /\ outcome[p] \in Statuses
  BY DEF IInv, TypeOK, ProcTypeOK
<1>3. /\ pc' = [pc EXCEPT ![p] = AfterUpsert(p)] /\ pc'[p] = AfterUpsert(p)
      /\ status' = [status EXCEPT ![Tx(p)] = outcome[p]]
      /\ status'[Tx(p)] = outcome[p] /\ outcome[p] # "none"
      /\ UNCHANGED <<log, last, cur, acked>> /\ UNCHANGED <<win, outcome, rows, todo, iid>>
      /\ UNCHANGED <<windows, dedup, claimed, sources, rwin, deadlines, scheduled, counts>>
      /\ UNCHANGED <<tscan, tpopped, details, incidents, faults, crashes, stranded>>
  BY <1>1, <1>2 DEF UpsertTransaction, Goto, IInv, TypeOK, ProcTypeOK, PgTypeOK, Sound,
     DecisionJustified, streamVars, redisVars, timerVars, budgetVars
<1>4. TypeOK'
  <2>1. ProcTypeOK'
    BY <1>3, AfterFacts DEF IInv, TypeOK, ProcTypeOK, Steps
  <2>2. PgTypeOK'
    BY <1>2, <1>3 DEF IInv, TypeOK, PgTypeOK
  <2>. QED  BY <1>3, <2>1, <2>2 DEF IInv, TypeOK, StreamTypeOK, RedisTypeOK
<1>5. Sound(p)'
  <2>1. HoldsGenuine(p)' /\ DecisionJustified(p)'
    BY <1>1, <1>2, <1>3, AfterFacts
    DEF Sound, HoldsGenuine, DecisionJustified, Holding, Reporting
  <2>2. WriteOrdered(p)'
    BY <1>1, <1>2, <1>3, AfterFacts DEF WriteOrdered
  <2>. QED  BY <2>1, <2>2 DEF Sound
<1>6. \A tx \in Txs : status[tx] # "none" => status'[tx] # "none"
  BY <1>3 DEF IInv, TypeOK, PgTypeOK
<1>7. \A q \in Procs \ {p} : Sound(q)'
  <2>1. \A q \in Procs \ {p} : Untouched(q)
    BY <1>3 DEF Untouched, IInv, TypeOK, ProcTypeOK
  <2>2. Len(incidents) <= Len(incidents')
    BY <1>3 DEF IInv, TypeOK, PgTypeOK
  <2>. QED  BY <1>3, <1>4, <1>6, <2>1, <2>2, OthersStand
<1>8. ConsumerHoldsEvent' /\ SourcesBacked'
  <2>1. CASE p = Consumer
    BY <1>1, <1>3, <2>1, AfterFacts, SourcesStand
    DEF IInv, ConsumerHoldsEvent, Entry
  <2>2. CASE p # Consumer
    BY <1>3, <2>2, ConsumerStands, SourcesStand DEF IInv, TypeOK, ProcTypeOK, Entry
  <2>. QED  BY <2>1, <2>2
<1>9. VerdictJustified'
  <2>. SUFFICES ASSUME NEW tx \in Txs, status'[tx] # "none"
                PROVE  \E w \in Slots(EventsOf(tx, claimed)) :
                          Justified(status'[tx], w, tx, claimed, ExpectedSources)
    BY <1>3 DEF VerdictJustified
  <2>1. CASE tx = Tx(p)
    <3>1. Justified(outcome[p], win[p], Tx(p), claimed, ExpectedSources)
      BY <1>1, <1>2 DEF Sound, DecisionJustified
    <3>. QED  BY <1>3, <2>1, <3>1 DEF Justified, Genuine
  <2>2. CASE tx # Tx(p)
    BY <1>3, <2>2 DEF IInv, VerdictJustified, TypeOK, PgTypeOK
  <2>. QED  BY <2>1, <2>2
<1>10. StoresGenuine' /\ IncidentJustified' /\ RowsReferenceTransactions'
  <2>1. RowsReferenceTransactions'
    BY <1>3, <1>6, IncidentTyped DEF IInv, RowsReferenceTransactions
  <2>. QED  BY <1>3, <2>1, StoresStand DEF IInv, IncidentJustified
<1>. QED  BY <1>4, <1>5, <1>7, <1>8, <1>9, <1>10 DEF IInv

LEMMA UpsertDetailStep ==
    ASSUME IInv, NEW p \in Procs, UpsertDetail(p)
    PROVE  IInv'
<1>1. Tx(p) \in Txs /\ Tx(p)' = Tx(p) /\ pc[p] = "details"
  BY TxTyped, TxStands DEF UpsertDetail, streamVars
<1>2. Sound(p) /\ rows[p] \in SUBSET Source /\ rows[p] \subseteq SourcesSeen(win[p])
  BY <1>1 DEF IInv, TypeOK, ProcTypeOK, Sound, DecisionJustified
<1>3. PICK s \in NextRow(p) :
         /\ details' = [details EXCEPT ![Tx(p)] = PutRow(@, s, BuildDetails(win[p])[s])]
         /\ rows' = [rows EXCEPT ![p] = @ \ {s}]
         /\ Goto(p, IF rows[p] = {s} THEN AfterRows(p) ELSE "details")
  BY DEF UpsertDetail
<1>4. s \in Source /\ s \in SourcesSeen(win[p]) /\ BuildDetails(win[p])[s] \in Row
  BY <1>2, RowTyped DEF NextRow
<1>5. /\ UNCHANGED <<log, last, cur, acked>> /\ UNCHANGED <<win, outcome, todo, iid>>
      /\ UNCHANGED <<windows, dedup, claimed, sources, rwin, deadlines, scheduled, counts>>
      /\ UNCHANGED <<tscan, tpopped, status, incidents, faults, crashes, stranded>>
  BY DEF UpsertDetail, streamVars, redisVars, timerVars, budgetVars
<1>6. /\ pc' = [pc EXCEPT ![p] = pc'[p]] /\ pc'[p] \in {"details", "create", "record"}
      /\ pc'[p] = "create" => outcome[p] = "degraded"
      /\ rows'[p] \subseteq rows[p]
  BY <1>3, AfterFacts DEF Goto, IInv, TypeOK, ProcTypeOK
<1>7. TypeOK'
  <2>1. ProcTypeOK'
    BY <1>2, <1>3, <1>5, <1>6 DEF IInv, TypeOK, ProcTypeOK, Steps
  <2>2. PgTypeOK'
    <3>1. PutRow(details[Tx(p)], s, BuildDetails(win[p])[s]) \in RowSets
      BY <1>1, <1>4, PutRowTyped DEF IInv, TypeOK, PgTypeOK
    <3>. QED  BY <1>3, <1>5, <3>1 DEF IInv, TypeOK, PgTypeOK
  <2>. QED  BY <1>5, <2>1, <2>2 DEF IInv, TypeOK, StreamTypeOK, RedisTypeOK
<1>8. Sound(p)'
  BY <1>1, <1>2, <1>5, <1>6
  DEF Sound, HoldsGenuine, DecisionJustified, WriteOrdered, Holding, Reporting
<1>9. \A q \in Procs \ {p} : Sound(q)'
  <2>1. \A q \in Procs \ {p} : Untouched(q)
    BY <1>3, <1>5 DEF Goto, Untouched, IInv, TypeOK, ProcTypeOK
  <2>2. Len(incidents) <= Len(incidents')
    BY <1>5 DEF IInv, TypeOK, PgTypeOK
  <2>. QED  BY <1>5, <1>7, <2>1, <2>2, OthersStand
<1>10. ConsumerHoldsEvent' /\ SourcesBacked'
  <2>1. CASE p = Consumer
    BY <1>1, <1>5, <1>6, <2>1, SourcesStand DEF IInv, ConsumerHoldsEvent, Entry
  <2>2. CASE p # Consumer
    <3>1. pc'[Consumer] = pc[Consumer]
      BY <1>6, <2>2, ConsumerNotTx DEF IInv, TypeOK, ProcTypeOK
    <3>. QED  BY <1>5, <3>1, ConsumerStands, SourcesStand DEF Entry
  <2>. QED  BY <2>1, <2>2
<1>11. RowsReferenceTransactions'
  <2>1. status[Tx(p)] # "none"
    BY <1>1, <1>2 DEF Sound, WriteOrdered, Reporting
  <2>. QED  BY <1>3, <1>5, <2>1 DEF IInv, RowsReferenceTransactions, TypeOK, PgTypeOK
<1>12. StoresGenuine' /\ VerdictJustified' /\ IncidentJustified'
  BY <1>5, StoresStand DEF IInv, VerdictJustified, IncidentJustified
<1>. QED  BY <1>7, <1>8, <1>9, <1>10, <1>11, <1>12 DEF IInv

LEMMA CreateIncidentStep ==
    ASSUME IInv, NEW p \in Procs, CreateIncident(p)
    PROVE  IInv'
<1>. DEFINE new == [tx |-> Tx(p), kind |-> Head(todo[p]), window |-> win[p]]
            R == [tx : Txs, kind : IncidentKinds, window : Slots(Events)]
<1>1. Tx(p) \in Txs /\ Tx(p)' = Tx(p) /\ pc[p] = "create"
  BY TxTyped, TxStands DEF CreateIncident, streamVars
<1>2. /\ Sound(p) /\ todo[p] \in Seq(IncidentKinds) /\ todo[p] # <<>>
      /\ win[p] \in Slots(Events) /\ status[Tx(p)] # "none"
      /\ Evidence(todo[p][1], win[p], Tx(p), claimed, ExpectedSources)
  <2>1. Sound(p) /\ todo[p] \in Seq(IncidentKinds) /\ win[p] \in Slots(Events)
    BY DEF IInv, TypeOK, ProcTypeOK
  <2>2. todo[p] # <<>> /\ status[Tx(p)] # "none"
    BY <1>1, <2>1 DEF Sound, DecisionJustified, WriteOrdered, Reporting
  <2>3. 1 \in DOMAIN todo[p]
    BY <2>1, <2>2
  <2>. QED  BY <1>1, <2>1, <2>2, <2>3 DEF Sound, DecisionJustified, Reporting
<1>3. /\ incidents' = Append(incidents, new)
      /\ iid' = [iid EXCEPT ![p] = Len(incidents) + 1]
      /\ todo' = [todo EXCEPT ![p] = Tail(@)]
      /\ pc' = [pc EXCEPT ![p] = "escalate"]
      /\ UNCHANGED <<log, last, cur, acked>> /\ UNCHANGED <<win, outcome, rows>>
      /\ UNCHANGED <<windows, dedup, claimed, sources, rwin, deadlines, scheduled, counts>>
      /\ UNCHANGED <<tscan, tpopped, status, details, faults, crashes, stranded>>
  BY DEF CreateIncident, Goto, streamVars, redisVars, timerVars, budgetVars
<1>4. /\ incidents \in Seq(R) /\ new \in R /\ Head(todo[p]) = todo[p][1]
      /\ Head(todo[p]) \in IncidentKinds
  BY <1>1, <1>2 DEF IInv, TypeOK, PgTypeOK
<1>. HIDE DEF new, R
<1>5. /\ incidents' \in Seq(R) /\ Len(incidents) \in Nat /\ Len(incidents') = Len(incidents) + 1
      /\ \A i \in DOMAIN incidents' : \/ i \in DOMAIN incidents /\ incidents'[i] = incidents[i]
                                      \/ incidents'[i] = new
  BY <1>3, <1>4
<1>6. TypeOK'
  <2>1. ProcTypeOK'
    <3>1. Tail(todo[p]) \in Seq(IncidentKinds)
      BY <1>2
    <3>. QED  BY <1>3, <1>5, <3>1 DEF IInv, TypeOK, ProcTypeOK, Steps
  <2>2. PgTypeOK' /\ RedisTypeOK'
    BY <1>3, <1>5 DEF IInv, TypeOK, PgTypeOK, RedisTypeOK, R
  <2>. QED  BY <1>3, <2>1, <2>2 DEF IInv, TypeOK, StreamTypeOK
<1>7. Sound(p)'
  <2>1. pc'[p] = "escalate" /\ todo'[p] = Tail(todo[p]) /\ iid'[p] = Len(incidents) + 1
    BY <1>3 DEF IInv, TypeOK, ProcTypeOK
  <2>2. \A i \in DOMAIN Tail(todo[p]) : i + 1 \in DOMAIN todo[p] /\ Tail(todo[p])[i] = todo[p][i + 1]
    BY <1>2
  <2>3. HoldsGenuine(p)' /\ WriteOrdered(p)'
    BY <1>1, <1>2, <1>3, <1>5, <2>1 DEF Sound, HoldsGenuine, WriteOrdered, Holding, Reporting
  <2>4. DecisionJustified(p)'
    BY <1>1, <1>2, <1>3, <2>1, <2>2 DEF Sound, DecisionJustified, Reporting
  <2>. QED  BY <2>3, <2>4 DEF Sound
<1>8. \A q \in Procs \ {p} : Sound(q)'
  <2>1. \A q \in Procs \ {p} : Untouched(q)
    BY <1>3 DEF Untouched, IInv, TypeOK, ProcTypeOK
  <2>. QED  BY <1>3, <1>5, <1>6, <2>1, OthersStand
<1>9. ConsumerHoldsEvent' /\ SourcesBacked'
  <2>1. CASE p = Consumer
    BY <1>1, <1>3, <2>1, ConsumerNotTx, SourcesStand
    DEF IInv, ConsumerHoldsEvent, Entry, TypeOK, ProcTypeOK
  <2>2. CASE p # Consumer
    <3>1. pc'[Consumer] = pc[Consumer]
      BY <1>3, <2>2, ConsumerNotTx DEF IInv, TypeOK, ProcTypeOK
    <3>. QED  BY <1>3, <3>1, ConsumerStands, SourcesStand DEF Entry
  <2>. QED  BY <2>1, <2>2
<1>10. IncidentJustified' /\ RowsReferenceTransactions'
  BY <1>2, <1>3, <1>4, <1>5 DEF IInv, IncidentJustified, RowsReferenceTransactions, new
<1>11. StoresGenuine' /\ VerdictJustified'
  BY <1>3, StoresStand DEF IInv, VerdictJustified
<1>. QED  BY <1>6, <1>7, <1>8, <1>9, <1>10, <1>11 DEF IInv

\* A step of p that moves on to another call of its handler and may drop a
\* window, a checkpoint, a deadline or a source set.
LEMMA MoveOn ==
    ASSUME IInv, TypeOK', NEW p \in Procs,
           pc[p] \notin {"idle", "ack", "claim"},
           pc'[p] \in {"tally", "create", "forget", "delete", "undeadline", "unregister"},
           pc'[p] = "create" => pc[p] \in Reporting /\ todo[p] # <<>> /\ status[Tx(p)] # "none",
           \A q \in Procs \ {p} : pc'[q] = pc[q],
           UNCHANGED <<win, outcome, rows, todo, iid>>,
           UNCHANGED <<log, cur, claimed, status, details, incidents>>,
           \A tx \in Txs : windows'[tx] \in {windows[tx], NoWindow},
           \A tx \in Txs : rwin'[tx] \in {rwin[tx], NoWindow},
           \A tx \in Txs : sources'[tx] \subseteq sources[tx]
    PROVE  IInv'
<1>1. Sound(p)'
  <2>1. Sound(p) /\ Tx(p)' = Tx(p)
    BY TxStands DEF IInv
  <2>. QED  BY <2>1 DEF Sound, HoldsGenuine, DecisionJustified, WriteOrdered, Holding, Reporting
<1>2. StoresGenuine'
  BY StoresStand
<1>. QED  BY <1>1, <1>2, LocalStep DEF Untouched

LEMMA RecordMatchResultStep ==
    ASSUME IInv, NEW p \in Procs, RecordMatchResult(p)
    PROVE  IInv'
<1>1. /\ pc[p] = "record" /\ status[Tx(p)] # "none"
      /\ \E step \in {"tally", "forget", "create"} :
            pc' = [pc EXCEPT ![p] = step] /\ (step = "create" => todo[p] # <<>>)
  BY AfterFacts DEF RecordMatchResult, Goto, IInv, Sound, WriteOrdered, Reporting
<1>2. UNCHANGED <<log, last, cur, acked>> /\ UNCHANGED <<win, outcome, rows, todo, iid>>
      /\ UNCHANGED <<windows, dedup, claimed, sources, rwin, deadlines, scheduled, tscan, tpopped>>
      /\ UNCHANGED <<status, details, incidents, crashes, stranded>>
  BY DEF RecordMatchResult, streamVars, timerVars, pgVars
<1>3. counts' \in [events : Nat, success : Nat, failed : Nat] /\ faults' \in Nat
  BY CountTyped DEF RecordMatchResult, IInv
<1>4. TypeOK'
  <2>1. ProcTypeOK'
    BY <1>1, <1>2 DEF IInv, TypeOK, ProcTypeOK, Steps
  <2>. QED  BY <1>2, <1>3, <2>1 DEF IInv, TypeOK, StreamTypeOK, RedisTypeOK, PgTypeOK
<1>. QED  BY <1>1, <1>2, <1>4, MoveOn DEF IInv, TypeOK, ProcTypeOK, Reporting

LEMMA AddEscalationStep ==
    ASSUME IInv, NEW p \in Procs, AddEscalation(p)
    PROVE  IInv'
<1>1. /\ pc[p] = "escalate" /\ status[Tx(p)] # "none" /\ iid[p] \in 1..Len(incidents)
      /\ \E step \in {"tally", "forget", "create"} :
            pc' = [pc EXCEPT ![p] = step] /\ (step = "create" => todo[p] # <<>>)
  BY AfterFacts DEF AddEscalation, Goto, IInv, Sound, WriteOrdered, Reporting
<1>2. UNCHANGED <<log, last, cur, acked>> /\ UNCHANGED <<win, outcome, rows, todo, iid>>
      /\ UNCHANGED <<windows, dedup, claimed, sources, rwin, deadlines, counts, tscan, tpopped>>
      /\ UNCHANGED <<status, details, incidents, faults, crashes, stranded>>
      /\ scheduled' = scheduled \cup {iid[p]}
  BY DEF AddEscalation, streamVars, timerVars, pgVars, budgetVars
<1>3. TypeOK'
  <2>1. ProcTypeOK'
    BY <1>1, <1>2 DEF IInv, TypeOK, ProcTypeOK, Steps
  <2>. QED  BY <1>1, <1>2, <2>1 DEF IInv, TypeOK, StreamTypeOK, RedisTypeOK, PgTypeOK
<1>. QED  BY <1>1, <1>2, <1>3, MoveOn DEF IInv, TypeOK, ProcTypeOK, Reporting

LEMMA ForgetWindowStep ==
    ASSUME IInv, NEW p \in Procs, ForgetWindow(p)
    PROVE  IInv'
<1>1. /\ pc[p] = "forget" /\ pc' = [pc EXCEPT ![p] = "delete"]
      /\ windows' = [windows EXCEPT ![Tx(p)] = NoWindow]
      /\ UNCHANGED <<log, last, cur, acked>> /\ UNCHANGED <<win, outcome, rows, todo, iid>>
      /\ UNCHANGED <<dedup, claimed, sources, rwin, deadlines, scheduled, counts, tscan, tpopped>>
      /\ UNCHANGED <<status, details, incidents, faults, crashes, stranded>>
  BY DEF ForgetWindow, Goto, streamVars, redisVars, timerVars, pgVars, budgetVars
<1>2. TypeOK'
  BY <1>1 DEF IInv, TypeOK, ProcTypeOK, Steps, StreamTypeOK, RedisTypeOK, PgTypeOK
<1>. QED  BY <1>1, <1>2, MoveOn DEF IInv, TypeOK, ProcTypeOK, RedisTypeOK

LEMMA DeleteWindowStep ==
    ASSUME IInv, NEW p \in Procs, DeleteWindow(p)
    PROVE  IInv'
<1>1. /\ pc[p] = "delete" /\ pc' = [pc EXCEPT ![p] = "undeadline"]
      /\ rwin' = [rwin EXCEPT ![Tx(p)] = NoWindow]
      /\ UNCHANGED <<log, last, cur, acked>> /\ UNCHANGED <<win, outcome, rows, todo, iid>>
      /\ UNCHANGED <<windows, dedup, claimed, sources, deadlines, scheduled, counts, tscan, tpopped>>
      /\ UNCHANGED <<status, details, incidents, faults, crashes, stranded>>
  BY DEF DeleteWindow, Goto, streamVars, timerVars, pgVars, budgetVars
<1>2. TypeOK'
  BY <1>1 DEF IInv, TypeOK, ProcTypeOK, Steps, StreamTypeOK, RedisTypeOK, PgTypeOK
<1>. QED  BY <1>1, <1>2, MoveOn DEF IInv, TypeOK, ProcTypeOK, RedisTypeOK

LEMMA RemoveDeadlineStep ==
    ASSUME IInv, NEW p \in Procs, RemoveDeadline(p)
    PROVE  IInv'
<1>1. /\ pc[p] = "undeadline" /\ pc' = [pc EXCEPT ![p] = "unregister"]
      /\ deadlines' = deadlines \ {Tx(p)}
      /\ UNCHANGED <<log, last, cur, acked>> /\ UNCHANGED <<win, outcome, rows, todo, iid>>
      /\ UNCHANGED <<windows, dedup, claimed, sources, rwin, scheduled, counts, tscan, tpopped>>
      /\ UNCHANGED <<status, details, incidents, faults, crashes, stranded>>
  BY DEF RemoveDeadline, Goto, streamVars, timerVars, pgVars, budgetVars
<1>2. TypeOK'
  BY <1>1 DEF IInv, TypeOK, ProcTypeOK, Steps, StreamTypeOK, RedisTypeOK, PgTypeOK
<1>. QED  BY <1>1, <1>2, MoveOn DEF IInv, TypeOK, ProcTypeOK

\* A process that ends its handler knows nothing any more.
LEMMA ReturnFacts ==
    ASSUME IInv, NEW p \in Procs, Return(p)
    PROVE  ProcTypeOK' /\ pc'[p] = "idle" /\ Sound(p)' /\ \A q \in Procs \ {p} : Untouched(q)
<1>1. ProcTypeOK' /\ pc'[p] = "idle" /\ rows'[p] = {}
  <2>1. "idle" \in Steps /\ "none" \in Statuses /\ <<>> \in Seq(IncidentKinds)
    BY DEF Steps, Statuses
  <2>. QED  BY <2>1, EmptyWindowFacts DEF Return, IInv, TypeOK, ProcTypeOK
<1>2. Sound(p)'
  BY <1>1 DEF Sound, HoldsGenuine, DecisionJustified, WriteOrdered, Holding, Reporting
<1>. QED  BY <1>1, <1>2 DEF Return, Untouched, IInv, TypeOK, ProcTypeOK

LEMMA CleanupSourcesStep ==
    ASSUME IInv, NEW p \in Procs, CleanupSources(p)
    PROVE  IInv'
<1>1. /\ pc[p] = "unregister"
      /\ sources' = [sources EXCEPT ![Tx(p)] = {}]
      /\ UNCHANGED <<log, last, cur, acked>>
      /\ UNCHANGED <<windows, dedup, claimed, rwin, deadlines, scheduled, counts, tscan, tpopped>>
      /\ UNCHANGED <<status, details, incidents, faults, crashes, stranded>>
  BY DEF CleanupSources, streamVars, timerVars, pgVars, budgetVars
<1>2. \A tx \in Txs : sources'[tx] \subseteq sources[tx]
  BY <1>1 DEF IInv, TypeOK, RedisTypeOK
<1>3. RedisTypeOK'
  BY <1>1 DEF IInv, TypeOK, RedisTypeOK
<1>4. CASE p = Consumer
  <2>1. pc' = [pc EXCEPT ![p] = "tally"] /\ UNCHANGED <<win, outcome, rows, todo, iid>>
    BY <1>4 DEF CleanupSources, Goto
  <2>2. ProcTypeOK' /\ pc'[p] = "tally"
    BY <2>1 DEF IInv, TypeOK, ProcTypeOK, Steps
  <2>3. TypeOK'
    BY <1>1, <1>3, <2>2 DEF IInv, TypeOK, StreamTypeOK, PgTypeOK
  <2>. QED  BY <1>1, <1>2, <2>1, <2>2, <2>3, MoveOn DEF IInv, TypeOK, ProcTypeOK
<1>5. CASE p # Consumer
  <2>1. Return(p)
    BY <1>5 DEF CleanupSources
  <2>2. TypeOK'
    BY <1>1, <1>3, <2>1, ReturnFacts DEF IInv, TypeOK, StreamTypeOK, PgTypeOK
  <2>3. StoresGenuine'
    BY <1>1, StoresStand
  <2>. QED  BY <1>1, <1>2, <1>5, <2>1, <2>2, <2>3, ReturnFacts, LocalStep
<1>. QED  BY <1>4, <1>5

-----------------------------------------------------------------------------
(* The timer.                                                              *)

LEMMA ScanStep == ASSUME IInv, NEW due, Scan(due) PROVE IInv'
<1>1. TypeOK'
  BY DEF IInv, Scan, TypeOK, StreamTypeOK, ProcTypeOK, RedisTypeOK, PgTypeOK,
     streamVars, procVars, redisVars, pgVars, budgetVars
<1>. QED  BY <1>1, StoreStep DEF Scan, streamVars, redisVars

LEMMA PopStep == ASSUME IInv, NEW tx \in Txs, Pop(tx) PROVE IInv'
<1>1. TypeOK'
  BY DEF IInv, Pop, TypeOK, StreamTypeOK, ProcTypeOK, RedisTypeOK, PgTypeOK,
     streamVars, procVars, pgVars, budgetVars
<1>. QED  BY <1>1, StoreStep DEF Pop, streamVars

LEMMA SpawnStep == ASSUME IInv, NEW tx \in Txs, Spawn(tx) PROVE IInv'
<1>1. /\ pc' = [pc EXCEPT ![tx] = "take"] /\ tpopped' = tpopped \ {tx}
      /\ UNCHANGED <<log, last, cur, acked>> /\ UNCHANGED <<win, outcome, rows, todo, iid>>
      /\ UNCHANGED <<windows, dedup, claimed, sources, rwin, deadlines, scheduled, counts, tscan>>
      /\ UNCHANGED <<status, details, incidents, faults, crashes, stranded>>
  BY DEF Spawn, Goto, streamVars, redisVars, pgVars, budgetVars
<1>2. TypeOK'
  BY <1>1 DEF IInv, TypeOK, ProcTypeOK, Steps, StreamTypeOK, RedisTypeOK, PgTypeOK
<1>3. Sound(tx)'
  BY <1>1, ConsumerNotTx DEF Sound, HoldsGenuine, DecisionJustified, WriteOrdered, Holding,
     Reporting, IInv, TypeOK, ProcTypeOK
<1>4. StoresGenuine'
  BY <1>1, StoresStand
<1>. QED  BY <1>1, <1>2, <1>3, <1>4, ConsumerNotTx, LocalStep
     DEF Untouched, IInv, TypeOK, ProcTypeOK

LEMMA TakeStep == ASSUME IInv, NEW tx \in Txs, Take(tx) PROVE IInv'
<1>1. /\ pc[tx] = "take"
      /\ windows' = [windows EXCEPT ![tx] = NoWindow]
      /\ UNCHANGED <<log, last, cur, acked>>
      /\ UNCHANGED <<dedup, claimed, sources, rwin, deadlines, scheduled, counts, tscan, tpopped>>
      /\ UNCHANGED <<status, details, incidents, faults, crashes, stranded>>
      /\ tx \in Procs /\ tx # Consumer /\ Tx(tx) = tx /\ Tx(tx)' = tx
  BY ConsumerNotTx DEF Take, streamVars, redisVars, timerVars, pgVars, budgetVars, Tx
<1>2. ProcTypeOK' /\ Sound(tx)' /\ \A q \in Procs \ {tx} : Untouched(q)
  <2>1. CASE windows[tx] = NoWindow
    BY <1>1, <2>1, ReturnFacts DEF Take
  <2>2. CASE windows[tx] # NoWindow
    <3>. DEFINE w == windows[tx]
    <3>1. w \in Slots(Events) /\ Genuine(w, tx, claimed)
      BY <2>2 DEF IInv, TypeOK, RedisTypeOK, StoresGenuine
    <3>2. win' = [win EXCEPT ![tx] = w] /\ UNCHANGED iid
      BY <2>2 DEF Take
    <3>3. win'[tx] = w /\ win' \in [Procs -> Slots(Events)]
      BY <1>1, <3>1, <3>2 DEF IInv, TypeOK, ProcTypeOK
    <3>4. CASE IsComplete(w, ExpectedSources)
      <4>1. Finalize(tx, w)
        BY <2>2, <3>4 DEF Take
      <4>. HIDE DEF w
      <4>. QED  BY <1>1, <3>1, <3>2, <3>3, <3>4, <4>1, FinalizeSound
           DEF IInv, TypeOK, ProcTypeOK, Untouched
    <3>5. CASE ~IsComplete(w, ExpectedSources)
      <4>1. /\ pc' = [pc EXCEPT ![tx] = "upsert"]
            /\ outcome' = [outcome EXCEPT ![tx] = "degraded"]
            /\ rows' = [rows EXCEPT ![tx] = SourcesSeen(w)]
            /\ todo' = [todo EXCEPT ![tx] = <<"missing_source">>]
        BY <2>2, <3>5 DEF Take, Goto
      <4>2. "upsert" \in Steps /\ "degraded" \in Statuses
            /\ <<"missing_source">> \in Seq(IncidentKinds)
        BY DEF Steps, Statuses, Final, IncidentKinds
      <4>. HIDE DEF w
      <4>3. ProcTypeOK' /\ \A q \in Procs \ {tx} : Untouched(q)
        BY <1>1, <3>2, <3>3, <4>1, <4>2, VerdictFacts DEF IInv, TypeOK, ProcTypeOK, Untouched
      <4>4. /\ pc'[tx] = "upsert" /\ outcome'[tx] = "degraded"
            /\ rows'[tx] = SourcesSeen(w) /\ todo'[tx] = <<"missing_source">>
        BY <1>1, <4>1 DEF IInv, TypeOK, ProcTypeOK
      <4>5. Sound(tx)'
        BY <1>1, <3>1, <3>3, <3>5, <4>4
        DEF Sound, HoldsGenuine, DecisionJustified, WriteOrdered, Justified, Evidence
      <4>. QED  BY <4>3, <4>5
    <3>. QED  BY <3>4, <3>5
  <2>. QED  BY <2>1, <2>2
<1>3. TypeOK' /\ StoresGenuine'
  BY <1>1, <1>2, StoresStand DEF IInv, TypeOK, StreamTypeOK, RedisTypeOK, PgTypeOK
<1>. QED  BY <1>1, <1>2, <1>3, LocalStep

-----------------------------------------------------------------------------
(* Failures, restarts and expiry.                                          *)

LEMMA ProcFailsStep == ASSUME IInv, NEW p \in Procs, ProcFails(p) PROVE IInv'
<1>1. /\ Return(p) /\ faults' \in Nat
      /\ UNCHANGED <<log, last, cur, acked>>
      /\ UNCHANGED <<windows, dedup, claimed, sources, rwin, deadlines, scheduled, counts>>
      /\ UNCHANGED <<tscan, tpopped, status, details, incidents, crashes, stranded>>
  BY DEF ProcFails, Fault, IInv, TypeOK, streamVars, redisVars, timerVars, pgVars
<1>2. TypeOK' /\ StoresGenuine'
  BY <1>1, ReturnFacts, StoresStand DEF IInv, TypeOK, StreamTypeOK, RedisTypeOK, PgTypeOK
<1>. QED  BY <1>1, <1>2, ReturnFacts, LocalStep

LEMMA TimerFailsStep == ASSUME IInv, TimerFails PROVE IInv'
<1>1. TypeOK'
  BY DEF IInv, TimerFails, Fault, TypeOK, StreamTypeOK, ProcTypeOK, RedisTypeOK, PgTypeOK,
     streamVars, procVars, pgVars
<1>. QED  BY <1>1, StoreStep DEF TimerFails, streamVars

LEMMA ExpireSourcesStep == ASSUME IInv, NEW tx \in Txs, ExpireSources(tx) PROVE IInv'
<1>1. TypeOK'
  BY DEF IInv, ExpireSources, TypeOK, StreamTypeOK, ProcTypeOK, RedisTypeOK, PgTypeOK,
     streamVars, procVars, timerVars, pgVars, budgetVars
<1>. QED  BY <1>1, StoreStep DEF ExpireSources, streamVars, IInv, TypeOK, RedisTypeOK

LEMMA ExpireCheckpointStep == ASSUME IInv, NEW tx \in Txs, ExpireCheckpoint(tx) PROVE IInv'
<1>1. /\ rwin' = [rwin EXCEPT ![tx] = NoWindow]
      /\ UNCHANGED <<log, last, cur, acked, procVars, windows, pgVars>>
      /\ UNCHANGED <<dedup, claimed, sources, deadlines, scheduled, counts, tscan, tpopped>>
      /\ UNCHANGED <<faults, crashes, stranded>>
  BY DEF ExpireCheckpoint, streamVars, timerVars, budgetVars
<1>2. TypeOK'
  BY <1>1 DEF IInv, TypeOK, StreamTypeOK, ProcTypeOK, RedisTypeOK, PgTypeOK, procVars, pgVars
<1>3. \A x \in Txs : rwin'[x] \in {rwin[x], NoWindow}
  BY <1>1 DEF IInv, TypeOK, RedisTypeOK
<1>4. StoresGenuine'
  BY <1>1, <1>3, StoresStand
<1>5. \A q \in Procs : Untouched(q)
  BY <1>1 DEF procVars, Untouched
<1>6. Tx(Consumer)' = Tx(Consumer) /\ Len(incidents) \in Nat /\ Len(incidents') = Len(incidents)
  BY <1>1 DEF Tx, Entry, IInv, TypeOK, PgTypeOK, pgVars
<1>7. Sound(Consumer)'
  BY <1>1, <1>5, <1>6, SoundStands, ConsumerNotTx DEF Untouched, pgVars
<1>. QED  BY <1>1, <1>2, <1>4, <1>5, <1>7, LocalStep, ConsumerNotTx DEF Untouched, pgVars

LEMMA CrashAndRestartStep ==
    ASSUME IInv, NEW gone, NEW forgotten, NEW unread, CrashAndRestart(gone, forgotten, unread)
    PROVE  IInv'
<1>1. /\ rwin' = [tx \in Txs |-> IF tx \in gone THEN NoWindow ELSE rwin[tx]]
      /\ windows' = [tx \in Txs |-> IF tx \in gone \cup unread THEN NoWindow ELSE rwin[tx]]
      /\ sources' = [tx \in Txs |-> IF tx \in forgotten THEN {} ELSE sources[tx]]
      /\ UNCHANGED <<log, last, acked, dedup, claimed, deadlines, scheduled, counts>>
      /\ UNCHANGED <<status, details, incidents>>
      /\ tscan' = {} /\ tpopped' = {} /\ cur' = last /\ crashes' = crashes + 1
      /\ faults' \in Nat /\ (\A tx \in Txs : stranded'[tx] \in Nat)
  BY DEF CrashAndRestart, Restore, Fault, TimeoutsInWork, IInv, TypeOK, pgVars
<1>2. /\ pc' = [p \in Procs |-> "idle"]
      /\ win' = [p \in Procs |-> EmptyWindow]
      /\ outcome' = [p \in Procs |-> "none"]
      /\ rows' = [p \in Procs |-> {}]
      /\ todo' = [p \in Procs |-> <<>>]
      /\ iid' = [p \in Procs |-> 0]
  BY DEF CrashAndRestart
<1>3. TypeOK'
  <2>1. StreamTypeOK'
    BY <1>1, EngineAssumption DEF IInv, TypeOK, StreamTypeOK
  <2>2. ProcTypeOK'
    BY <1>2, EmptyWindowFacts DEF ProcTypeOK, Steps, Statuses
  <2>. QED  BY <1>1, <2>1, <2>2 DEF IInv, TypeOK, RedisTypeOK, PgTypeOK
<1>4. ConsumerHoldsEvent' /\ SourcesBacked'
  BY <1>1, <1>2, ConsumerNotTx, SourcesStand DEF ConsumerHoldsEvent
<1>5. StoresGenuine'
  BY <1>1 DEF IInv, StoresGenuine
<1>6. \A p \in Procs : Sound(p)'
  BY <1>2 DEF Sound, HoldsGenuine, DecisionJustified, WriteOrdered, Holding, Reporting
<1>7. VerdictJustified' /\ IncidentJustified' /\ RowsReferenceTransactions'
  BY <1>1, TablesStand
<1>. QED  BY <1>3, <1>4, <1>5, <1>6, <1>7 DEF IInv

-----------------------------------------------------------------------------
(* The invariant of the engine.                                            *)

LEMMA InitIInv == Init => IInv
<1>. SUFFICES ASSUME Init PROVE IInv
  OBVIOUS
<1>1. TypeOK
  <2>1. StreamTypeOK
    BY EngineAssumption DEF Init, StreamTypeOK
  <2>2. ProcTypeOK
    BY EmptyWindowFacts DEF Init, ProcInit, ProcTypeOK, Steps, Statuses
  <2>3. RedisTypeOK
    BY DEF Init, RedisTypeOK
  <2>4. PgTypeOK
    <3>1. <<>> \in RowSets
      <4>1. <<>> = [s \in {} |-> {}]
        OBVIOUS
      <4>2. <<>> \in [{} -> Row]
        BY <4>1
      <4>. QED  BY <4>2 DEF RowSets
    <3>. QED  BY <3>1 DEF Init, PgTypeOK, Statuses
  <2>. QED  BY <2>1, <2>2, <2>3, <2>4 DEF Init, TypeOK
<1>2. ConsumerHoldsEvent /\ StoresGenuine /\ SourcesBacked
  BY ConsumerNotTx DEF Init, ProcInit, ConsumerHoldsEvent, StoresGenuine, SourcesBacked
<1>3. \A p \in Procs : Sound(p)
  BY DEF Init, ProcInit, Sound, HoldsGenuine, DecisionJustified, WriteOrdered, Holding, Reporting
<1>4. VerdictJustified /\ IncidentJustified /\ RowsReferenceTransactions
  BY DEF Init, VerdictJustified, IncidentJustified, RowsReferenceTransactions
<1>. QED  BY <1>1, <1>2, <1>3, <1>4 DEF IInv

LEMMA NextIInv == IInv /\ [Next]_vars => IInv'
<1>. SUFFICES ASSUME IInv, [Next]_vars PROVE IInv'
  OBVIOUS
<1>1. CASE Consume
  BY <1>1, XReadStep, NextEntryStep, ClaimStep, RegisterStep, OpenWindowStep, AddDeadlineStep,
     StoreWindowStep, SaveWindowStep, TallyStep, AckStep DEF Consume
<1>2. ASSUME NEW p \in Procs, Conclude(p) PROVE IInv'
  BY <1>2, UpsertTransactionStep, UpsertDetailStep, RecordMatchResultStep, CreateIncidentStep,
     AddEscalationStep, ForgetWindowStep, DeleteWindowStep, RemoveDeadlineStep,
     CleanupSourcesStep DEF Conclude
<1>3. ASSUME NEW due \in SUBSET Txs, Scan(due) PROVE IInv'
  BY <1>3, ScanStep
<1>4. ASSUME NEW tx \in Txs, Pop(tx) \/ Spawn(tx) \/ Take(tx) PROVE IInv'
  BY <1>4, PopStep, SpawnStep, TakeStep
<1>5. CASE Environment
  BY <1>5, ProcFailsStep, XReadLostStep, TimerFailsStep, CrashAndRestartStep,
     ExpireCheckpointStep, ExpireSourcesStep DEF Environment
<1>6. CASE UNCHANGED vars
  <2>1. UNCHANGED <<log, last, cur, acked>> /\ UNCHANGED <<windows, faults, crashes, stranded>>
        /\ UNCHANGED <<procVars, redisVars, timerVars, pgVars>>
    BY <1>6 DEF vars, streamVars, budgetVars
  <2>2. TypeOK'
    BY <2>1 DEF IInv, TypeOK, StreamTypeOK, ProcTypeOK, RedisTypeOK, PgTypeOK,
       procVars, redisVars, timerVars, pgVars
  <2>. QED  BY <2>1, <2>2, StoreStep DEF redisVars
<1>. QED  BY <1>1, <1>2, <1>3, <1>4, <1>5, <1>6 DEF Next

\* Whatever the interleaving, whichever calls fail and however often the
\* process restarts: IInv holds in every reachable state.
THEOREM EngineInvariant == Spec => []IInv
  BY InitIInv, NextIInv, PTL DEF Spec

\* Every variable keeps its shape and only existing incidents are scheduled.
THEOREM EngineTyped == Spec => []TypeOK
<1>1. IInv => TypeOK
  BY DEF IInv
<1>. QED  BY <1>1, EngineInvariant, PTL

\* No status in PostgreSQL is invented: each rests on a window of events that
\* were accepted for its transaction (finalize_window, handle_timeout and the
\* duplicate path of handle_event).
THEOREM EngineVerdicts == Spec => []VerdictJustified
<1>1. IInv => VerdictJustified
  BY DEF IInv
<1>. QED  BY <1>1, EngineInvariant, PTL

\* No incident is a false alarm: the accepted events it quotes show it.
THEOREM EngineIncidents == Spec => []IncidentJustified
<1>1. IInv => IncidentJustified
  BY DEF IInv
<1>. QED  BY <1>1, EngineInvariant, PTL

\* The foreign keys of the schema hold on every path of the engine.
THEOREM EngineRows == Spec => []RowsReferenceTransactions
<1>1. IInv => RowsReferenceTransactions
  BY DEF IInv
<1>. QED  BY <1>1, EngineInvariant, PTL

-----------------------------------------------------------------------------
(* The engine implements the contract.                                     *)

\* The contract speaks of windows with the operators the engine uses.
LEMMA SameWords ==
    /\ \A w, tx, evs : Contract!Genuine(w, tx, evs) <=> Genuine(w, tx, evs)
    /\ \A st, w, tx, evs, n : Contract!Justified(st, w, tx, evs, n) <=> Justified(st, w, tx, evs, n)
    /\ \A kind, w, tx, evs, n : Contract!Evidence(kind, w, tx, evs, n) <=> Evidence(kind, w, tx, evs, n)
    /\ \A tx, evs : Contract!Slots(Contract!EventsOf(tx, evs)) = Slots(EventsOf(tx, evs))
    /\ \A w : Contract!SourcesSeen(w) = SourcesSeen(w)
    /\ \A d, s, row : Contract!PutRow(d, s, row) = PutRow(d, s, row)
    /\ \A w : Contract!BuildDetails(w) = BuildDetails(w)
    /\ Contract!Source = Source
    /\ Contract!Statuses = Statuses
    /\ Contract!IncidentKinds = IncidentKinds
<1>1. Contract!Source = Source
  BY DEF Contract!Source, Source
<1>2. \A w : Contract!SourcesSeen(w) = SourcesSeen(w)
  BY DEF Contract!SourcesSeen, SourcesSeen, Contract!Source, Source
<1>3. \A tx, evs : Contract!Slots(Contract!EventsOf(tx, evs)) = Slots(EventsOf(tx, evs))
  BY DEF Contract!Slots, Contract!EventsOf, Slots, EventsOf, Contract!Source, Source
<1>4. \A w, tx, evs : Contract!Genuine(w, tx, evs) <=> Genuine(w, tx, evs)
  BY <1>2, <1>3 DEF Contract!Genuine, Genuine
<1>5. \A w, tx, evs : Contract!HasDouble(w, tx, evs) <=> HasDouble(w, tx, evs)
  BY <1>2 DEF Contract!HasDouble, HasDouble, Contract!EventsOf, EventsOf
<1>6. \A w, n : Contract!IsComplete(w, n) <=> IsComplete(w, n)
  BY DEF Contract!IsComplete, IsComplete, Contract!SourcesSeen, SourcesSeen,
     Contract!Source, Source, Contract!Cardinality, Cardinality
<1>7. \A w : Contract!MismatchIncidents(w) = MismatchIncidents(w)
  BY DEF Contract!MismatchIncidents, MismatchIncidents, Contract!SourcesSeen, SourcesSeen,
     Contract!CurrencyMismatch, CurrencyMismatch, Contract!AmountMismatch, AmountMismatch,
     Contract!FeeMismatch, FeeMismatch, Contract!BothSeen, BothSeen, Contract!Source, Source,
     Contract!ExpectedBankAmount, ExpectedBankAmount, Contract!I64Sub, I64Sub
<1>8. \A w : Contract!Verdict(w) = Verdict(w)
  BY <1>1, <1>2, <1>7 DEF Contract!Verdict, Verdict
<1>9. \A st, w, tx, evs, n : Contract!Justified(st, w, tx, evs, n) <=> Justified(st, w, tx, evs, n)
  BY <1>4, <1>5, <1>6, <1>8 DEF Contract!Justified, Justified
<1>10. \A kind, w, tx, evs, n : Contract!Evidence(kind, w, tx, evs, n) <=> Evidence(kind, w, tx, evs, n)
  BY <1>4, <1>5, <1>6, <1>7 DEF Contract!Evidence, Evidence, Contract!Raises, Raises
<1>11. \A w : Contract!BuildDetails(w) = BuildDetails(w)
  BY DEF Contract!BuildDetails, BuildDetails, Contract!SourcesSeen, SourcesSeen,
     Contract!RowMatches, RowMatches, Contract!RowReason, RowReason,
     Contract!Counterpart, Counterpart, Contract!ExpectedAmount, ExpectedAmount,
     Contract!CurrencyMismatch, CurrencyMismatch, Contract!AmountMismatch, AmountMismatch,
     Contract!FeeMismatch, FeeMismatch, Contract!BothSeen, BothSeen, Contract!Source, Source,
     Contract!ExpectedBankAmount, ExpectedBankAmount, Contract!I64Sub, I64Sub
<1>12. \A d, s, row : Contract!PutRow(d, s, row) = PutRow(d, s, row)
  BY DEF Contract!PutRow, PutRow
<1>13. Contract!Statuses = Statuses /\ Contract!IncidentKinds = IncidentKinds
  BY DEF Contract!Statuses, Statuses, Contract!Final, Final, Contract!IncidentKinds, IncidentKinds
<1>. QED  BY <1>1, <1>2, <1>3, <1>4, <1>9, <1>10, <1>11, <1>12, <1>13

contractVars == <<claimed, status, details, incidents, scheduled>>

LEMMA ClaimAccepts ==
    ASSUME IInv, Claim
    PROVE  (\E e \in Events : Contract!Accept(e)) \/ UNCHANGED contractVars
<1>1. CASE AlreadyClaimed
  BY <1>1 DEF Claim, contractVars, pgVars
<1>2. CASE ~AlreadyClaimed
  <2>1. Entry \in Events
    BY DEF IInv, ConsumerHoldsEvent, Claim
  <2>2. \A f \in claimed : f.id # Entry.id
    BY <1>2 DEF AlreadyClaimed, IInv, TypeOK, RedisTypeOK
  <2>3. Contract!Accept(Entry)
    BY <1>2, <2>2 DEF Claim, Contract!Accept, pgVars
  <2>. QED  BY <2>1, <2>3
<1>. QED  BY <1>1, <1>2

LEMMA UpsertJudges ==
    ASSUME IInv, NEW p \in Procs, UpsertTransaction(p)
    PROVE  \E tx \in Txs : \E w \in Slots(EventsOf(tx, claimed)) :
             \E st \in Statuses \ {"none"} : Contract!Judge(tx, w, st)
<1>1. Tx(p) \in Txs /\ Sound(p) /\ outcome[p] \in Statuses
  BY TxTyped DEF UpsertTransaction, IInv, TypeOK, ProcTypeOK
<1>2. outcome[p] # "none" /\ Justified(outcome[p], win[p], Tx(p), claimed, ExpectedSources)
  BY <1>1 DEF UpsertTransaction, Sound, DecisionJustified
<1>3. win[p] \in Slots(EventsOf(Tx(p), claimed))
  BY <1>2 DEF Justified, Genuine
<1>4. Contract!Judge(Tx(p), win[p], outcome[p])
  BY <1>2, SameWords DEF Contract!Judge, UpsertTransaction, redisVars
<1>. QED  BY <1>1, <1>2, <1>3, <1>4

LEMMA DetailReports ==
    ASSUME IInv, NEW p \in Procs, UpsertDetail(p)
    PROVE  \E tx \in Txs : \E w \in Slots(EventsOf(tx, claimed)) :
             \E s \in Source : Contract!Report(tx, w, s)
<1>1. Tx(p) \in Txs /\ Sound(p) /\ pc[p] = "details" /\ rows[p] \subseteq SourcesSeen(win[p])
  BY TxTyped DEF UpsertDetail, IInv, Sound, DecisionJustified
<1>2. status[Tx(p)] # "none" /\ Genuine(win[p], Tx(p), claimed)
  BY <1>1 DEF Sound, WriteOrdered, HoldsGenuine, Holding, Reporting
<1>3. win[p] \in Slots(EventsOf(Tx(p), claimed))
  BY <1>2 DEF Genuine
<1>4. PICK s \in NextRow(p) :
         details' = [details EXCEPT ![Tx(p)] = PutRow(@, s, BuildDetails(win[p])[s])]
  BY DEF UpsertDetail
<1>5. s \in SourcesSeen(win[p]) /\ s \in Source
  BY <1>1, <1>4 DEF NextRow, SourcesSeen
<1>6. Contract!Report(Tx(p), win[p], s)
  BY <1>2, <1>4, <1>5, SameWords DEF Contract!Report, UpsertDetail, redisVars
<1>. QED  BY <1>1, <1>3, <1>5, <1>6

LEMMA CreateRaises ==
    ASSUME IInv, NEW p \in Procs, CreateIncident(p)
    PROVE  \E tx \in Txs : \E w \in Slots(EventsOf(tx, claimed)) :
             \E kind \in IncidentKinds : Contract!Raise(tx, w, kind)
<1>1. Tx(p) \in Txs /\ Sound(p) /\ pc[p] = "create" /\ todo[p] \in Seq(IncidentKinds)
  BY TxTyped DEF CreateIncident, IInv, TypeOK, ProcTypeOK
<1>2. todo[p] # <<>> /\ status[Tx(p)] # "none" /\ Genuine(win[p], Tx(p), claimed)
  BY <1>1 DEF Sound, DecisionJustified, WriteOrdered, HoldsGenuine, Holding, Reporting
<1>3. 1 \in DOMAIN todo[p] /\ Head(todo[p]) = todo[p][1] /\ Head(todo[p]) \in IncidentKinds
  BY <1>1, <1>2
<1>4. Evidence(Head(todo[p]), win[p], Tx(p), claimed, ExpectedSources)
  BY <1>1, <1>3 DEF Sound, DecisionJustified, Reporting
<1>5. win[p] \in Slots(EventsOf(Tx(p), claimed))
  BY <1>2 DEF Genuine
<1>6. Contract!Raise(Tx(p), win[p], Head(todo[p]))
  BY <1>2, <1>4, SameWords DEF Contract!Raise, CreateIncident, redisVars
<1>. QED  BY <1>1, <1>3, <1>5, <1>6

LEMMA EscalationSchedules ==
    ASSUME IInv, NEW p \in Procs, AddEscalation(p)
    PROVE  \E i \in DOMAIN incidents : Contract!Schedule(i)
<1>1. iid[p] \in DOMAIN incidents
  BY DEF AddEscalation, IInv, Sound, WriteOrdered, TypeOK, PgTypeOK
<1>2. Contract!Schedule(iid[p])
  BY <1>1 DEF Contract!Schedule, AddEscalation, pgVars
<1>. QED  BY <1>1, <1>2

LEMMA StepKeepsContract == IInv /\ [Next]_vars => [Contract!Next]_(Contract!vars)
<1>. SUFFICES ASSUME IInv, [Next]_vars
              PROVE  Contract!Next \/ UNCHANGED contractVars
  BY DEF Contract!vars, contractVars
<1>1. CASE Consume
  <2>1. CASE Claim
    BY <2>1, ClaimAccepts DEF Contract!Next
  <2>2. CASE Consume /\ ~Claim
    BY <2>2 DEF Consume, XRead, NextEntry, Register, OpenWindow, AddDeadline, StoreWindow,
       SaveWindow, Tally, Ack, contractVars, redisVars, pgVars
  <2>. QED  BY <1>1, <2>1, <2>2
<1>2. ASSUME NEW p \in Procs, Conclude(p)
      PROVE  Contract!Next \/ UNCHANGED contractVars
  <2>1. CASE UpsertTransaction(p)
    BY <2>1, UpsertJudges, SameWords DEF Contract!Next
  <2>2. CASE UpsertDetail(p)
    BY <2>2, DetailReports, SameWords DEF Contract!Next
  <2>3. CASE CreateIncident(p)
    BY <2>3, CreateRaises, SameWords DEF Contract!Next
  <2>4. CASE AddEscalation(p)
    BY <2>4, EscalationSchedules DEF Contract!Next
  <2>5. CASE RecordMatchResult(p) \/ ForgetWindow(p) \/ DeleteWindow(p) \/ RemoveDeadline(p)
             \/ CleanupSources(p)
    BY <2>5 DEF RecordMatchResult, ForgetWindow, DeleteWindow, RemoveDeadline, CleanupSources,
       contractVars, redisVars, pgVars
  <2>. QED  BY <1>2, <2>1, <2>2, <2>3, <2>4, <2>5 DEF Conclude
<1>3. CASE \E due \in SUBSET Txs : Scan(due)
  BY <1>3 DEF Scan, contractVars, redisVars, pgVars
<1>4. ASSUME NEW tx \in Txs, Pop(tx) \/ Spawn(tx) \/ Take(tx)
      PROVE  UNCHANGED contractVars
  BY <1>4 DEF Pop, Spawn, Take, contractVars, redisVars, pgVars
<1>5. CASE Environment
  BY <1>5 DEF Environment, ProcFails, XReadLost, TimerFails, CrashAndRestart,
     ExpireCheckpoint, ExpireSources, contractVars, redisVars, pgVars
<1>6. CASE UNCHANGED vars
  BY <1>6 DEF vars, contractVars, redisVars, pgVars
<1>. QED  BY <1>1, <1>2, <1>3, <1>4, <1>5, <1>6 DEF Next

\* The engine, with its windows, checkpoints, deadlines, tasks, failures and
\* restarts, does nothing a reader of the tables could tell from the contract:
\* the claim of an event accepts it, and every write is one of the contract's.
THEOREM EngineKeepsContract == Spec => KeepsContract
<1>1. Init => Contract!Init
  BY DEF Init, Contract!Init
<1>. QED  BY <1>1, EngineInvariant, StepKeepsContract, PTL DEF Spec, KeepsContract, Contract!Spec

=============================================================================
