------------------------ MODULE UndisturbedEngineProofs ------------------------
(***************************************************************************)
(* What the matcher keeps while no call fails, for any number of           *)
(* transactions, events and streams: that no accepted event is lost, that  *)
(* stores, tables and counters agree, and that a decision stands.          *)
(***************************************************************************)
EXTENDS UndisturbedEngine, MatchingEngineProofs, FiniteSetTheorems

-----------------------------------------------------------------------------
(* Facts used all over.                                                    *)

LEMMA Shapes ==
    ASSUME IInv
    PROVE  /\ pc \in [Procs -> Steps] /\ win \in [Procs -> Slots(Events)]
           /\ outcome \in [Procs -> Statuses] /\ rows \in [Procs -> SUBSET Source]
           /\ windows \in [Txs -> Slots(Events) \cup {NoWindow}]
           /\ rwin \in [Txs -> Slots(Events) \cup {NoWindow}]
           /\ sources \in [Txs -> SUBSET Source]
           /\ status \in [Txs -> Statuses]
           /\ deadlines \subseteq Txs /\ tscan \subseteq Txs /\ tpopped \subseteq Txs
           /\ claimed \subseteq Events /\ dedup = {e.id : e \in claimed}
  BY DEF IInv, TypeOK, ProcTypeOK, RedisTypeOK, PgTypeOK

LEMMA ProcFacts ==
    /\ Consumer \in Procs /\ Consumer \notin Txs
    /\ \A tx \in Txs : tx \in Procs /\ tx # Consumer /\ Tx(tx) = tx
    /\ \A p \in Procs : p # Consumer => p \in Txs
    /\ Tx(Consumer) = Entry.tx
  BY EngineAssumption DEF Procs, Tx

LEMMA ClaimedFacts ==
    ASSUME IInv, NEW e \in claimed
    PROVE  e \in Events /\ e.tx \in Txs /\ e.source \in Source /\ e # NoEvent /\ e # Malformed
  BY Shapes, EventFields

LEMMA EntryFacts ==
    ASSUME IInv, pc[Consumer] \notin {"idle", "ack"}
    PROVE  /\ Entry \in Events /\ Entry.tx \in Txs /\ Entry.source \in Source
           /\ Entry # NoEvent /\ Entry # Malformed /\ cur \in 1..Len(log)
           /\ pc[Consumer] # "claim" => Entry \in claimed
  BY EventFields DEF IInv, ConsumerHoldsEvent

-----------------------------------------------------------------------------
(* What a step leaves standing of RaceInv.                                 *)

raceVars == <<log, cur, acked, pc, win, windows, dedup, claimed, sources, rwin,
              deadlines, tscan, tpopped, status, faults, crashes>>

LEMMA RaceStutter == RaceInv /\ UNCHANGED raceVars => RaceInv'
  BY DEF raceVars, RaceInv, TimerOnce, CleansJudged, AckedIsKnown, Undisturbed, InHand, Kept,
     Judged, TaskHolds, StoresHold, ConsumerOn, Entry, NewSource, OnItsWay, OpenIsDue, Due, Tx

LEMMA KeptStands ==
    ASSUME NEW e, Kept(e),
           Judged(e.tx) => Judged(e.tx)',
           pc'[e.tx] = pc[e.tx], win'[e.tx] = win[e.tx],
           windows'[e.tx] = windows[e.tx], rwin'[e.tx] = rwin[e.tx],
           e.source \in sources[e.tx] => e.source \in sources'[e.tx],
           ConsumerOn(e.tx)' /\ pc'[Consumer] \in Copying =>
              \/ win'[Consumer][e.source] = e
              \/ ConsumerOn(e.tx) /\ pc[Consumer] \in Copying /\ win'[Consumer] = win[Consumer]
    PROVE  Kept(e)'
  BY DEF Kept, Judged, TaskHolds, StoresHold

\* A step of the consumer that works on its event.
LEMMA ConsumerStep ==
    ASSUME IInv, RaceInv, pc[Consumer] \notin {"idle", "claim", "ack"},
           UNCHANGED <<log, cur, acked, dedup, claimed, status, tscan, tpopped, crashes>>,
           faults \in Nat, faults' \in Nat, faults <= faults',
           \A tx \in Txs : pc'[tx] = pc[tx] /\ win'[tx] = win[tx],
           \A tx \in Txs \ {Entry.tx} : /\ windows'[tx] = windows[tx] /\ rwin'[tx] = rwin[tx]
                                       /\ sources'[tx] = sources[tx],
           deadlines \subseteq deadlines',
           pc'[Consumer] \in Cleaning => Judged(Entry.tx),
           Undisturbed =>
             /\ \A e \in EventsOf(Entry.tx, claimed) : InHand(e)' \/ Kept(e)'
             /\ NewSource' /\ OnItsWay' /\ OpenIsDue(Entry.tx)'
    PROVE  RaceInv'
<1>1. Entry' = Entry /\ Entry.tx \in Txs
  BY EntryFacts DEF Entry
<1>2. \A p \in Procs : Tx(p)' = Tx(p)
  BY ProcFacts DEF Tx, Entry
<1>3. TimerOnce'
  BY Shapes DEF RaceInv, TimerOnce
<1>4. CleansJudged'
  BY <1>2, ProcFacts DEF RaceInv, CleansJudged, Judged
<1>5. AckedIsKnown'
  BY <1>1, EntryFacts, Shapes DEF RaceInv, AckedIsKnown
<1>6. Undisturbed' => Undisturbed
  BY DEF Undisturbed
<1>7. ASSUME Undisturbed', NEW e \in claimed, e.tx # Entry.tx
      PROVE  Kept(e)'
  <2>1. e.tx \in Txs
    BY ClaimedFacts
  <2>2. Kept(e)
    BY <1>6, <1>7 DEF RaceInv, InHand
  <2>. QED  BY <1>1, <1>7, <2>1, <2>2, KeptStands DEF Judged, ConsumerOn
<1>8. ASSUME Undisturbed', NEW tx \in Txs, tx # Entry.tx
      PROVE  OpenIsDue(tx)'
  <2>1. OpenIsDue(tx)
    BY <1>6, <1>8 DEF RaceInv
  <2>. QED  BY <1>1, <1>8, <2>1 DEF OpenIsDue, Judged, Due, ConsumerOn
<1>9. Undisturbed' => \A e \in claimed' : InHand(e)' \/ Kept(e)'
  BY <1>6, <1>7 DEF EventsOf
<1>10. Undisturbed' => \A tx \in Txs : OpenIsDue(tx)'
  BY <1>1, <1>6, <1>8
<1>. QED  BY <1>3, <1>4, <1>5, <1>6, <1>9, <1>10 DEF RaceInv

-----------------------------------------------------------------------------
(* The consumer's loop.                                                    *)

LEMMA NextEntryRace == ASSUME IInv, RaceInv, NextEntry PROVE RaceInv'
<1>1. /\ pc[Consumer] = "idle" /\ pc'[Consumer] \in {"claim", "ack"}
      /\ \A p \in Procs \ {Consumer} : pc'[p] = pc[p]
      /\ UNCHANGED <<log, acked, win, windows, dedup, claimed, sources, rwin, deadlines, tscan,
                     tpopped, status, faults, crashes>>
      /\ pc'[Consumer] = "ack" => Entry' = Malformed
  BY Shapes, ProcFacts
  DEF NextEntry, Goto, FirstCall, Entry, redisVars, timerVars, pgVars, budgetVars
<1>2. \A tx \in Txs : pc'[tx] = pc[tx] /\ ~ConsumerOn(tx) /\ ~ConsumerOn(tx)'
  BY <1>1, ProcFacts DEF ConsumerOn
<1>3. \A p \in Procs : p # Consumer => Tx(p)' = Tx(p)
  BY ProcFacts DEF Tx
<1>4. TimerOnce' /\ CleansJudged' /\ AckedIsKnown'
  BY <1>1, <1>2, <1>3, Shapes
  DEF RaceInv, TimerOnce, CleansJudged, AckedIsKnown, Cleaning
<1>5. ASSUME Undisturbed, NEW e \in claimed
      PROVE  Kept(e)'
  BY <1>1, <1>2, <1>5, ClaimedFacts, KeptStands DEF RaceInv, InHand, Judged
<1>6. NewSource' /\ OnItsWay'
  BY <1>1 DEF NewSource, OnItsWay, Copying
<1>7. ASSUME Undisturbed, NEW tx \in Txs
      PROVE  OpenIsDue(tx)'
  BY <1>1, <1>2, <1>7 DEF RaceInv, OpenIsDue, Judged, Due
<1>. QED  BY <1>1, <1>4, <1>5, <1>6, <1>7 DEF RaceInv, Undisturbed

LEMMA AckRace == ASSUME IInv, RaceInv, Ack PROVE RaceInv'
<1>1. /\ pc[Consumer] = "ack" /\ pc'[Consumer] = "idle"
      /\ \A p \in Procs \ {Consumer} : pc'[p] = pc[p] /\ win'[p] = win[p]
      /\ UNCHANGED <<log, cur, windows, dedup, claimed, sources, rwin, deadlines, tscan,
                     tpopped, status, faults, crashes>>
      /\ acked' = acked \cup {cur}
  BY Shapes, ProcFacts DEF Ack, Return, redisVars, timerVars, pgVars, budgetVars
<1>2. \A tx \in Txs : pc'[tx] = pc[tx] /\ win'[tx] = win[tx]
                     /\ ~ConsumerOn(tx) /\ ~ConsumerOn(tx)'
  BY <1>1, ProcFacts DEF ConsumerOn
<1>3. \A p \in Procs : p # Consumer => Tx(p)' = Tx(p)
  BY ProcFacts DEF Tx
<1>4. TimerOnce' /\ CleansJudged'
  BY <1>1, <1>2, <1>3, Shapes DEF RaceInv, TimerOnce, CleansJudged, Cleaning
<1>5. AckedIsKnown'
  BY <1>1 DEF RaceInv, AckedIsKnown, Entry
<1>6. ASSUME Undisturbed, NEW e \in claimed
      PROVE  Kept(e)'
  BY <1>1, <1>2, <1>6, ClaimedFacts, KeptStands DEF RaceInv, InHand, Judged
<1>7. NewSource' /\ OnItsWay'
  BY <1>1 DEF NewSource, OnItsWay, Copying
<1>8. ASSUME Undisturbed, NEW tx \in Txs
      PROVE  OpenIsDue(tx)'
  BY <1>1, <1>2, <1>8 DEF RaceInv, OpenIsDue, Judged, Due
<1>. QED  BY <1>1, <1>4, <1>5, <1>6, <1>7, <1>8 DEF RaceInv, Undisturbed

\* SETNX accepts an event under a new id: it is none of those that are through.
LEMMA ClaimRace == ASSUME IInv, RaceInv, Claim PROVE RaceInv'
<1>1. /\ pc[Consumer] = "claim" /\ pc'[Consumer] \in {"ack", "register"}
      /\ \A p \in Procs \ {Consumer} : pc'[p] = pc[p]
      /\ UNCHANGED <<log, cur, acked, win, windows, sources, rwin, deadlines, tscan,
                     tpopped, status, faults, crashes>>
      /\ Entry' = Entry /\ Entry \in Events
  BY Shapes, ProcFacts, EntryFacts
  DEF Claim, Goto, Entry, streamVars, timerVars, pgVars, budgetVars
<1>2. /\ pc'[Consumer] = "ack" => Entry.id \in dedup /\ UNCHANGED <<dedup, claimed>>
      /\ pc'[Consumer] = "register" => /\ Entry.id \notin dedup /\ dedup \subseteq dedup'
                                       /\ claimed' = claimed \cup {Entry}
  BY Shapes, ProcFacts DEF Claim, Goto, AlreadyClaimed
<1>3. \A tx \in Txs : pc'[tx] = pc[tx] /\ ~ConsumerOn(tx)
                     /\ (ConsumerOn(tx)' => tx = Entry.tx /\ pc'[Consumer] = "register")
  BY <1>1, ProcFacts DEF ConsumerOn
<1>4. TimerOnce' /\ CleansJudged'
  BY <1>1, <1>3, Shapes, ProcFacts DEF RaceInv, TimerOnce, CleansJudged, Cleaning, Tx
<1>5. AckedIsKnown'
  BY <1>1, <1>2 DEF RaceInv, AckedIsKnown
<1>6. ASSUME Undisturbed, NEW e \in claimed
      PROVE  Kept(e)'
  BY <1>1, <1>3, <1>6, ClaimedFacts, KeptStands DEF RaceInv, InHand, Judged, Copying
<1>7. pc'[Consumer] = "register" => InHand(Entry)'
  BY <1>1 DEF InHand, ConsumerOn
<1>8. NewSource' /\ OnItsWay'
  BY <1>1 DEF NewSource, OnItsWay, Copying
<1>9. ASSUME Undisturbed, NEW tx \in Txs
      PROVE  OpenIsDue(tx)'
  BY <1>1, <1>3, <1>9 DEF RaceInv, OpenIsDue, Judged, Due, Copying
<1>10. Undisturbed' => \A e \in claimed' : InHand(e)' \/ Kept(e)'
  BY <1>1, <1>2, <1>6, <1>7 DEF Undisturbed
<1>. QED  BY <1>1, <1>4, <1>5, <1>8, <1>9, <1>10 DEF RaceInv, Undisturbed

-----------------------------------------------------------------------------
(* handle_event.                                                           *)

\* A source that was not registered has no event in the stores.
LEMMA RegisterRace == ASSUME IInv, RaceInv, Register PROVE RaceInv'
<1>. DEFINE tx == Entry.tx
<1>1. /\ pc[Consumer] = "register" /\ pc'[Consumer] \in {"open", "upsert"}
      /\ \A q \in Txs : pc'[q] = pc[q] /\ win'[q] = win[q]
      /\ UNCHANGED <<log, cur, acked, dedup, claimed, windows, rwin, deadlines, status, tscan,
                     tpopped, faults, crashes>>
      /\ Entry' = Entry /\ tx \in Txs /\ Entry \in claimed /\ Entry.source \in Source
      /\ sources' = [sources EXCEPT ![tx] = @ \cup {Entry.source}]
      /\ pc'[Consumer] = "open" => ~AlreadyRegistered
  BY Shapes, ProcFacts, EntryFacts
  DEF Register, Goto, Entry, streamVars, timerVars, pgVars, budgetVars
<1>2. ConsumerOn(tx) /\ ConsumerOn(tx)'
  BY <1>1 DEF ConsumerOn
<1>3. ASSUME Undisturbed, NEW e \in EventsOf(tx, claimed), e # Entry
      PROVE  Kept(e) /\ Kept(e)'
  <2>1. Kept(e) /\ e.tx = tx /\ e \in claimed
    BY <1>3 DEF RaceInv, InHand, EventsOf
  <2>2. e.source \in sources[tx] => e.source \in sources'[tx]
    BY <1>1, Shapes
  <2>. QED  BY <1>1, <2>1, <2>2, KeptStands DEF Judged, Copying
<1>4. InHand(Entry)'
  BY <1>1, <1>2 DEF InHand
<1>5. Undisturbed => NewSource'
  <2>. SUFFICES ASSUME Undisturbed, pc'[Consumer] = "open", NEW e \in EventsOf(tx, claimed),
                       e # Entry, e.source = Entry.source
                PROVE  (Judged(e.tx) \/ TaskHolds(e))'
    BY <1>1 DEF NewSource
  <2>1. Kept(e) /\ e.tx = tx /\ ~StoresHold(e)
    BY <1>1, <1>3 DEF StoresHold, AlreadyRegistered, EventsOf
  <2>. QED  BY <1>1, <2>1 DEF Kept, Judged, TaskHolds
<1>6. Undisturbed => OnItsWay'
  BY <1>1, Shapes DEF OnItsWay, Copying
<1>7. Undisturbed => OpenIsDue(tx)'
  BY <1>1, <1>2 DEF RaceInv, OpenIsDue, Judged, Due, Copying, ConsumerOn
<1>8. faults \in Nat
  BY DEF IInv, TypeOK
<1>9. \A q \in Txs \ {tx} : sources'[q] = sources[q]
  BY <1>1, Shapes
<1>. QED  BY <1>1, <1>3, <1>4, <1>5, <1>6, <1>7, <1>8, <1>9, ConsumerStep DEF Cleaning

LEMMA InsertEventFacts ==
    ASSUME NEW w \in Slots(Events), NEW e \in Events
    PROVE  /\ InsertEvent(w, e)[e.source] = e
           /\ \A s \in Source \ {e.source} : InsertEvent(w, e)[s] = w[s]
           /\ InsertEvent(w, e) \in Slots(Events)
  BY EventFields DEF InsertEvent, Slots

LEMMA OpenWindowRace == ASSUME IInv, RaceInv, OpenWindow PROVE RaceInv'
<1>. DEFINE tx == Entry.tx
            w == IF windows[tx] = NoWindow THEN EmptyWindow ELSE windows[tx]
            W == InsertEvent(w, Entry)
<1>1. /\ pc[Consumer] = "open" /\ tx \in Txs
      /\ Entry \in Events /\ Entry \in claimed /\ Entry.source \in Source
  BY EntryFacts DEF OpenWindow
<1>2. /\ w \in Slots(Events) /\ w # NoWindow /\ W[Entry.source] = Entry
      /\ \A s \in Source \ {Entry.source} : W[s] = w[s]
  <2>1. w \in Slots(Events)
    BY <1>1, Shapes, EmptyWindowFacts
  <2>. HIDE DEF w
  <2>. QED  BY <1>1, <2>1, InsertEventFacts, WindowsAreNotNoWindow
<1>3. windows[tx] # NoWindow => w = windows[tx]
  OBVIOUS
<1>4. windows[tx] = NoWindow => w = EmptyWindow
  OBVIOUS
<1>5. /\ windows' = [windows EXCEPT ![tx] = w]
      /\ win' = [win EXCEPT ![Consumer] = W]
      /\ pc' = [pc EXCEPT ![Consumer] = IF w = EmptyWindow THEN "deadline" ELSE "store"]
      /\ UNCHANGED <<log, cur, acked, dedup, claimed, sources, rwin, deadlines, status, tscan,
                     tpopped, faults, crashes>>
      /\ Entry' = Entry
  BY DEF OpenWindow, Goto, Entry, streamVars, redisVars, timerVars, pgVars, budgetVars
<1>. HIDE DEF w, W
<1>6. /\ pc'[Consumer] = IF w = EmptyWindow THEN "deadline" ELSE "store"
      /\ win'[Consumer] = W /\ windows'[tx] = w
      /\ \A q \in Txs : pc'[q] = pc[q] /\ win'[q] = win[q]
      /\ \A q \in Txs \ {tx} : windows'[q] = windows[q]
  BY <1>1, <1>5, Shapes, ProcFacts
<1>7. ConsumerOn(tx) /\ ConsumerOn(tx)'
  BY <1>1, <1>5, <1>6 DEF ConsumerOn
<1>8. InHand(Entry)'
  BY <1>5, <1>6, <1>7 DEF InHand
<1>9. ASSUME Undisturbed, NEW e \in EventsOf(tx, claimed), e # Entry
      PROVE  Kept(e)'
  <2>1. Kept(e) /\ e.tx = tx /\ e \in claimed /\ e.source \in Source
    BY <1>9, ClaimedFacts DEF RaceInv, InHand, EventsOf
  <2>2. CASE Judged(tx) \/ TaskHolds(e)
    BY <1>1, <1>5, <1>6, <2>1, <2>2 DEF Kept, Judged, TaskHolds
  <2>3. CASE StoresHold(e) /\ e.source # Entry.source
    BY <1>2, <1>3, <1>5, <1>6, <2>1, <2>3 DEF Kept, StoresHold
  <2>4. StoresHold(e) /\ e.source = Entry.source => Judged(tx) \/ TaskHolds(e)
    BY <1>1, <1>9, <2>1 DEF RaceInv, NewSource
  <2>. QED  BY <2>1, <2>2, <2>3, <2>4 DEF Kept
<1>10. Undisturbed => OnItsWay' /\ NewSource'
  BY <1>1, <1>2, <1>5, <1>6 DEF RaceInv, OnItsWay, NewSource, Judged
<1>11. Undisturbed => OpenIsDue(tx)'
  <2>. SUFFICES ASSUME Undisturbed PROVE OpenIsDue(tx)'
    OBVIOUS
  <2>1. OpenIsDue(tx)
    BY <1>1 DEF RaceInv
  <2>. QED  BY <1>1, <1>2, <1>4, <1>5, <1>6, <1>7, <2>1 DEF OpenIsDue, Judged, Due
<1>12. faults \in Nat
  BY DEF IInv, TypeOK
<1>. QED  BY <1>1, <1>5, <1>6, <1>8, <1>9, <1>10, <1>11, <1>12, ConsumerStep DEF Cleaning

LEMMA AddDeadlineRace == ASSUME IInv, RaceInv, AddDeadline PROVE RaceInv'
<1>. DEFINE tx == Entry.tx
<1>1. /\ pc[Consumer] = "deadline" /\ pc'[Consumer] = "store" /\ tx \in Txs
      /\ Entry \in claimed /\ Entry' = Entry /\ deadlines' = deadlines \cup {tx}
      /\ \A q \in Txs : pc'[q] = pc[q]
      /\ UNCHANGED <<log, cur, acked, win, windows, dedup, claimed, sources, rwin, status, tscan,
                     tpopped, faults, crashes>>
  BY Shapes, ProcFacts, EntryFacts
  DEF AddDeadline, Goto, Entry, streamVars, timerVars, pgVars, budgetVars
<1>2. ConsumerOn(tx) /\ ConsumerOn(tx)' /\ InHand(Entry)'
  BY <1>1 DEF ConsumerOn, InHand
<1>3. ASSUME Undisturbed, NEW e \in EventsOf(tx, claimed), e # Entry
      PROVE  Kept(e)'
  <2>1. Kept(e) /\ e.tx = tx
    BY <1>3 DEF RaceInv, InHand, EventsOf
  <2>. QED  BY <1>1, <1>2, <2>1, KeptStands DEF Judged, Copying
<1>4. Undisturbed => OnItsWay' /\ NewSource' /\ OpenIsDue(tx)'
  BY <1>1, <1>2 DEF RaceInv, OnItsWay, NewSource, Judged, Copying, OpenIsDue, Due
<1>5. faults \in Nat
  BY DEF IInv, TypeOK
<1>. QED  BY <1>1, <1>2, <1>3, <1>4, <1>5, ConsumerStep DEF Cleaning

LEMMA StoreWindowRace == ASSUME IInv, RaceInv, StoreWindow PROVE RaceInv'
<1>. DEFINE tx == Entry.tx
<1>1. /\ \/ pc[Consumer] = "store" /\ pc'[Consumer] = "save"
         \/ pc[Consumer] = "restore" /\ pc'[Consumer] = "resave"
      /\ tx \in Txs /\ Entry \in claimed /\ Entry' = Entry
      /\ windows'[tx] = win[Consumer] /\ win[Consumer] # NoWindow
      /\ \A q \in Txs : pc'[q] = pc[q]
      /\ \A q \in Txs \ {tx} : windows'[q] = windows[q]
      /\ UNCHANGED <<log, cur, acked, win, dedup, claimed, sources, rwin, deadlines, status, tscan,
                     tpopped, faults, crashes>>
  BY Shapes, ProcFacts, EntryFacts, WindowsAreNotNoWindow
  DEF StoreWindow, Goto, Entry, streamVars, redisVars, timerVars, pgVars, budgetVars
<1>2. ConsumerOn(tx) /\ ConsumerOn(tx)' /\ InHand(Entry)' /\ pc[Consumer] \in Copying
  BY <1>1 DEF ConsumerOn, InHand, Copying
<1>3. ASSUME Undisturbed, NEW e \in EventsOf(tx, claimed), e # Entry
      PROVE  Kept(e)'
  <2>1. Kept(e) /\ e.tx = tx
    BY <1>3 DEF RaceInv, InHand, EventsOf
  <2>. QED  BY <1>1, <1>2, <2>1 DEF Kept, Judged, TaskHolds, StoresHold
<1>4. Undisturbed => OnItsWay' /\ NewSource' /\ OpenIsDue(tx)'
  BY <1>1, <1>2 DEF RaceInv, OnItsWay, NewSource, Judged, Copying, OpenIsDue, Due
<1>5. faults \in Nat
  BY DEF IInv, TypeOK
<1>. QED  BY <1>1, <1>2, <1>3, <1>4, <1>5, ConsumerStep DEF Cleaning

LEMMA SaveWindowRace == ASSUME IInv, RaceInv, SaveWindow PROVE RaceInv'
<1>. DEFINE tx == Entry.tx
<1>1. /\ \/ pc[Consumer] = "save" /\ pc'[Consumer] \in {"upsert", "restore"}
         \/ pc[Consumer] = "resave" /\ pc'[Consumer] = "tally"
      /\ tx \in Txs /\ Entry \in claimed /\ Entry' = Entry
      /\ rwin'[tx] = win[Consumer] /\ win[Consumer] # NoWindow
      /\ \A q \in Txs : pc'[q] = pc[q]
      /\ \A q \in Txs \ {tx} : rwin'[q] = rwin[q]
      /\ UNCHANGED <<log, cur, acked, win, dedup, claimed, sources, windows, deadlines, status, tscan,
                     tpopped, faults, crashes>>
  BY Shapes, ProcFacts, EntryFacts, WindowsAreNotNoWindow
  DEF SaveWindow, Finalize, Goto, Entry, streamVars, redisVars, timerVars, pgVars, budgetVars
<1>2. ConsumerOn(tx) /\ ConsumerOn(tx)' /\ pc[Consumer] \in Copying
  BY <1>1 DEF ConsumerOn, Copying
<1>3. ASSUME Undisturbed, NEW e \in EventsOf(tx, claimed), e # Entry
      PROVE  Kept(e)'
  <2>1. Kept(e) /\ e.tx = tx
    BY <1>3 DEF RaceInv, InHand, EventsOf
  <2>. QED  BY <1>1, <1>2, <2>1 DEF Kept, Judged, TaskHolds, StoresHold
<1>4. Undisturbed => InHand(Entry)' \/ Kept(Entry)'
  <2>1. CASE pc[Consumer] = "save"
    BY <1>1, <1>2, <2>1 DEF InHand
  <2>2. CASE pc[Consumer] = "resave"
    BY <1>1, <1>2, <2>2 DEF RaceInv, OnItsWay, Copying, Kept, Judged, TaskHolds, StoresHold
  <2>. QED  BY <1>1, <2>1, <2>2
<1>5. Undisturbed => OnItsWay' /\ NewSource' /\ OpenIsDue(tx)'
  BY <1>1, <1>2 DEF RaceInv, OnItsWay, NewSource, Judged, Copying, OpenIsDue, Due
<1>6. faults \in Nat
  BY DEF IInv, TypeOK
<1>. QED  BY <1>1, <1>2, <1>3, <1>4, <1>5, <1>6, ConsumerStep DEF Cleaning

LEMMA TallyRace == ASSUME IInv, RaceInv, Tally PROVE RaceInv'
<1>. DEFINE tx == Entry.tx
<1>1. /\ pc[Consumer] = "tally" /\ pc'[Consumer] = "ack"
      /\ tx \in Txs /\ Entry \in claimed /\ Entry' = Entry
      /\ \A q \in Txs : pc'[q] = pc[q]
      /\ UNCHANGED <<log, cur, acked, win, dedup, claimed, sources, rwin, windows, deadlines, status,
                     tscan, tpopped, crashes>>
      /\ faults \in Nat /\ faults' \in {faults, faults + 1}
  BY Shapes, ProcFacts, EntryFacts
  DEF Tally, Count, Goto, Entry, streamVars, timerVars, pgVars, IInv, TypeOK
<1>2. ConsumerOn(tx) /\ ~ConsumerOn(tx)'
  BY <1>1 DEF ConsumerOn
<1>3. ASSUME Undisturbed, NEW e \in EventsOf(tx, claimed)
      PROVE  Kept(e)'
  <2>1. Kept(e) /\ e.tx = tx
    BY <1>1, <1>3 DEF RaceInv, InHand, EventsOf
  <2>. QED  BY <1>1, <1>2, <2>1, KeptStands DEF Judged
<1>4. Undisturbed => OnItsWay' /\ NewSource' /\ OpenIsDue(tx)'
  BY <1>1, <1>2 DEF RaceInv, OnItsWay, NewSource, Judged, Copying, OpenIsDue, Due
<1>. QED  BY <1>1, <1>2, <1>3, <1>4, ConsumerStep DEF Cleaning

-----------------------------------------------------------------------------
(* Writing a decision.                                                     *)

Stepping == Reporting \cup Cleaning

\* What every step of a decision has in common: it works on one transaction,
\* which has its status afterwards.
Concluding(p) ==
    /\ pc[p] \in Stepping /\ Tx(p) \in Txs /\ Tx(p)' = Tx(p) /\ Entry' = Entry
    /\ pc'[p] \in Stepping \cup {"tally"} \/ (p # Consumer /\ pc'[p] = "idle")
    /\ \A q \in Procs \ {p} : pc'[q] = pc[q] /\ win'[q] = win[q]
    /\ Judged(Tx(p))'
    /\ \A q \in Txs \ {Tx(p)} : /\ status'[q] = status[q] /\ sources'[q] = sources[q]
                               /\ windows'[q] = windows[q] /\ rwin'[q] = rwin[q]
    /\ deadlines' \in {deadlines, deadlines \ {Tx(p)}}
    /\ UNCHANGED <<log, cur, acked, dedup, claimed, tscan, tpopped, crashes, stranded>>
    /\ faults \in Nat /\ faults' \in {faults, faults + 1}

LEMMA Concludes ==
    ASSUME IInv, RaceInv, NEW p \in Procs, Conclude(p)
    PROVE  Concluding(p)
<1>1. /\ pc[p] \in Stepping
      /\ UNCHANGED <<log, cur, acked, dedup, claimed, tscan, tpopped, crashes, stranded>>
  BY DEF Conclude, UpsertTransaction, UpsertDetail, RecordMatchResult, CreateIncident,
     AddEscalation, ForgetWindow, DeleteWindow, RemoveDeadline, CleanupSources, Stepping,
     Reporting, Cleaning, streamVars, redisVars, timerVars, budgetVars
<1>2. Tx(p) \in Txs /\ Tx(p)' = Tx(p) /\ Entry' = Entry
  BY <1>1, TxTyped DEF Stepping, Reporting, Cleaning, Tx, Entry
<1>3. faults \in Nat /\ faults' \in {faults, faults + 1}
  BY DEF IInv, TypeOK, Conclude, UpsertTransaction, UpsertDetail, RecordMatchResult, Count,
     CreateIncident, AddEscalation, ForgetWindow, DeleteWindow, RemoveDeadline, CleanupSources,
     budgetVars
<1>4. deadlines' \in {deadlines, deadlines \ {Tx(p)}}
  BY DEF Conclude, UpsertTransaction, UpsertDetail, RecordMatchResult, CreateIncident,
     AddEscalation, ForgetWindow, DeleteWindow, RemoveDeadline, CleanupSources, redisVars
<1>5. /\ status' = status \/ (pc[p] = "upsert" /\ status' = [status EXCEPT ![Tx(p)] = outcome[p]])
      /\ sources' = sources \/ sources' = [sources EXCEPT ![Tx(p)] = {}]
      /\ windows' = windows \/ windows' = [windows EXCEPT ![Tx(p)] = NoWindow]
      /\ rwin' = rwin \/ rwin' = [rwin EXCEPT ![Tx(p)] = NoWindow]
      /\ pc[p] = "upsert" => status' = [status EXCEPT ![Tx(p)] = outcome[p]]
  BY DEF Conclude, UpsertTransaction, UpsertDetail, RecordMatchResult, CreateIncident,
     AddEscalation, ForgetWindow, DeleteWindow, RemoveDeadline, CleanupSources, redisVars, pgVars
<1>6. /\ \A q \in Txs \ {Tx(p)} : /\ status'[q] = status[q] /\ sources'[q] = sources[q]
                                 /\ windows'[q] = windows[q] /\ rwin'[q] = rwin[q]
      /\ pc[p] = "upsert" => status'[Tx(p)] = outcome[p]
      /\ pc[p] # "upsert" => status'[Tx(p)] = status[Tx(p)]
  BY <1>2, <1>5, Shapes
<1>7. Judged(Tx(p))'
  <2>1. Sound(p) /\ (pc[p] \in Cleaning => status[Tx(p)] # "none")
    BY DEF IInv, RaceInv, CleansJudged
  <2>2. CASE pc[p] = "upsert"
    BY <1>2, <1>6, <2>1, <2>2 DEF Sound, DecisionJustified, Judged
  <2>3. CASE pc[p] # "upsert"
    BY <1>1, <1>2, <1>6, <2>1, <2>3 DEF Sound, WriteOrdered, Judged, Stepping
  <2>. QED  BY <2>2, <2>3
<1>8. \E step \in Stepping \cup {"tally", "idle"} :
         /\ pc' = [pc EXCEPT ![p] = step]
         /\ step = "idle" => p # Consumer
  BY AfterFacts DEF Conclude, UpsertTransaction, UpsertDetail, RecordMatchResult, CreateIncident,
     AddEscalation, ForgetWindow, DeleteWindow, RemoveDeadline, CleanupSources, Goto, Return,
     Stepping, Reporting, Cleaning, AfterIncidents
<1>9. win' = win \/ win' = [win EXCEPT ![p] = EmptyWindow]
  BY DEF Conclude, UpsertTransaction, UpsertDetail, RecordMatchResult, CreateIncident,
     AddEscalation, ForgetWindow, DeleteWindow, RemoveDeadline, CleanupSources, Return
<1>. QED
  BY <1>1, <1>2, <1>3, <1>4, <1>6, <1>7, <1>8, <1>9, Shapes DEF Concluding

LEMMA ConcludeRace ==
    ASSUME IInv, RaceInv, NEW p \in Procs, Conclude(p)
    PROVE  RaceInv'
<1>. DEFINE tx == Tx(p)
<1>1. Concluding(p)
  BY Concludes
<1>2. /\ pc[p] \in Stepping /\ pc[p] \notin {"idle", "claim", "ack", "open"} \cup Copying
      /\ p = Consumer => pc'[p] \in Stepping \cup {"tally"}
      /\ tx \in Txs /\ p # Consumer => p = tx
      /\ p = Consumer => tx = Entry.tx
  BY <1>1, ProcFacts DEF Concluding, Stepping, Reporting, Cleaning, Copying, Tx
<1>3. \A q \in Procs \ {p} : pc'[q] = pc[q] /\ win'[q] = win[q] /\ Tx(q)' = Tx(q)
  BY <1>1, ProcFacts DEF Concluding, Tx
<1>4. \A q \in Txs \ {tx} : /\ pc'[q] = pc[q] /\ win'[q] = win[q]
                            /\ status'[q] = status[q] /\ sources'[q] = sources[q]
                            /\ windows'[q] = windows[q] /\ rwin'[q] = rwin[q]
                            /\ (q \in deadlines => q \in deadlines')
  BY <1>1, <1>2, ProcFacts DEF Concluding
<1>5. /\ Judged(tx)' /\ Entry' = Entry
      /\ UNCHANGED <<log, cur, acked, dedup, claimed, tscan, tpopped, crashes>>
      /\ Undisturbed' => Undisturbed
  BY <1>1 DEF Concluding, Undisturbed
<1>6. TimerOnce'
  BY <1>2, <1>3, <1>5, Shapes, ProcFacts DEF RaceInv, TimerOnce
<1>7. CleansJudged'
  <2>. SUFFICES ASSUME NEW q \in Procs, pc'[q] \in Cleaning
                PROVE  status'[Tx(q)'] # "none"
    BY DEF CleansJudged
  <2>1. CASE q = p
    BY <1>1, <1>5, <2>1 DEF Judged, Concluding
  <2>2. CASE q # p
    <3>1. pc[q] \in Cleaning /\ status[Tx(q)] # "none" /\ Tx(q) \in Txs
      BY <1>3, <2>2, TxTyped DEF RaceInv, CleansJudged, Cleaning
    <3>2. Tx(q)' = Tx(q)
      BY <1>3, <2>2
    <3>3. Tx(q) # tx => status'[Tx(q)] = status[Tx(q)]
      BY <1>4, <3>1
    <3>4. status'[tx] # "none"
      BY <1>1, <1>5 DEF Judged, Concluding
    <3>. QED  BY <3>1, <3>2, <3>3, <3>4
  <2>. QED  BY <2>1, <2>2
<1>8. AckedIsKnown'
  BY <1>2, <1>3, <1>5, ProcFacts DEF RaceInv, AckedIsKnown, Stepping, Reporting, Cleaning
<1>9. p # Consumer => pc'[Consumer] = pc[Consumer] /\ win'[Consumer] = win[Consumer]
  BY <1>3, ProcFacts
<1>10. p = Consumer => pc'[Consumer] \notin {"open"} \cup Copying
  BY <1>2 DEF Stepping, Reporting, Cleaning, Copying
<1>11. ASSUME Undisturbed, NEW e \in claimed
       PROVE  InHand(e)' \/ Kept(e)'
  <2>1. e.tx \in Txs
    BY ClaimedFacts
  <2>2. CASE e.tx = tx
    BY <1>1, <1>5, <2>2 DEF Kept, Judged, Concluding
  <2>3. CASE e.tx # tx /\ InHand(e)
    BY <1>2, <1>5, <1>9, <2>3 DEF InHand, ConsumerOn
  <2>4. CASE e.tx # tx /\ Kept(e)
    BY <1>4, <1>5, <1>9, <1>10, <2>1, <2>4, KeptStands DEF Judged, ConsumerOn
  <2>. QED  BY <1>11, <2>2, <2>3, <2>4 DEF RaceInv
<1>12. ASSUME Undisturbed, NEW e, e.tx \in Txs, Judged(e.tx) \/ TaskHolds(e)
       PROVE  (Judged(e.tx) \/ TaskHolds(e))'
  <2>1. e.tx = tx => status'[e.tx] # "none"
    BY <1>1, <1>5 DEF Judged, Concluding
  <2>. QED  BY <1>4, <1>12, <2>1 DEF Judged, TaskHolds
<1>13. Undisturbed => NewSource'
  <2>. SUFFICES ASSUME Undisturbed, pc'[Consumer] = "open", NEW e \in EventsOf(Entry.tx, claimed),
                       e # Entry, e.source = Entry.source
                PROVE  (Judged(e.tx) \/ TaskHolds(e))'
    BY <1>5 DEF NewSource
  <2>1. e \in claimed /\ e.tx \in Txs
    BY ClaimedFacts DEF EventsOf
  <2>2. Judged(e.tx) \/ TaskHolds(e)
    BY <1>9, <1>10 DEF RaceInv, NewSource
  <2>. QED  BY <1>12, <2>1, <2>2
<1>14. Undisturbed => OnItsWay'
  <2>. SUFFICES ASSUME Undisturbed, pc'[Consumer] \in {"open"} \cup Copying
                PROVE  OnItsWay'
    BY DEF OnItsWay, Copying
  <2>1. p # Consumer /\ pc'[Consumer] = pc[Consumer] /\ win'[Consumer] = win[Consumer]
    BY <1>9, <1>10
  <2>2. OnItsWay /\ Entry.tx \in Txs
    BY <2>1, EntryFacts DEF RaceInv, Copying
  <2>3. CASE Entry.tx = tx
    BY <1>1, <1>5, <2>1, <2>2, <2>3 DEF OnItsWay, Judged, Concluding
  <2>4. CASE Entry.tx # tx
    BY <1>4, <1>5, <2>1, <2>2, <2>4 DEF OnItsWay, Judged, TaskHolds
  <2>. QED  BY <2>3, <2>4
<1>15. ASSUME Undisturbed, NEW q \in Txs
       PROVE  OpenIsDue(q)'
  <2>1. CASE q = tx
    BY <1>1, <1>5, <2>1 DEF OpenIsDue, Judged, Concluding
  <2>2. CASE q # tx
    BY <1>4, <1>5, <1>9, <1>10, <1>15, <2>2, <1>2
    DEF RaceInv, OpenIsDue, Judged, Due, ConsumerOn, Copying
  <2>. QED  BY <2>1, <2>2
<1>16. Undisturbed' => (\A e \in claimed' : InHand(e)' \/ Kept(e)') /\ NewSource' /\ OnItsWay'
                       /\ \A q \in Txs : OpenIsDue(q)'
  BY <1>5, <1>11, <1>13, <1>14, <1>15
<1>. QED  BY <1>6, <1>7, <1>8, <1>16 DEF RaceInv

-----------------------------------------------------------------------------
(* The timer.                                                              *)

\* A step of the timer that starts no task.
LEMMA TimerStep ==
    ASSUME RaceInv, TimerOnce',
           UNCHANGED <<log, cur, acked, pc, win, windows, dedup, claimed, sources, rwin,
                       status, faults, crashes>>,
           \A tx \in Txs : Due(tx) => Due(tx)'
    PROVE  RaceInv'
<1>1. \A tx \in Txs : Undisturbed /\ OpenIsDue(tx) => OpenIsDue(tx)'
  BY DEF OpenIsDue, Judged, ConsumerOn, Entry
<1>2. CleansJudged' /\ AckedIsKnown'
  BY DEF RaceInv, CleansJudged, AckedIsKnown, Entry, Tx
<1>3. Undisturbed => (\A e \in claimed : InHand(e)' \/ Kept(e)') /\ NewSource' /\ OnItsWay'
  BY DEF RaceInv, InHand, Kept, Judged, TaskHolds, StoresHold, ConsumerOn, Entry,
     NewSource, OnItsWay
<1>. QED  BY <1>1, <1>2, <1>3 DEF RaceInv, Undisturbed

LEMMA ScanRace == ASSUME IInv, RaceInv, NEW due \in SUBSET Txs, Scan(due) PROVE RaceInv'
<1>1. TimerOnce'
  BY DEF Scan, Running, TimerOnce, procVars
<1>. QED
  BY <1>1, TimerStep DEF Scan, Due, streamVars, procVars, redisVars, pgVars, budgetVars

LEMMA PopRace == ASSUME IInv, RaceInv, NEW tx \in Txs, Pop(tx) PROVE RaceInv'
<1>1. TimerOnce'
  BY DEF RaceInv, Pop, TimerOnce, procVars
<1>2. \A q \in Txs : Due(q) => Due(q)'
  BY DEF Pop, Due
<1>. QED
  BY <1>1, <1>2, TimerStep DEF Pop, streamVars, procVars, pgVars, budgetVars

\* A step of the task of tx, or its start: the stores of tx may lose a window
\* to the task.
LEMMA TaskStep ==
    ASSUME IInv, RaceInv, NEW tx \in Txs,
           UNCHANGED <<log, cur, acked, dedup, claimed, sources, rwin, deadlines, status, tscan,
                       faults, crashes>>,
           tpopped' \in {tpopped, tpopped \ {tx}}, TimerOnce',
           \A q \in Procs \ {tx} : pc'[q] = pc[q] /\ win'[q] = win[q],
           \A q \in Txs \ {tx} : windows'[q] = windows[q],
           pc'[tx] \notin Cleaning, pc[tx] # "upsert",
           Undisturbed =>
             /\ \A e \in EventsOf(tx, claimed) : Kept(e) => Kept(e)'
             /\ OnItsWay' /\ OpenIsDue(tx)'
    PROVE  RaceInv'
<1>1. pc'[Consumer] = pc[Consumer] /\ win'[Consumer] = win[Consumer] /\ Entry' = Entry
  BY ProcFacts DEF Entry
<1>2. \A q \in Txs \ {tx} : pc'[q] = pc[q] /\ win'[q] = win[q] /\ (Due(q) => Due(q)')
  BY ProcFacts DEF Due
<1>3. CleansJudged' /\ AckedIsKnown'
  BY <1>1 DEF RaceInv, CleansJudged, AckedIsKnown, Tx
<1>4. ASSUME Undisturbed, NEW e \in claimed
      PROVE  InHand(e)' \/ Kept(e)'
  <2>1. e.tx \in Txs /\ (e.tx = tx => e \in EventsOf(tx, claimed))
    BY ClaimedFacts DEF EventsOf
  <2>2. InHand(e) => InHand(e)'
    BY <1>1 DEF InHand, ConsumerOn
  <2>3. CASE e.tx # tx /\ Kept(e)
    BY <1>1, <1>2, <2>1, <2>3, KeptStands DEF Judged, ConsumerOn
  <2>. QED  BY <1>4, <2>1, <2>2, <2>3 DEF RaceInv
<1>5. Undisturbed => NewSource'
  <2>. SUFFICES ASSUME Undisturbed, pc'[Consumer] = "open", NEW e \in EventsOf(Entry.tx, claimed),
                       e # Entry, e.source = Entry.source
                PROVE  (Judged(e.tx) \/ TaskHolds(e))'
    BY <1>1 DEF NewSource
  <2>1. e \in claimed /\ e.tx \in Txs
    BY ClaimedFacts DEF EventsOf
  <2>2. Judged(e.tx) \/ TaskHolds(e)
    BY <1>1 DEF RaceInv, NewSource
  <2>. QED  BY <1>2, <2>1, <2>2 DEF Judged, TaskHolds
<1>6. ASSUME Undisturbed, NEW q \in Txs
      PROVE  OpenIsDue(q)'
  BY <1>1, <1>2, <1>6 DEF RaceInv, OpenIsDue, Judged, ConsumerOn
<1>. QED  BY <1>3, <1>4, <1>5, <1>6 DEF RaceInv, Undisturbed

LEMMA SpawnRace == ASSUME IInv, RaceInv, NEW tx \in Txs, Spawn(tx) PROVE RaceInv'
<1>1. /\ pc[tx] = "idle" /\ pc'[tx] = "take" /\ tscan = {} /\ tpopped' = tpopped \ {tx}
      /\ \A q \in Procs \ {tx} : pc'[q] = pc[q]
      /\ UNCHANGED <<log, cur, acked, win, windows, dedup, claimed, sources, rwin, deadlines,
                     status, tscan, faults, crashes>>
  BY Shapes, ProcFacts
  DEF RaceInv, TimerOnce, Spawn, Goto, streamVars, redisVars, pgVars, budgetVars
<1>2. TimerOnce'
  BY <1>1, Shapes, ProcFacts DEF RaceInv, TimerOnce
<1>3. pc'[Consumer] = pc[Consumer] /\ Entry' = Entry
  BY <1>1, ProcFacts DEF Entry
<1>4. \A e \in EventsOf(tx, claimed) : Kept(e) => Kept(e)'
  BY <1>1, <1>3 DEF EventsOf, Kept, Judged, TaskHolds, StoresHold, ConsumerOn
<1>5. Undisturbed => OnItsWay'
  <2>1. pc[Consumer] = "resave" => Entry.tx \in Procs
    BY EntryFacts, ProcFacts
  <2>. QED  BY <1>1, <1>3, <2>1 DEF RaceInv, OnItsWay, Judged, TaskHolds, Copying
<1>6. Undisturbed => OpenIsDue(tx)'
  BY <1>1, <1>3 DEF RaceInv, OpenIsDue, Judged, ConsumerOn
<1>. QED  BY <1>1, <1>2, <1>4, <1>5, <1>6, TaskStep DEF Cleaning

LEMMA TakeRace == ASSUME IInv, RaceInv, NEW tx \in Txs, Take(tx) PROVE RaceInv'
<1>1. /\ pc[tx] = "take" /\ windows'[tx] = NoWindow
      /\ \A q \in Txs \ {tx} : windows'[q] = windows[q]
      /\ \A q \in Procs \ {tx} : pc'[q] = pc[q] /\ win'[q] = win[q]
      /\ UNCHANGED <<log, cur, acked, dedup, claimed, sources, rwin, deadlines,
                     status, tscan, tpopped, faults, crashes>>
      /\ windows[tx] = NoWindow => pc'[tx] = "idle"
      /\ windows[tx] # NoWindow => pc'[tx] = "upsert" /\ win'[tx] = windows[tx]
  BY Shapes, ProcFacts
  DEF Take, Return, Finalize, Goto, streamVars, redisVars, timerVars, pgVars, budgetVars
<1>2. TimerOnce'
  BY <1>1, Shapes, ProcFacts DEF RaceInv, TimerOnce
<1>3. pc'[Consumer] = pc[Consumer] /\ win'[Consumer] = win[Consumer] /\ Entry' = Entry
  BY <1>1, ProcFacts DEF Entry
<1>4. \A e \in EventsOf(tx, claimed) : Kept(e) => Kept(e)'
  BY <1>1, <1>3 DEF EventsOf, Kept, Judged, TaskHolds, StoresHold, ConsumerOn
<1>5. Undisturbed => OnItsWay'
  <2>1. pc[Consumer] = "resave" => Entry.tx \in Txs /\ Entry.tx \in Procs
    BY EntryFacts, ProcFacts
  <2>. QED  BY <1>1, <1>3, <2>1 DEF RaceInv, OnItsWay, Judged, TaskHolds, Copying
<1>6. Undisturbed => OpenIsDue(tx)'
  BY <1>1, <1>3 DEF RaceInv, OpenIsDue, Judged, ConsumerOn
<1>. QED  BY <1>1, <1>2, <1>4, <1>5, <1>6, TaskStep DEF Cleaning

-----------------------------------------------------------------------------
(* Expiry, failures and restarts.                                          *)

\* The sources that expire belong to no open window.
LEMMA ExpireRace == ASSUME IInv, RaceInv, NEW tx \in Txs, ExpireSources(tx) PROVE RaceInv'
<1>1. /\ Quiet(tx) /\ ~Due(tx)
      /\ \A q \in Txs \ {tx} : sources'[q] = sources[q]
      /\ UNCHANGED <<log, cur, acked, pc, win, windows, dedup, claimed, rwin, deadlines,
                     status, tscan, tpopped, faults, crashes>>
  BY Shapes DEF ExpireSources, Due, streamVars, procVars, timerVars, pgVars, budgetVars
<1>2. TimerOnce' /\ CleansJudged' /\ AckedIsKnown' /\ Entry' = Entry
  BY <1>1 DEF RaceInv, TimerOnce, CleansJudged, AckedIsKnown, Entry, Tx
<1>3. ASSUME Undisturbed, NEW e \in claimed
      PROVE  InHand(e)' \/ Kept(e)'
  <2>1. e.tx \in Txs
    BY ClaimedFacts
  <2>2. e.tx = tx => ~InHand(e) /\ (StoresHold(e) => Judged(tx))
    BY <1>1, <1>3 DEF InHand, Quiet, RaceInv, OpenIsDue, StoresHold
  <2>. QED  BY <1>1, <1>2, <1>3, <2>1, <2>2
            DEF RaceInv, InHand, Kept, Judged, TaskHolds, StoresHold, ConsumerOn
<1>4. Undisturbed => NewSource'
  BY <1>1, <1>2 DEF RaceInv, NewSource, Judged, TaskHolds
<1>5. Undisturbed => OnItsWay'
  <2>1. pc[Consumer] \in {"open"} \cup Copying => Entry.tx \in Txs \ {tx}
    BY <1>1, EntryFacts DEF Quiet, ConsumerOn, Copying
  <2>. QED  BY <1>1, <1>2, <2>1 DEF RaceInv, OnItsWay, Judged, TaskHolds, Copying
<1>6. \A q \in Txs : OpenIsDue(q) => OpenIsDue(q)'
  BY <1>1, <1>2 DEF OpenIsDue, Judged, Due, ConsumerOn
<1>. QED  BY <1>1, <1>2, <1>3, <1>4, <1>5, <1>6 DEF RaceInv, Undisturbed

\* Nor does the checkpoint that expires.
LEMMA ExpireCheckpointRace ==
    ASSUME IInv, RaceInv, NEW tx \in Txs, ExpireCheckpoint(tx)
    PROVE  RaceInv'
<1>1. /\ Quiet(tx) /\ ~Due(tx)
      /\ \A q \in Txs \ {tx} : rwin'[q] = rwin[q]
      /\ UNCHANGED <<log, cur, acked, pc, win, windows, dedup, claimed, sources, deadlines,
                     status, tscan, tpopped, faults, crashes>>
  BY Shapes DEF ExpireCheckpoint, Due, streamVars, procVars, timerVars, pgVars, budgetVars
<1>2. TimerOnce' /\ CleansJudged' /\ AckedIsKnown' /\ Entry' = Entry
  BY <1>1 DEF RaceInv, TimerOnce, CleansJudged, AckedIsKnown, Entry, Tx
<1>3. ASSUME Undisturbed, NEW e \in claimed
      PROVE  InHand(e)' \/ Kept(e)'
  <2>1. e.tx \in Txs
    BY ClaimedFacts
  <2>2. e.tx = tx => ~InHand(e) /\ (StoresHold(e) => Judged(tx))
    BY <1>1, <1>3 DEF InHand, Quiet, RaceInv, OpenIsDue, StoresHold
  <2>. QED  BY <1>1, <1>2, <1>3, <2>1, <2>2
            DEF RaceInv, InHand, Kept, Judged, TaskHolds, StoresHold, ConsumerOn
<1>4. Undisturbed => NewSource' /\ OnItsWay'
  BY <1>1, <1>2 DEF RaceInv, NewSource, OnItsWay, Judged, TaskHolds
<1>5. \A q \in Txs : OpenIsDue(q) => OpenIsDue(q)'
  BY <1>1, <1>2 DEF OpenIsDue, Judged, Due, ConsumerOn
<1>. QED  BY <1>1, <1>2, <1>3, <1>4, <1>5 DEF RaceInv, Undisturbed

\* Processes stop and the timer forgets: nothing is claimed of what follows.
LEMMA FailureStep ==
    ASSUME IInv, RaceInv, ~Undisturbed', UNCHANGED <<log, acked, dedup, status>>,
           \A q \in Procs : pc'[q] \in {pc[q], "idle"},
           pc'[Consumer] = "idle" \/ cur' = cur,
           tscan' \subseteq tscan, tpopped' \subseteq tpopped
    PROVE  RaceInv'
<1>1. TimerOnce'
  BY Shapes, ProcFacts DEF RaceInv, TimerOnce
<1>2. CleansJudged'
  BY ProcFacts DEF RaceInv, CleansJudged, Cleaning, Tx, Entry
<1>3. AckedIsKnown'
  BY ProcFacts DEF RaceInv, AckedIsKnown, Entry
<1>. QED  BY <1>1, <1>2, <1>3 DEF RaceInv

LEMMA ProcFailsRace == ASSUME IInv, RaceInv, NEW p \in Procs, ProcFails(p) PROVE RaceInv'
<1>1. /\ faults \in Nat /\ faults' = faults + 1 /\ UNCHANGED <<log, cur, acked, dedup, status>>
      /\ UNCHANGED <<tscan, tpopped>> /\ \A q \in Procs : pc'[q] \in {pc[q], "idle"}
  BY Shapes DEF IInv, TypeOK, ProcFails, Fault, Return, streamVars, redisVars, timerVars, pgVars
<1>. QED  BY <1>1, FailureStep DEF Undisturbed

LEMMA TimerFailsRace == ASSUME IInv, RaceInv, TimerFails PROVE RaceInv'
<1>1. faults \in Nat /\ faults' = faults + 1
  BY DEF IInv, TypeOK, TimerFails, Fault
<1>. QED  BY <1>1, FailureStep DEF TimerFails, Undisturbed, streamVars, procVars, pgVars

LEMMA XReadLostRace == ASSUME IInv, RaceInv, XReadLost PROVE RaceInv'
<1>1. faults \in Nat /\ faults' = faults + 1
  BY DEF IInv, TypeOK, XReadLost, Fault
<1>. QED
  BY <1>1, FailureStep DEF XReadLost, Undisturbed, procVars, redisVars, timerVars, pgVars

LEMMA CrashRace ==
    ASSUME IInv, RaceInv, NEW gone \in SUBSET Txs, NEW forgotten \in SUBSET Txs,
           NEW unread \in SUBSET Txs, CrashAndRestart(gone, forgotten, unread)
    PROVE  RaceInv'
<1>1. crashes \in Nat /\ crashes' = crashes + 1
  BY DEF IInv, TypeOK, CrashAndRestart
<1>. QED  BY <1>1, FailureStep, ProcFacts DEF CrashAndRestart, Undisturbed, pgVars

-----------------------------------------------------------------------------
LEMMA InitRace == Init => RaceInv
  BY ProcFacts DEF Init, ProcInit, RaceInv, TimerOnce, CleansJudged, AckedIsKnown, Undisturbed,
     NewSource, OnItsWay, OpenIsDue, ConsumerOn, Cleaning, Copying

LEMMA NextRace == ASSUME IInv, RaceInv, Next PROVE RaceInv'
<1>1. CASE Consume
  <2>1. XRead => UNCHANGED raceVars
    BY DEF XRead, raceVars, procVars, redisVars, timerVars, pgVars, budgetVars
  <2>. QED  BY <1>1, <2>1, RaceStutter, NextEntryRace, ClaimRace, RegisterRace, OpenWindowRace,
            AddDeadlineRace, StoreWindowRace, SaveWindowRace, TallyRace, AckRace DEF Consume
<1>2. CASE \E p \in Procs : Conclude(p)
  BY <1>2, ConcludeRace
<1>3. CASE \E due \in SUBSET Txs : Scan(due)
  BY <1>3, ScanRace
<1>4. CASE \E tx \in Txs : Pop(tx) \/ Spawn(tx) \/ Take(tx)
  BY <1>4, PopRace, SpawnRace, TakeRace
<1>5. CASE Environment
  BY <1>5, ProcFailsRace, XReadLostRace, TimerFailsRace, CrashRace, ExpireRace,
     ExpireCheckpointRace DEF Environment
<1>. QED  BY <1>1, <1>2, <1>3, <1>4, <1>5 DEF Next

\* RaceInv holds of every reachable state of the matcher: while no call fails
\* and the process lives, every accepted event is in the consumer's hands, in
\* memory and Redis, with the task of its timeout, or decided.
THEOREM EngineKeepsEvents == Spec => []RaceInv
<1>1. RaceInv /\ UNCHANGED vars => RaceInv'
  BY RaceStutter DEF vars, raceVars, streamVars, procVars, redisVars, timerVars, pgVars, budgetVars
<1>2. IInv /\ RaceInv /\ [Next]_vars => RaceInv'
  BY <1>1, NextRace
<1>. QED  BY <1>2, InitRace, EngineInvariant, PTL DEF Spec

LEMMA RaceDurable == ASSUME IInv, RaceInv, Undisturbed PROVE AckedIsDurable
<1>. SUFFICES ASSUME NEW e \in Acknowledged
              PROVE  Durable(e)
  BY DEF AckedIsDurable
<1>1. PICK k \in acked : log[k] = e
  BY DEF Acknowledged
<1>2. e \in claimed /\ ~InHand(e)
  BY <1>1, ClaimedFacts DEF Acknowledged, RaceInv, AckedIsKnown, InHand, ConsumerOn
<1>3. Kept(e)
  BY <1>2 DEF RaceInv
<1>. QED  BY <1>3 DEF Durable, Kept, Judged, TaskHolds, StoresHold

\* An acknowledged event is not lost while no call fails and the process
\* lives, also when its timeout runs into the handling of another event of the
\* transaction, or of the event itself.
THEOREM EngineAckedDurable == Spec => [](Undisturbed => AckedIsDurable)
  BY RaceDurable, EngineKeepsEvents, EngineInvariant, PTL

-----------------------------------------------------------------------------
(* Serial runs: a step works on one transaction and leaves the others be.  *)

IncidentsGrow ==
    /\ \A i \in DOMAIN incidents : i \in DOMAIN incidents' /\ incidents'[i] = incidents[i]
    /\ scheduled \subseteq scheduled'

StoresOf(tx) == <<windows[tx], rwin[tx], sources[tx], status[tx], details[tx]>>

\* A step leaves tx, and who works on it, alone.
Same(tx) ==
    /\ By(tx)' = By(tx) /\ At(tx)' = At(tx) /\ Untouched(By(tx))
    /\ By(tx) = Consumer => Entry' = Entry
    /\ StoresOf(tx)' = StoresOf(tx)
    /\ Due(tx) => Due(tx)'
    /\ IncidentsGrow

\* A step of p is about its transaction.
Works(p) ==
    /\ p = Consumer => pc[p] \notin {"idle", "claim", "ack"}
    /\ p # Consumer => pc[p] # "idle" \/ pc'[p] # "idle"
    /\ UNCHANGED <<log, cur>>
    /\ \A q \in Procs \ {p} : Untouched(q)
    /\ \A tx \in Txs \ {Tx(p)} : StoresOf(tx)' = StoresOf(tx) /\ (Due(tx) => Due(tx)')
    /\ IncidentsGrow

LEMMA WorksElsewhere ==
    ASSUME NEW p \in Procs, Works(p), NEW tx \in Txs \ {Tx(p)}
    PROVE  Same(tx)
<1>1. tx # p /\ tx \in Procs /\ tx # Consumer /\ Untouched(tx) /\ Entry' = Entry
  BY ProcFacts DEF Works, Tx, Entry
<1>2. CASE p = Consumer
  <2>1. ~ConsumerOn(tx) /\ ~ConsumerOn(tx)'
    BY <1>1, <1>2 DEF ConsumerOn, Tx
  <2>. QED  BY <1>1, <2>1 DEF Same, Works, By, At, Untouched
<1>3. CASE p # Consumer
  <2>1. Untouched(Consumer) /\ (ConsumerOn(tx)' <=> ConsumerOn(tx))
    BY <1>1, <1>3, ProcFacts DEF Works, ConsumerOn, Untouched
  <2>. QED  BY <1>1, <2>1 DEF Same, Works, By, At, Untouched
<1>. QED  BY <1>2, <1>3

LEMMA WorksHere ==
    ASSUME IInv, ~Overlap, ~Overlap', NEW p \in Procs, Works(p)
    PROVE  /\ Tx(p) \in Txs /\ Tx(p)' = Tx(p) /\ Entry' = Entry
           /\ By(Tx(p)) = p /\ At(Tx(p)) = pc[p]
           /\ p # Consumer => p = Tx(p)
           /\ p # Consumer \/ pc'[p] \notin {"idle", "claim", "ack"} =>
                By(Tx(p))' = p /\ At(Tx(p))' = pc'[p]
           /\ p = Consumer /\ pc'[p] \in {"idle", "claim", "ack"} =>
                By(Tx(p))' = Tx(p) /\ At(Tx(p))' = "idle"
<1>. DEFINE tx == Tx(p)
<1>1. tx \in Txs /\ Tx(p)' = tx /\ Entry' = Entry
  BY TxTyped, ProcFacts DEF Works, Tx, Entry
<1>2. CASE p = Consumer
  <2>1. ConsumerOn(tx) /\ pc[tx] = "idle" /\ tx = Entry.tx
    BY <1>1, <1>2 DEF Works, ConsumerOn, Overlap, Tx
  <2>2. pc'[tx] = "idle"
    BY <1>1, <1>2, <2>1, ProcFacts DEF Works, Untouched
  <2>3. ConsumerOn(tx)' <=> pc'[p] \notin {"idle", "claim", "ack"}
    BY <1>1, <1>2, <2>1 DEF ConsumerOn
  <2>. QED  BY <1>1, <1>2, <2>1, <2>2, <2>3 DEF By, At
<1>3. CASE p # Consumer
  <2>1. p = tx /\ (ConsumerOn(tx)' <=> ConsumerOn(tx))
    BY <1>1, <1>3, ProcFacts DEF Works, ConsumerOn, Untouched, Tx
  <2>2. ~ConsumerOn(tx)
    BY <1>1, <1>3, <2>1 DEF Works, Overlap
  <2>. QED  BY <1>1, <1>3, <2>1, <2>2 DEF By, At
<1>. QED  BY <1>2, <1>3

LEMMA SameStage == ASSUME NEW tx, Same(tx), Stage(tx) PROVE Stage(tx)'
<1>1. By(tx) \in {tx, Consumer} /\ By(tx)' = By(tx) /\ At(tx)' = At(tx)
  BY DEF By, Same
<1>2. /\ outcome'[By(tx)] = outcome[By(tx)] /\ win'[By(tx)] = win[By(tx)]
      /\ windows'[tx] = windows[tx] /\ rwin'[tx] = rwin[tx] /\ sources'[tx] = sources[tx]
      /\ By(tx) = Consumer => Entry' = Entry
      /\ Due(tx) => Due(tx)'
  BY DEF Same, Untouched, StoresOf
<1>3. SameStores(tx) => SameStores(tx)'
  BY <1>2 DEF SameStores
<1>4. AtRest(tx) => AtRest(tx)'
  BY <1>2, <1>3 DEF AtRest
<1>5. Repeating(tx)' <=> Repeating(tx)
  BY <1>1, <1>2 DEF Repeating
<1>6. (Closing(tx)' <=> Closing(tx)) /\ (TimingOut(tx)' <=> TimingOut(tx))
  BY <1>1, <1>2 DEF Closing, TimingOut
<1>7. By(tx) = Consumer /\ Filing(tx) => Filing(tx)'
  BY <1>2 DEF Filing, Opened
<1>8. By(tx) = Consumer => (Filed(tx) => Filed(tx)') /\ (Stored(tx) => Stored(tx)')
  BY <1>2 DEF Filed, Stored
<1>9. By(tx) # Consumer => At(tx) \notin {"open", "deadline", "store", "save", "restore", "resave"}
  BY <1>1 DEF Stage, Reporting, Cleaning
<1>. QED
  BY <1>1, <1>2, <1>3, <1>4, <1>5, <1>6, <1>7, <1>8, <1>9 DEF Stage, Closing, TimingOut

LEMMA ConsumerWorks ==
    ASSUME IInv,
           Register \/ OpenWindow \/ AddDeadline \/ StoreWindow \/ SaveWindow \/ Tally
    PROVE  Works(Consumer)
<1>1. /\ pc[Consumer] \notin {"idle", "claim", "ack"} /\ UNCHANGED <<log, cur, status, details>>
      /\ UNCHANGED <<incidents, scheduled, tpopped>> /\ deadlines \subseteq deadlines'
  BY DEF Register, OpenWindow, AddDeadline, StoreWindow, SaveWindow, Tally,
     streamVars, redisVars, timerVars, pgVars
<1>2. \A q \in Procs \ {Consumer} : Untouched(q)
  BY Shapes
  DEF Register, OpenWindow, AddDeadline, StoreWindow, SaveWindow, Finalize, Tally, Goto, Untouched,
     IInv, TypeOK, ProcTypeOK
<1>3. \A tx \in Txs \ {Entry.tx} : /\ windows'[tx] = windows[tx] /\ rwin'[tx] = rwin[tx]
                                  /\ sources'[tx] = sources[tx]
  BY Shapes
  DEF Register, OpenWindow, AddDeadline, StoreWindow, SaveWindow, Tally, redisVars
<1>. QED  BY <1>1, <1>2, <1>3, ProcFacts DEF Works, StoresOf, IncidentsGrow, Due

LEMMA ConcludeWorks ==
    ASSUME IInv, RaceInv, NEW p \in Procs, Conclude(p)
    PROVE  Works(p)
<1>1. Concluding(p)
  BY Concludes
<1>2. /\ outcome' \in {outcome, [outcome EXCEPT ![p] = "none"]}
      /\ \E x : rows' \in {rows, [rows EXCEPT ![p] = x]}
      /\ \E x : todo' \in {todo, [todo EXCEPT ![p] = x]}
      /\ \E x : iid' \in {iid, [iid EXCEPT ![p] = x]}
  BY DEF Conclude, UpsertTransaction, UpsertDetail, RecordMatchResult, CreateIncident,
     AddEscalation, ForgetWindow, DeleteWindow, RemoveDeadline, CleanupSources, Return
<1>3. \A q \in Procs \ {p} : Untouched(q)
  BY <1>1, <1>2 DEF Concluding, Untouched, IInv, TypeOK, ProcTypeOK
<1>4. \E x : details' \in {details, [details EXCEPT ![Tx(p)] = x]}
  BY DEF Conclude, UpsertTransaction, UpsertDetail, RecordMatchResult, CreateIncident,
     AddEscalation, ForgetWindow, DeleteWindow, RemoveDeadline, CleanupSources, pgVars
<1>5. \A tx \in Txs \ {Tx(p)} : details'[tx] = details[tx]
  BY <1>4 DEF IInv, TypeOK, PgTypeOK
<1>6. IncidentsGrow
  <2>1. scheduled \subseteq scheduled'
    BY DEF Conclude, UpsertTransaction, UpsertDetail, RecordMatchResult, CreateIncident,
       AddEscalation, ForgetWindow, DeleteWindow, RemoveDeadline, CleanupSources, redisVars
  <2>2. incidents' = incidents \/ \E r : incidents' = Append(incidents, r)
    BY DEF Conclude, UpsertTransaction, UpsertDetail, RecordMatchResult, CreateIncident,
       AddEscalation, ForgetWindow, DeleteWindow, RemoveDeadline, CleanupSources, pgVars
  <2>3. incidents \in Seq([tx : Txs, kind : IncidentKinds, window : Slots(Events)])
    BY DEF IInv, TypeOK, PgTypeOK
  <2>4. ASSUME NEW r, incidents' = Append(incidents, r)
        PROVE  \A i \in DOMAIN incidents : i \in DOMAIN incidents' /\ incidents'[i] = incidents[i]
    BY <2>3, <2>4
  <2>. QED  BY <2>1, <2>2, <2>4 DEF IncidentsGrow
<1>. QED
  BY <1>1, <1>3, <1>5, <1>6, ProcFacts
  DEF Concluding, Stepping, Reporting, Cleaning, Works, StoresOf, Due

LEMMA TaskWorks ==
    ASSUME IInv, NEW tx \in Txs, Spawn(tx) \/ Take(tx)
    PROVE  Works(tx)
<1>1. /\ UNCHANGED <<log, cur, status, details, rwin, sources>>
      /\ UNCHANGED <<incidents, scheduled, deadlines>> /\ tpopped \ {tx} \subseteq tpopped'
      /\ \A q \in Txs \ {tx} : windows'[q] = windows[q]
  BY Shapes DEF Spawn, Take, streamVars, redisVars, timerVars, pgVars
<1>2. \A q \in Procs \ {tx} : Untouched(q)
  BY Shapes DEF Spawn, Take, Finalize, Return, Goto, Untouched, IInv, TypeOK, ProcTypeOK
<1>3. pc[tx] # "idle" \/ pc'[tx] # "idle"
  BY Shapes, ProcFacts DEF Spawn, Take, Goto
<1>. QED  BY <1>1, <1>2, <1>3, ProcFacts DEF Works, StoresOf, IncidentsGrow, Due

-----------------------------------------------------------------------------
(* The stages of a transaction the consumer handles an event of.           *)

LEMMA InsertSeen ==
    ASSUME NEW w \in Slots(Events), NEW e \in Events
    PROVE  SourcesSeen(InsertEvent(w, e)) = SourcesSeen(w) \cup {e.source}
  BY EventFields, InsertEventFacts DEF SourcesSeen

LEMMA ConsumerHere ==
    ASSUME IInv, ~Overlap, ~Overlap', Works(Consumer), NEW tx, tx = Entry.tx
    PROVE  /\ tx \in Txs /\ Entry' = Entry /\ By(tx) = Consumer /\ At(tx) = pc[Consumer]
           /\ pc'[Consumer] \notin {"idle", "claim", "ack"} =>
                By(tx)' = Consumer /\ At(tx)' = pc'[Consumer]
           /\ pc'[Consumer] \in {"idle", "claim", "ack"} => By(tx)' = tx /\ At(tx)' = "idle"
  BY WorksHere, ProcFacts

LEMMA RegisterStage ==
    ASSUME IInv, SerialInv, Undisturbed, ~Overlap', Register, NEW tx, tx = Entry.tx
    PROVE  Stage(tx)'
<1>1. /\ tx \in Txs /\ Entry' = Entry /\ By(tx) = Consumer /\ At(tx) = "register"
      /\ pc'[Consumer] \notin {"idle", "claim", "ack"} =>
                By(tx)' = Consumer /\ At(tx)' = pc'[Consumer]
  BY ConsumerWorks, ConsumerHere DEF SerialInv, Register
<1>2. AtRest(tx)
  BY <1>1 DEF SerialInv, Stage
<1>3. /\ UNCHANGED <<windows, rwin, deadlines, tpopped>>
      /\ sources'[tx] = sources[tx] \cup {Entry.source}
      /\ \/ Entry.source \notin sources[tx] /\ pc'[Consumer] = "open"
         \/ /\ Entry.source \in sources[tx] /\ pc'[Consumer] = "upsert"
            /\ outcome'[Consumer] = "pending"
  BY <1>1, Shapes, ProcFacts DEF Register, AlreadyRegistered, Goto, timerVars
<1>4. CASE pc'[Consumer] = "open"
  <2>1. Filing(tx)'
    BY <1>1, <1>2, <1>3, <1>4, EmptyWindowFacts DEF Filing, Opened, AtRest, SameStores, Due
  <2>2. Tx(Consumer)' = tx /\ At(tx)' = "open" /\ By(tx)' = Consumer /\ Consumer # tx
    BY <1>1, <1>4, ProcFacts DEF Tx
  <2>. QED  BY <2>1, <2>2 DEF Stage, Repeating, Closing, TimingOut, Reporting, Cleaning
<1>5. CASE pc'[Consumer] = "upsert"
  <2>1. AtRest(tx)' /\ windows'[tx] # NoWindow
    BY <1>1, <1>2, <1>3, <1>5 DEF AtRest, SameStores, Due
  <2>2. At(tx)' = "upsert" /\ By(tx)' = Consumer /\ Consumer # tx /\ outcome'[Consumer] = "pending"
    BY <1>1, <1>3, <1>5, ProcFacts
  <2>. QED  BY <2>1, <2>2 DEF Stage, Repeating, Closing, TimingOut, Reporting, Cleaning
<1>. QED  BY <1>3, <1>4, <1>5

LEMMA OpenWindowStage ==
    ASSUME IInv, SerialInv, Undisturbed, ~Overlap', OpenWindow, NEW tx, tx = Entry.tx
    PROVE  Stage(tx)'
<1>1. /\ tx \in Txs /\ Entry' = Entry /\ By(tx) = Consumer /\ At(tx) = "open"
      /\ pc'[Consumer] \notin {"idle", "claim", "ack"} =>
                By(tx)' = Consumer /\ At(tx)' = pc'[Consumer]
  BY ConsumerWorks, ConsumerHere DEF SerialInv, OpenWindow
<1>2. Filing(tx) /\ Entry \in Events /\ Opened(tx) \in Slots(Events)
  BY <1>1, EntryFacts, Shapes, EmptyWindowFacts DEF SerialInv, Stage, Opened, OpenWindow
<1>3. /\ UNCHANGED <<sources, deadlines, tpopped>>
      /\ windows'[tx] = Opened(tx) /\ win'[Consumer] = InsertEvent(Opened(tx), Entry)
      /\ pc'[Consumer] = IF Opened(tx) = EmptyWindow THEN "deadline" ELSE "store"
  BY <1>1, Shapes, ProcFacts DEF OpenWindow, Opened, Goto, redisVars, timerVars
<1>4. Filed(tx)'
  BY <1>1, <1>2, <1>3, InsertSeen, WindowsAreNotNoWindow DEF Filed, Filing
<1>5. pc'[Consumer] = "store" => Due(tx)'
  BY <1>1, <1>2, <1>3 DEF Filing, Opened, Due
<1>6. At(tx)' = pc'[Consumer] /\ By(tx)' = Consumer /\ Consumer # tx
      /\ pc'[Consumer] \in {"deadline", "store"}
  BY <1>1, <1>3, ProcFacts
<1>. QED  BY <1>4, <1>5, <1>6 DEF Stage, Repeating, Closing, TimingOut, Reporting, Cleaning

LEMMA AddDeadlineStage ==
    ASSUME IInv, SerialInv, Undisturbed, ~Overlap', AddDeadline, NEW tx, tx = Entry.tx
    PROVE  Stage(tx)'
<1>1. /\ tx \in Txs /\ Entry' = Entry /\ By(tx) = Consumer /\ At(tx) = "deadline"
      /\ pc'[Consumer] \notin {"idle", "claim", "ack"} =>
                By(tx)' = Consumer /\ At(tx)' = pc'[Consumer]
  BY ConsumerWorks, ConsumerHere DEF SerialInv, AddDeadline
<1>2. /\ UNCHANGED <<windows, win, sources>> /\ deadlines' = deadlines \cup {tx}
      /\ pc'[Consumer] = "store"
  BY <1>1, Shapes, ProcFacts DEF AddDeadline, Goto
<1>3. Filed(tx)' /\ Due(tx)'
  BY <1>1, <1>2 DEF SerialInv, Stage, Filed, Due
<1>4. At(tx)' = "store" /\ By(tx)' = Consumer /\ Consumer # tx
  BY <1>1, <1>2, ProcFacts
<1>. QED  BY <1>3, <1>4 DEF Stage, Repeating, Closing, TimingOut, Reporting, Cleaning

LEMMA StoreWindowStage ==
    ASSUME IInv, SerialInv, Undisturbed, ~Overlap', StoreWindow, NEW tx, tx = Entry.tx
    PROVE  Stage(tx)'
<1>1. /\ tx \in Txs /\ Entry' = Entry /\ By(tx) = Consumer /\ At(tx) = pc[Consumer]
      /\ pc'[Consumer] \notin {"idle", "claim", "ack"} =>
                By(tx)' = Consumer /\ At(tx)' = pc'[Consumer]
  BY ConsumerWorks, ConsumerHere DEF SerialInv
<1>2. /\ UNCHANGED <<win, sources, rwin, deadlines, tpopped>> /\ windows'[tx] = win[Consumer]
      /\ \/ pc[Consumer] = "store" /\ pc'[Consumer] = "save"
         \/ pc[Consumer] = "restore" /\ pc'[Consumer] = "resave"
  BY <1>1, Shapes, ProcFacts DEF StoreWindow, Goto, redisVars, timerVars
<1>3. Stage(tx)
  BY <1>1 DEF SerialInv
<1>4. Stored(tx)'
  BY <1>1, <1>2, <1>3 DEF Stage, Filed, Stored, Due
<1>5. pc'[Consumer] = "resave" => rwin'[tx] = windows'[tx] /\ ~Complete(windows'[tx])
  BY <1>1, <1>2, <1>3 DEF Stage, Stored
<1>6. At(tx)' = pc'[Consumer] /\ By(tx)' = Consumer /\ Consumer # tx
      /\ pc'[Consumer] \in {"save", "resave"}
  BY <1>1, <1>2, ProcFacts
<1>. QED  BY <1>4, <1>5, <1>6 DEF Stage, Repeating, Closing, TimingOut, Reporting, Cleaning, Complete

LEMMA SaveWindowStage ==
    ASSUME IInv, SerialInv, Undisturbed, ~Overlap', SaveWindow, NEW tx, tx = Entry.tx
    PROVE  Stage(tx)'
<1>1. /\ tx \in Txs /\ Entry' = Entry /\ By(tx) = Consumer /\ At(tx) = pc[Consumer]
      /\ pc'[Consumer] \notin {"idle", "claim", "ack"} =>
                By(tx)' = Consumer /\ At(tx)' = pc'[Consumer]
  BY ConsumerWorks, ConsumerHere DEF SerialInv
<1>2. /\ UNCHANGED <<windows, win, sources, deadlines, tpopped>> /\ rwin'[tx] = win[Consumer]
      /\ \/ /\ pc[Consumer] = "save" /\ Complete(win[Consumer]) /\ pc'[Consumer] = "upsert"
            /\ outcome'[Consumer] = Verdict(win[Consumer])
         \/ pc[Consumer] = "save" /\ ~Complete(win[Consumer]) /\ pc'[Consumer] = "restore"
         \/ pc[Consumer] = "resave" /\ pc'[Consumer] = "tally"
  BY <1>1, Shapes, ProcFacts DEF SaveWindow, Finalize, Goto, timerVars, Complete
<1>3. Stage(tx)
  BY <1>1 DEF SerialInv
<1>4. Stored(tx) /\ Stored(tx)' /\ rwin'[tx] = windows'[tx] /\ win[Consumer] # NoWindow
  BY <1>1, <1>2, <1>3, Shapes, ProcFacts, WindowsAreNotNoWindow DEF Stage, Stored, Due
<1>5. Consumer # tx
  BY <1>1, ProcFacts
<1>6. CASE pc'[Consumer] = "upsert"
  <2>1. At(tx)' = "upsert" /\ By(tx)' = Consumer /\ outcome'[Consumer] # "pending"
    BY <1>1, <1>2, <1>6, VerdictFacts
  <2>. QED  BY <1>2, <1>4, <1>5, <1>6, <2>1
            DEF Stage, Repeating, Closing, TimingOut, Reporting, Cleaning, Stored, Complete
<1>7. CASE pc'[Consumer] = "restore"
  <2>1. At(tx)' = "restore" /\ By(tx)' = Consumer
    BY <1>1, <1>7
  <2>. QED  BY <1>2, <1>4, <1>5, <1>7, <2>1
            DEF Stage, Repeating, Closing, TimingOut, Reporting, Cleaning, Stored, Complete
<1>8. CASE pc'[Consumer] = "tally"
  <2>1. At(tx)' = "tally" /\ By(tx)' = Consumer
    BY <1>1, <1>8
  <2>2. AtRest(tx)'
    BY <1>1, <1>2, <1>3, <1>4, <1>8 DEF Stage, Stored, AtRest, SameStores, Complete
  <2>. QED  BY <1>5, <2>1, <2>2
            DEF Stage, Repeating, Closing, TimingOut, Reporting, Cleaning
<1>. QED  BY <1>2, <1>6, <1>7, <1>8

LEMMA TallyStage ==
    ASSUME IInv, SerialInv, Undisturbed, ~Overlap', Tally, NEW tx, tx = Entry.tx
    PROVE  Stage(tx)'
<1>1. pc[Consumer] = "tally" /\ pc'[Consumer] = "ack"
  BY Shapes, ProcFacts DEF Tally, Goto
<1>2. tx \in Txs /\ At(tx) = "tally" /\ By(tx)' = tx /\ At(tx)' = "idle"
  BY <1>1, ConsumerWorks, ConsumerHere DEF SerialInv
<1>3. AtRest(tx)'
  BY <1>2 DEF SerialInv, Stage, Tally, AtRest, SameStores, Due, timerVars
<1>4. Consumer # tx
  BY <1>2, ProcFacts
<1>. QED
  BY <1>2, <1>3, <1>4 DEF Stage, Repeating, Closing, TimingOut, Reporting, Cleaning

-----------------------------------------------------------------------------
(* The stages of a transaction a decision is written for.                  *)

LEMMA ConcludeHere ==
    ASSUME IInv, RaceInv, ~Overlap, ~Overlap', NEW p \in Procs, Conclude(p), NEW tx, tx = Tx(p)
    PROVE  /\ tx \in Txs /\ Entry' = Entry /\ By(tx) = p /\ At(tx) = pc[p]
           /\ By(tx)' = p /\ At(tx)' = pc'[p] /\ (p # Consumer => p = tx)
<1>1. Works(p) /\ Concluding(p)
  BY ConcludeWorks, Concludes
<1>2. p = Consumer => pc'[p] \notin {"idle", "claim", "ack"}
  BY <1>1 DEF Concluding, Stepping, Reporting, Cleaning
<1>. QED  BY <1>1, <1>2, WorksHere

Report(p) == UpsertTransaction(p) \/ UpsertDetail(p) \/ RecordMatchResult(p)
             \/ CreateIncident(p) \/ AddEscalation(p)

LEMMA ReportFacts ==
    ASSUME IInv, NEW p \in Procs, Report(p)
    PROVE  /\ UNCHANGED <<windows, rwin, sources, deadlines, tpopped, win, outcome>>
           /\ pc[p] \in Reporting /\ pc'[p] \in (Reporting \ {"upsert"}) \cup {"tally", "forget"}
           /\ pc'[p] = "tally" => outcome[p] = "pending"
           /\ pc'[p] = "forget" => outcome[p] # "pending"
<1>1. /\ UNCHANGED <<windows, rwin, sources, deadlines, tpopped, win, outcome>>
      /\ pc[p] \in Reporting
  BY DEF Report, UpsertTransaction, UpsertDetail, RecordMatchResult, CreateIncident,
     AddEscalation, Reporting, redisVars, timerVars
<1>2. \E step \in {AfterUpsert(p), AfterRows(p), AfterIncidents(p), "details", "create", "escalate"} :
         pc'[p] = step
  BY Shapes
  DEF Report, UpsertTransaction, UpsertDetail, RecordMatchResult, CreateIncident, AddEscalation, Goto
<1>3. /\ AfterIncidents(p) = "tally" => outcome[p] = "pending"
      /\ AfterIncidents(p) = "forget" => outcome[p] # "pending"
  BY DEF AfterIncidents
<1>. QED  BY <1>1, <1>2, <1>3, AfterFacts DEF Reporting

LEMMA ReportStage ==
    ASSUME IInv, RaceInv, SerialInv, Undisturbed, ~Overlap', NEW p \in Procs, Report(p),
           NEW tx, tx = Tx(p)
    PROVE  Stage(tx)'
<1>1. /\ tx \in Txs /\ By(tx) = p /\ At(tx) = pc[p] /\ By(tx)' = p /\ At(tx)' = pc'[p]
      /\ (p # Consumer => p = tx) /\ tx # Consumer
  BY ConcludeHere, ProcFacts DEF SerialInv, Report, Conclude
<1>2. Stage(tx)
  BY <1>1 DEF SerialInv
<1>3. CASE outcome[p] = "pending"
  <2>1. Repeating(tx)
    BY <1>1, <1>3, ReportFacts DEF Repeating
  <2>2. AtRest(tx)' /\ windows'[tx] # NoWindow /\ p = Consumer
    BY <1>1, <1>2, <2>1, ReportFacts DEF Stage, AtRest, SameStores, Due
  <2>3. pc'[p] \in Reporting \cup {"tally"} /\ outcome'[p] = "pending"
    BY <1>3, ReportFacts
  <2>. QED  BY <1>1, <2>2, <2>3 DEF Stage, Repeating, Closing, TimingOut, Reporting, Cleaning
<1>4. CASE outcome[p] # "pending" /\ p = Consumer
  <2>1. Closing(tx)
    BY <1>1, <1>4, ReportFacts DEF Closing
  <2>2. pc'[p] \in Reporting \cup {"forget"} /\ outcome'[p] # "pending"
    BY <1>4, ReportFacts
  <2>3. Closing(tx)' /\ ~Repeating(tx)' /\ ~TimingOut(tx)'
    BY <1>1, <1>4, <2>2 DEF Closing, Repeating, TimingOut
  <2>4. windows'[tx] = win'[Consumer] /\ Complete(windows'[tx])
    BY <1>2, <2>1, ReportFacts DEF Stage
  <2>. QED  BY <1>1, <1>4, <2>2, <2>3, <2>4 DEF Stage, Reporting, Cleaning, Complete
<1>5. CASE outcome[p] # "pending" /\ p = tx
  <2>1. TimingOut(tx)
    BY <1>1, <1>5, ReportFacts DEF TimingOut
  <2>2. pc'[p] \in Reporting \cup {"forget"}
    BY <1>5, ReportFacts
  <2>3. windows'[tx] = NoWindow /\ outcome'[tx] = "degraded"
    BY <1>2, <2>1, ReportFacts DEF Stage
  <2>. QED  BY <1>1, <1>5, <2>2, <2>3
            DEF Stage, Repeating, Closing, TimingOut, Reporting, Cleaning
<1>. QED  BY <1>1, <1>3, <1>4, <1>5

CleanUp(p) == ForgetWindow(p) \/ DeleteWindow(p) \/ RemoveDeadline(p) \/ CleanupSources(p)

LEMMA CleanUpStage ==
    ASSUME IInv, RaceInv, SerialInv, Undisturbed, ~Overlap', NEW p \in Procs, CleanUp(p),
           NEW tx, tx = Tx(p)
    PROVE  Stage(tx)'
<1>1. /\ tx \in Txs /\ By(tx) = p /\ At(tx) = pc[p] /\ By(tx)' = p /\ At(tx)' = pc'[p]
      /\ (p # Consumer => p = tx) /\ tx # Consumer
  BY ConcludeHere, ProcFacts DEF SerialInv, CleanUp, Conclude
<1>2. Stage(tx)
  BY <1>1 DEF SerialInv
<1>3. CASE ForgetWindow(p)
  <2>1. pc'[p] = "delete" /\ windows'[tx] = NoWindow
    BY <1>1, <1>3, Shapes DEF ForgetWindow, Goto
  <2>. QED  BY <1>1, <2>1 DEF Stage, Repeating, Closing, TimingOut, Reporting, Cleaning
<1>4. CASE DeleteWindow(p)
  <2>1. pc[p] = "delete" /\ pc'[p] = "undeadline" /\ windows'[tx] = windows[tx]
        /\ rwin'[tx] = NoWindow
    BY <1>1, <1>4, Shapes DEF DeleteWindow, Goto
  <2>. QED  BY <1>1, <1>2, <2>1 DEF Stage, Repeating, Closing, TimingOut, Reporting, Cleaning
<1>5. CASE RemoveDeadline(p)
  <2>1. pc[p] = "undeadline" /\ pc'[p] = "unregister" /\ UNCHANGED <<windows, rwin>>
    BY <1>1, <1>5, Shapes DEF RemoveDeadline, Goto
  <2>. QED  BY <1>1, <1>2, <2>1 DEF Stage, Repeating, Closing, TimingOut, Reporting, Cleaning
<1>6. CASE CleanupSources(p)
  <2>1. /\ pc[p] = "unregister" /\ UNCHANGED <<windows, rwin>> /\ sources'[tx] = {}
        /\ pc'[p] = IF p = Consumer THEN "tally" ELSE "idle"
    BY <1>1, <1>6, Shapes DEF CleanupSources, Goto, Return
  <2>2. AtRest(tx)'
    BY <1>1, <1>2, <2>1 DEF Stage, AtRest, SameStores, Cleaning
  <2>. QED  BY <1>1, <2>1, <2>2 DEF Stage, Repeating, Closing, TimingOut, Reporting, Cleaning
<1>. QED  BY <1>3, <1>4, <1>5, <1>6 DEF CleanUp

-----------------------------------------------------------------------------
(* The stages of a transaction that is timed out.                          *)

LEMMA SpawnStage ==
    ASSUME IInv, RaceInv, SerialInv, Undisturbed, ~Overlap', NEW tx \in Txs, Spawn(tx)
    PROVE  Stage(tx)'
<1>1. /\ pc[tx] = "idle" /\ pc'[tx] = "take" /\ UNCHANGED <<windows, rwin, sources>>
  BY Shapes, ProcFacts DEF RaceInv, TimerOnce, Spawn, Goto, redisVars
<1>2. By(tx) = tx /\ At(tx) = "idle" /\ By(tx)' = tx /\ At(tx)' = "take"
  BY <1>1, TaskWorks, WorksHere, ProcFacts DEF SerialInv
<1>3. SameStores(tx)'
  BY <1>1, <1>2 DEF SerialInv, Stage, AtRest, SameStores
<1>. QED
  BY <1>2, <1>3, ProcFacts DEF Stage, Repeating, Closing, TimingOut, Reporting, Cleaning

LEMMA TakeStage ==
    ASSUME IInv, SerialInv, Undisturbed, ~Overlap', NEW tx \in Txs, Take(tx)
    PROVE  Stage(tx)'
<1>1. pc[tx] = "take"
  BY DEF Take
<1>2. By(tx) = tx /\ At(tx) = "take" /\ By(tx)' = tx /\ At(tx)' = pc'[tx]
  BY <1>1, TaskWorks, WorksHere, ProcFacts DEF SerialInv
<1>3. SameStores(tx)
  BY <1>2 DEF SerialInv, Stage
<1>4. windows'[tx] = NoWindow
  BY Shapes DEF Take
<1>5. CASE windows[tx] = NoWindow
  <2>1. pc'[tx] = "idle" /\ UNCHANGED <<rwin, sources>>
    BY <1>5, Shapes, ProcFacts DEF Take, Return, redisVars
  <2>2. AtRest(tx)'
    BY <1>3, <1>4, <1>5, <2>1 DEF AtRest, SameStores
  <2>. QED  BY <1>2, <2>1, <2>2, ProcFacts
            DEF Stage, Repeating, Closing, TimingOut, Reporting, Cleaning
<1>6. CASE windows[tx] # NoWindow
  <2>1. pc'[tx] = "upsert" /\ outcome'[tx] = "degraded"
    BY <1>3, <1>6, Shapes, ProcFacts DEF Take, Goto, SameStores, Complete
  <2>. QED  BY <1>2, <1>4, <2>1, ProcFacts
            DEF Stage, Repeating, Closing, TimingOut, Reporting, Cleaning
<1>. QED  BY <1>5, <1>6

-----------------------------------------------------------------------------
(* Every step of a serial run is about one transaction, or none.           *)

Handle == Register \/ OpenWindow \/ AddDeadline \/ StoreWindow \/ SaveWindow \/ Tally

Accept == Claim /\ ~AlreadyClaimed

About(tx) ==
    \/ tx = Entry.tx /\ (Accept \/ Handle)
    \/ \E p \in Procs : tx = Tx(p) /\ (Report(p) \/ CleanUp(p))
    \/ Spawn(tx) \/ Take(tx)

\* The stream is given, and failures and crashes add up.
LEMMA Onward ==
    ASSUME IInv, Next
    PROVE  /\ log' = log
           /\ faults \in Nat /\ faults' \in Nat /\ faults <= faults'
           /\ crashes \in Nat /\ crashes' \in Nat /\ crashes <= crashes'
<1>. faults \in Nat /\ crashes \in Nat
  BY DEF IInv, TypeOK
<1>1. CASE Consume
  BY <1>1 DEF Consume, XRead, NextEntry, Claim, Register, OpenWindow, AddDeadline, StoreWindow,
     SaveWindow, Tally, Count, Ack, streamVars, budgetVars
<1>2. CASE \E p \in Procs : Conclude(p)
  BY <1>2 DEF Conclude, UpsertTransaction, UpsertDetail, RecordMatchResult, Count, CreateIncident,
     AddEscalation, ForgetWindow, DeleteWindow, RemoveDeadline, CleanupSources, streamVars,
     budgetVars
<1>3. CASE (\E due \in SUBSET Txs : Scan(due)) \/ (\E tx \in Txs : Pop(tx) \/ Spawn(tx) \/ Take(tx))
  BY <1>3 DEF Scan, Pop, Spawn, Take, streamVars, budgetVars
<1>4. CASE Environment
  BY <1>4 DEF Environment, ProcFails, XReadLost, TimerFails, Fault, CrashAndRestart,
     ExpireCheckpoint, ExpireSources, streamVars, budgetVars
<1>. QED  BY <1>1, <1>2, <1>3, <1>4 DEF Next

\* Without a failure or a crash only keys expire.
LEMMA OnlyExpiry ==
    ASSUME IInv, Environment, Undisturbed, Undisturbed'
    PROVE  \E tx \in Txs : ExpireCheckpoint(tx) \/ ExpireSources(tx)
  BY DEF Environment, ProcFails, XReadLost, TimerFails, Fault, CrashAndRestart, Undisturbed

LEMMA Calm == ASSUME IInv, Next PROVE Undisturbed' => Undisturbed
  BY Onward DEF Undisturbed

\* The consumer's loop leaves every transaction alone.
LEMMA LoopSame ==
    ASSUME NEW tx, ~ConsumerOn(tx), ~ConsumerOn(tx)', Untouched(tx),
           UNCHANGED <<windows, rwin, sources, pgVars, deadlines, tpopped, scheduled>>, tx # Consumer
    PROVE  Same(tx)
  BY DEF Same, By, At, Untouched, StoresOf, IncidentsGrow, Due, pgVars

LEMMA TimerSame ==
    ASSUME NEW tx, UNCHANGED <<log, cur, procVars, windows, rwin, sources, pgVars, scheduled>>,
           Due(tx) => Due(tx)'
    PROVE  Same(tx)
  BY DEF Same, By, At, ConsumerOn, Entry, Untouched, StoresOf, IncidentsGrow, procVars, pgVars

LEMMA OneTransaction ==
    ASSUME IInv, RaceInv, SerialInv, SerialNext, Undisturbed', NEW tx \in Txs
    PROVE  Same(tx) \/ About(tx)
<1>1. /\ ~Overlap /\ ~Overlap' /\ Undisturbed /\ Next /\ tx # Consumer
  BY Calm, ProcFacts DEF SerialInv, SerialNext
<1>2. CASE XRead
  BY <1>2, TimerSame DEF XRead, Due, redisVars, timerVars
<1>3. CASE NextEntry
  <2>1. ~ConsumerOn(tx) /\ ~ConsumerOn(tx)'
    BY <1>3, Shapes, ProcFacts DEF NextEntry, Goto, FirstCall, ConsumerOn
  <2>2. Untouched(tx)
    BY <1>1, <1>3, Shapes, ProcFacts DEF NextEntry, Goto, Untouched
  <2>. QED  BY <1>1, <1>3, <2>1, <2>2, LoopSame DEF NextEntry, redisVars, timerVars
<1>4. CASE Claim
  <2>1. CASE pc'[Consumer] = "ack"
    <3>1. ~ConsumerOn(tx) /\ ~ConsumerOn(tx)'
      BY <1>4, <2>1 DEF Claim, ConsumerOn
    <3>2. Untouched(tx)
      BY <1>1, <1>4, Shapes, ProcFacts DEF Claim, Goto, Untouched
    <3>. QED  BY <1>1, <1>4, <3>1, <3>2, LoopSame DEF Claim, timerVars
  <2>2. CASE pc'[Consumer] = "register" /\ tx # Entry.tx
    <3>1. ~ConsumerOn(tx) /\ ~ConsumerOn(tx)'
      BY <1>4, <2>2 DEF Claim, ConsumerOn, Entry, streamVars
    <3>2. Untouched(tx)
      BY <1>1, <1>4, Shapes, ProcFacts DEF Claim, Goto, Untouched
    <3>. QED  BY <1>1, <1>4, <3>1, <3>2, LoopSame DEF Claim, timerVars
  <2>3. CASE pc'[Consumer] = "register" /\ tx = Entry.tx
    BY <1>4, <2>3, Shapes, ProcFacts DEF About, Accept, Claim, Goto
  <2>. QED  BY <1>4, <2>1, <2>2, <2>3, Shapes, ProcFacts DEF Claim, Goto
<1>5. CASE Ack
  <2>1. ~ConsumerOn(tx) /\ ~ConsumerOn(tx)'
    BY <1>5, Shapes, ProcFacts DEF Ack, Return, ConsumerOn
  <2>2. Untouched(tx)
    BY <1>1, <1>5, Shapes, ProcFacts DEF Ack, Return, Untouched, IInv, TypeOK, ProcTypeOK
  <2>. QED  BY <1>1, <1>5, <2>1, <2>2, LoopSame DEF Ack, redisVars, timerVars
<1>6. CASE Handle
  <2>1. Works(Consumer)
    BY <1>6, ConsumerWorks DEF Handle
  <2>2. tx # Entry.tx => Same(tx)
    BY <2>1, WorksElsewhere, ProcFacts
  <2>. QED  BY <1>6, <2>2 DEF About
<1>7. CASE \E p \in Procs : Conclude(p)
  <2>1. PICK p \in Procs : Conclude(p)
    BY <1>7
  <2>2. tx # Tx(p) => Same(tx)
    BY <2>1, ConcludeWorks, WorksElsewhere
  <2>3. Report(p) \/ CleanUp(p)
    BY <2>1 DEF Conclude, Report, CleanUp
  <2>. QED  BY <2>2, <2>3 DEF About
<1>8. CASE \E due \in SUBSET Txs : Scan(due)
  BY <1>8, TimerSame DEF Scan, Due, streamVars, redisVars
<1>9. CASE \E q \in Txs : Pop(q)
  BY <1>9, TimerSame DEF Pop, Due, streamVars
<1>10. CASE \E q \in Txs : Spawn(q) \/ Take(q)
  <2>1. PICK q \in Txs : Spawn(q) \/ Take(q)
    BY <1>10
  <2>2. Works(q) /\ Tx(q) = q /\ q \in Procs
    BY <2>1, TaskWorks, ProcFacts
  <2>3. tx # q => Same(tx)
    BY <2>2, WorksElsewhere
  <2>. QED  BY <2>1, <2>3 DEF About
<1>11. CASE Environment
  <2>1. PICK q \in Txs : ExpireCheckpoint(q) \/ ExpireSources(q)
    BY <1>1, <1>11, OnlyExpiry
  <2>2. By(q) = q /\ At(q) = "idle" /\ ~Due(q)
    BY <2>1 DEF ExpireCheckpoint, ExpireSources, Quiet, By, At, Due
  <2>3. AtRest(q)
    BY <1>1, <2>2 DEF SerialInv, Stage
  <2>. QED  BY <2>1, <2>2, <2>3 DEF ExpireCheckpoint, ExpireSources, AtRest, SameStores
<1>. QED
  BY <1>1, <1>2, <1>3, <1>4, <1>5, <1>6, <1>7, <1>8, <1>9, <1>10, <1>11
  DEF Next, Consume, Handle

-----------------------------------------------------------------------------
LEMMA AcceptHere ==
    ASSUME IInv, ~Overlap, ~Overlap', Accept, NEW tx, tx = Entry.tx
    PROVE  /\ tx \in Txs /\ Entry' = Entry /\ tx # Consumer
           /\ By(tx) = tx /\ At(tx) = "idle" /\ By(tx)' = Consumer /\ At(tx)' = "register"
<1>1. /\ pc[Consumer] = "claim" /\ pc'[Consumer] = "register" /\ Entry' = Entry
      /\ \A q \in Procs \ {Consumer} : pc'[q] = pc[q]
  BY Shapes, ProcFacts DEF Accept, Claim, Goto, Entry, streamVars
<1>2. tx \in Txs /\ tx # Consumer
  BY <1>1, EntryFacts, ProcFacts
<1>3. ConsumerOn(tx)' /\ ~ConsumerOn(tx)
  BY <1>1 DEF ConsumerOn
<1>4. pc'[tx] = "idle" /\ pc[tx] = "idle"
  BY <1>1, <1>2, <1>3, ProcFacts DEF Overlap
<1>. QED  BY <1>1, <1>2, <1>3, <1>4 DEF By, At

LEMMA AcceptStage ==
    ASSUME IInv, SerialInv, Undisturbed, ~Overlap', Accept, NEW tx, tx = Entry.tx
    PROVE  Stage(tx)'
<1>1. /\ tx \in Txs /\ tx # Consumer /\ At(tx) = "idle" /\ By(tx)' = Consumer
      /\ At(tx)' = "register"
  BY AcceptHere DEF SerialInv
<1>2. AtRest(tx)'
  BY <1>1 DEF SerialInv, Stage, AtRest, SameStores, Accept, Claim, Due, timerVars
<1>. QED
  BY <1>1, <1>2 DEF Stage, Repeating, Closing, TimingOut, Reporting, Cleaning

LEMMA NextSerial ==
    ASSUME IInv, RaceInv, SerialInv, SerialNext
    PROVE  SerialInv'
<1>. SUFFICES ASSUME Undisturbed', NEW tx \in Txs
              PROVE  Stage(tx)'
  BY DEF SerialInv, SerialNext
<1>1. ~Overlap /\ ~Overlap' /\ Undisturbed
  BY Calm DEF SerialInv, SerialNext
<1>2. CASE Same(tx)
  BY <1>1, <1>2, SameStage DEF SerialInv
<1>3. CASE About(tx)
  BY <1>1, <1>3, AcceptStage, RegisterStage, OpenWindowStage, AddDeadlineStage, StoreWindowStage,
     SaveWindowStage, TallyStage, ReportStage, CleanUpStage, SpawnStage, TakeStage
  DEF About, Handle
<1>. QED  BY <1>2, <1>3, OneTransaction

LEMMA InitSerial == Init => SerialInv
<1>. SUFFICES ASSUME Init PROVE SerialInv
  OBVIOUS
<1>1. \A tx \in Txs : ~ConsumerOn(tx) /\ pc[tx] = "idle" /\ AtRest(tx)
  BY ProcFacts DEF Init, ProcInit, ConsumerOn, AtRest, SameStores
<1>2. ASSUME NEW tx \in Txs PROVE Stage(tx)
  <2>1. By(tx) = tx /\ At(tx) = "idle" /\ tx # Consumer
    BY <1>1, ProcFacts DEF By, At
  <2>. QED  BY <1>1, <2>1 DEF Stage, Repeating, Closing, TimingOut, Reporting, Cleaning
<1>. QED  BY <1>1, <1>2 DEF SerialInv, Overlap

LEMMA SerialIsSpec == SerialSpec => Spec
<1>1. [SerialNext]_vars => [Next]_vars
  BY DEF SerialNext
<1>. QED  BY <1>1, PTL DEF SerialSpec, Spec

\* SerialInv holds of every reachable state of a serial run: as long as no call
\* fails and the process lives, the stores of a transaction are what the call
\* that is next for it expects.
THEOREM SerialStages == SerialSpec => []SerialInv
<1>1. SerialInv /\ UNCHANGED vars => SerialInv'
  <2>. SUFFICES ASSUME SerialInv, UNCHANGED vars PROVE SerialInv'
    OBVIOUS
  <2>1. \A tx \in Txs : Same(tx)
    BY DEF vars, streamVars, procVars, redisVars, timerVars, pgVars, Same, By, At, ConsumerOn,
       Entry, Untouched, StoresOf, IncidentsGrow, Due
  <2>2. ~Overlap'
    BY DEF SerialInv, Overlap, ConsumerOn, Entry, vars, streamVars, procVars
  <2>3. Undisturbed' => Undisturbed
    BY DEF Undisturbed, vars, budgetVars
  <2>. QED  BY <2>1, <2>2, <2>3, SameStage DEF SerialInv
<1>2. IInv /\ RaceInv /\ SerialInv /\ [SerialNext]_vars => SerialInv'
  BY <1>1, NextSerial
<1>3. Init => SerialInv
  BY InitSerial
<1>. QED
  BY <1>2, <1>3, SerialIsSpec, EngineInvariant, EngineKeepsEvents, PTL DEF SerialSpec

LEMMA StagesAgree == ASSUME SerialInv, faults = 0 PROVE StoresAgree
<1>. SUFFICES ASSUME NEW tx \in Txs, Quiet(tx), crashes = 0
              PROVE  /\ rwin[tx] = windows[tx]
                     /\ windows[tx] = NoWindow => sources[tx] = {}
                     /\ windows[tx] # NoWindow =>
                          sources[tx] = SourcesSeen(windows[tx]) /\ Tracked(tx)
  BY DEF StoresAgree
<1>1. At(tx) = "idle"
  BY DEF Quiet, By, At
<1>. QED  BY <1>1 DEF SerialInv, Undisturbed, Stage, AtRest, SameStores, Due, Tracked

\* Memory, checkpoint, source set and deadline of a transaction at rest tell one
\* story: finalize, timeout, duplicate and clean-up leave none of them behind.
THEOREM EngineStoresAgree == SerialSpec => [](faults = 0 => StoresAgree)
  BY StagesAgree, SerialStages, PTL

-----------------------------------------------------------------------------
(* The tables.                                                             *)

LEMMA MatchedRows ==
    ASSUME NEW w, SourcesSeen(w) = Source, Verdict(w) = "matched", NEW s \in Source
    PROVE  BuildDetails(w)[s].is_matched /\ BuildDetails(w)[s].reason = "none"
<1>1. MismatchIncidents(w) = <<>>
  BY DEF Verdict
<1>2. \A t \in Source : w[t] # NoEvent
  BY DEF SourcesSeen
<1>3. ~CurrencyMismatch(w) /\ ~AmountMismatch(w) /\ ~FeeMismatch(w)
  BY <1>1 DEF MismatchIncidents
<1>4. RowReason(w, s) = "none"
  BY <1>3 DEF RowReason, Source
<1>5. RowMatches(w, s)
  BY <1>2, <1>3 DEF RowMatches, BothSeen, Counterpart, ExpectedAmount, AmountMismatch, FeeMismatch,
     Source
<1>. QED  BY <1>4, <1>5 DEF BuildDetails

LEMMA MismatchRow ==
    ASSUME NEW w, SourcesSeen(w) = Source, Verdict(w) = "mismatch"
    PROVE  /\ MismatchIncidents(w) # <<>>
           /\ \E s \in Source : BuildDetails(w)[s].reason # "none"
<1>1. MismatchIncidents(w) # <<>>
  BY DEF Verdict
<1>2. CurrencyMismatch(w) \/ AmountMismatch(w) \/ FeeMismatch(w)
  BY <1>1 DEF MismatchIncidents
<1>3. RowReason(w, "gateway") # "none"
  BY <1>2 DEF RowReason
<1>4. "gateway" \in Source
  BY DEF Source
<1>. QED  BY <1>1, <1>3, <1>4 DEF BuildDetails

LEMMA SourceCount == IsFiniteSet(Source) /\ Cardinality(Source) = 3
<1>1. IsFiniteSet({"merchant"}) /\ Cardinality({"merchant"}) = 1
  BY FS_Singleton
<1>2. IsFiniteSet({"merchant"} \cup {"gateway"}) /\ Cardinality({"merchant"} \cup {"gateway"}) = 2
  BY <1>1, FS_AddElement
<1>3. /\ IsFiniteSet(({"merchant"} \cup {"gateway"}) \cup {"bank"})
      /\ Cardinality(({"merchant"} \cup {"gateway"}) \cup {"bank"}) = 3
  BY <1>2, FS_AddElement
<1>4. Source = ({"merchant"} \cup {"gateway"}) \cup {"bank"}
  BY DEF Source
<1>. QED  BY <1>3, <1>4

LEMMA CompleteMeansAll ==
    ASSUME ExpectedSources >= 3, NEW w, Complete(w)
    PROVE  SourcesSeen(w) = Source
<1>1. IsFiniteSet(Source) /\ Cardinality(Source) = 3
  BY SourceCount
<1>2. SourcesSeen(w) \subseteq Source
  BY DEF SourcesSeen
<1>3. IsFiniteSet(SourcesSeen(w)) /\ Cardinality(SourcesSeen(w)) \in Nat
  BY <1>1, <1>2, FS_Subset, FS_CardinalityType
<1>4. Cardinality(SourcesSeen(w)) >= Cardinality(Source)
  BY <1>1, <1>3, EngineAssumption DEF Complete, IsComplete
<1>. QED  BY <1>1, <1>2, <1>3, <1>4, FS_Subset

LEMMA ReportedStands ==
    ASSUME IInv, IncidentsGrow, NEW tx, NEW kinds, Reported(tx, kinds)
    PROVE  Reported(tx, kinds)'
<1>1. \A i \in scheduled : i \in DOMAIN incidents
  <2>1. incidents \in Seq([tx : Txs, kind : IncidentKinds, window : Slots(Events)])
        /\ scheduled \subseteq 1..Len(incidents)
    BY DEF IInv, TypeOK, RedisTypeOK, PgTypeOK
  <2>. QED  BY <2>1
<1>. QED  BY <1>1 DEF Reported, IncidentsGrow

LEMMA ToldStands ==
    ASSUME IInv, IncidentsGrow, NEW tx, Told(tx),
           status'[tx] = status[tx], details'[tx] = details[tx]
    PROVE  Told(tx)'
  BY ReportedStands DEF Told

LEMMA SameTells == ASSUME IInv, NEW tx, Same(tx), Tells(tx) PROVE Tells(tx)'
<1>. DEFINE p == By(tx)
<1>1. By(tx) \in {tx, Consumer} /\ By(tx)' = By(tx) /\ At(tx)' = At(tx) /\ IncidentsGrow
  BY DEF By, Same
<1>2. /\ outcome'[p] = outcome[p] /\ win'[p] = win[p] /\ rows'[p] = rows[p]
      /\ todo'[p] = todo[p] /\ iid'[p] = iid[p]
      /\ windows'[tx] = windows[tx] /\ status'[tx] = status[tx] /\ details'[tx] = details[tx]
  BY DEF Same, Untouched, StoresOf
<1>3. Told(tx) => Told(tx)'
  BY <1>1, <1>2, ToldStands
<1>4. (Telling(tx)' <=> Telling(tx)) /\ (Judging(tx)' <=> Judging(tx))
  BY <1>1, <1>2 DEF Telling, Judging
<1>5. RowsWritten(tx) => RowsWritten(tx)'
  BY <1>1, <1>2 DEF RowsWritten
<1>6. IncidentsOnTheirWay(tx)'
  <2>1. \A kinds : Reported(tx, kinds) => Reported(tx, kinds)'
    BY <1>1, ReportedStands
  <2>. QED  BY <1>1, <1>2, <2>1 DEF Tells, IncidentsOnTheirWay, IncidentsGrow
<1>. QED  BY <1>1, <1>2, <1>3, <1>4, <1>5, <1>6 DEF Tells

\* Before a decision and after it the tables are left alone.
LEMMA TablesStandStill ==
    ASSUME IInv, IncidentsGrow, NEW tx, Tells(tx),
           status'[tx] = status[tx], details'[tx] = details[tx],
           At(tx) \notin Stepping, At(tx)' \notin Stepping,
           status[tx] = "pending" /\ windows[tx] # NoWindow => windows'[tx] # NoWindow
    PROVE  Tells(tx)'
<1>1. ~Telling(tx) /\ ~Telling(tx)' /\ ~Judging(tx)'
  BY DEF Telling, Judging, Stepping
<1>2. Told(tx)'
  BY <1>1, ToldStands DEF Tells
<1>3. IncidentsOnTheirWay(tx)' /\ At(tx)' \notin Cleaning
  BY DEF IncidentsOnTheirWay, Stepping, Reporting, Cleaning
<1>4. status'[tx] = "pending" => windows'[tx] # NoWindow
  BY DEF Tells, Stepping, Reporting
<1>. QED  BY <1>1, <1>2, <1>3, <1>4 DEF Tells

\* A decision starts: of two or three sources, on all of them, or for want of one.
LEMMA DecisionStarts ==
    ASSUME IInv, IncidentsGrow, NEW tx, Tells(tx),
           status'[tx] = status[tx], details'[tx] = details[tx],
           At(tx) \notin Stepping, At(tx)' = "upsert",
           status[tx] = "pending" /\ windows[tx] # NoWindow =>
              windows'[tx] # NoWindow \/ By(tx)' = tx,
           NEW p, p = By(tx)',
           \A i \in DOMAIN todo'[p] : todo'[p][i] \in KindsOf(outcome'[p]),
           outcome'[p] \in {"matched", "mismatch"} =>
              /\ SourcesSeen(win'[p]) = Source /\ outcome'[p] = Verdict(win'[p])
              /\ rows'[p] = Source
              /\ todo'[p] = MismatchIncidents(win'[p])
    PROVE  Tells(tx)'
<1>1. ~Telling(tx) /\ ~Telling(tx)'
  BY DEF Telling, Stepping, Reporting, Cleaning
<1>2. Told(tx)'
  BY <1>1, ToldStands DEF Tells
<1>3. Judging(tx)' => RowsWritten(tx)'
  BY DEF Judging, RowsWritten
<1>4. IncidentsOnTheirWay(tx)'
  BY MismatchRow DEF IncidentsOnTheirWay, Cleaning
<1>5. status'[tx] = "pending" =>
        At(tx)' \notin Cleaning /\ (windows'[tx] # NoWindow \/ By(tx)' = tx)
  BY DEF Tells, Stepping, Reporting, Cleaning
<1>. QED  BY <1>1, <1>2, <1>3, <1>4, <1>5 DEF Tells

LEMMA AcceptTells ==
    ASSUME IInv, SerialInv, TablesInv, Undisturbed, ~Overlap', Accept, NEW tx, tx = Entry.tx
    PROVE  Tells(tx)'
<1>1. tx \in Txs /\ At(tx) = "idle" /\ At(tx)' = "register"
  BY AcceptHere DEF SerialInv
<1>2. UNCHANGED <<windows, status, details>> /\ IncidentsGrow
  BY DEF Accept, Claim, pgVars, IncidentsGrow
<1>. QED  BY <1>1, <1>2, TablesStandStill DEF TablesInv, Stepping, Reporting, Cleaning

LEMMA HandleTells ==
    ASSUME ExpectedSources >= 3, IInv, SerialInv, TablesInv, Undisturbed, ~Overlap', Handle,
           NEW tx, tx = Entry.tx
    PROVE  Tells(tx)'
<1>1. /\ tx \in Txs /\ tx # Consumer /\ By(tx) = Consumer /\ At(tx) = pc[Consumer]
      /\ pc'[Consumer] \notin {"idle", "claim", "ack"} =>
           By(tx)' = Consumer /\ At(tx)' = pc'[Consumer]
      /\ pc'[Consumer] \in {"idle", "claim", "ack"} => At(tx)' = "idle"
  BY ConsumerWorks, ConsumerHere, ProcFacts DEF SerialInv, Handle
<1>2. UNCHANGED <<status, details>> /\ IncidentsGrow /\ Tells(tx)
  BY <1>1 DEF Handle, Register, OpenWindow, AddDeadline, StoreWindow, SaveWindow, Tally, pgVars,
     redisVars, IncidentsGrow, TablesInv
<1>3. At(tx) \notin Stepping
  BY <1>1 DEF Handle, Register, OpenWindow, AddDeadline, StoreWindow, SaveWindow, Tally,
     Stepping, Reporting, Cleaning
<1>4. windows[tx] # NoWindow => windows'[tx] # NoWindow
  BY <1>1, Shapes, ProcFacts, EmptyWindowFacts, WindowsAreNotNoWindow
  DEF Handle, Register, OpenWindow, AddDeadline, StoreWindow, SaveWindow, Tally
<1>5. CASE pc'[Consumer] # "upsert"
  <2>1. pc'[Consumer] \in {"open", "deadline", "store", "save", "restore", "resave", "tally", "ack"}
    BY <1>5, Shapes, ProcFacts
    DEF Handle, Register, OpenWindow, AddDeadline, StoreWindow, SaveWindow, Finalize, Tally, Goto
  <2>2. At(tx)' \notin Stepping
    BY <1>1, <2>1 DEF Stepping, Reporting, Cleaning
  <2>. QED  BY <1>2, <1>3, <1>4, <2>2, TablesStandStill
<1>6. CASE pc'[Consumer] = "upsert" /\ Register
  <2>1. outcome'[Consumer] = "pending" /\ todo'[Consumer] = <<"duplicate">>
    BY <1>6, Shapes, ProcFacts DEF Register, Goto, IInv, TypeOK, ProcTypeOK
  <2>2. \A i \in DOMAIN todo'[Consumer] : todo'[Consumer][i] \in KindsOf(outcome'[Consumer])
    BY <2>1 DEF KindsOf
  <2>. QED  BY <1>1, <1>2, <1>3, <1>4, <1>6, <2>1, <2>2, DecisionStarts, ProcFacts
<1>7. CASE pc'[Consumer] = "upsert" /\ SaveWindow
  <2>. DEFINE w == win[Consumer]
  <2>1. /\ Complete(w) /\ win' = win /\ outcome'[Consumer] = Verdict(w)
        /\ rows'[Consumer] = SourcesSeen(w) /\ todo'[Consumer] = MismatchIncidents(w)
    BY <1>7, Shapes, ProcFacts DEF SaveWindow, Finalize, Goto, Complete, IInv, TypeOK, ProcTypeOK
  <2>2. SourcesSeen(w) = Source
    BY <2>1, CompleteMeansAll
  <2>3. Verdict(w) = "matched" => MismatchIncidents(w) = <<>>
    BY DEF Verdict
  <2>4. \A i \in DOMAIN todo'[Consumer] : todo'[Consumer][i] \in KindsOf(outcome'[Consumer])
    BY <2>1, <2>3, VerdictFacts, MismatchKinds DEF KindsOf
  <2>. QED  BY <1>1, <1>2, <1>3, <1>4, <1>7, <2>1, <2>2, <2>4, DecisionStarts, ProcFacts
<1>8. pc'[Consumer] = "upsert" => Register \/ SaveWindow
  BY Shapes, ProcFacts DEF Handle, OpenWindow, AddDeadline, StoreWindow, Tally, Goto
<1>. QED  BY <1>5, <1>6, <1>7, <1>8

LEMMA TaskTells ==
    ASSUME IInv, RaceInv, SerialInv, TablesInv, Undisturbed, ~Overlap',
           NEW tx \in Txs, Spawn(tx) \/ Take(tx)
    PROVE  Tells(tx)'
<1>1. /\ By(tx) = tx /\ At(tx) = pc[tx] /\ By(tx)' = tx /\ At(tx)' = pc'[tx]
      /\ IncidentsGrow /\ tx \in Procs
  BY TaskWorks, WorksHere, ProcFacts DEF SerialInv, Works
<1>2. UNCHANGED <<status, details>> /\ Tells(tx) /\ pc[tx] \in {"idle", "take"}
  BY <1>1 DEF Spawn, Take, pgVars, TablesInv, RaceInv, TimerOnce
<1>3. CASE Spawn(tx)
  <2>1. pc'[tx] = "take" /\ windows' = windows
    BY <1>1, <1>3, Shapes DEF Spawn, Goto
  <2>. QED  BY <1>1, <1>2, <2>1, TablesStandStill DEF Stepping, Reporting, Cleaning
<1>4. CASE Take(tx) /\ windows[tx] = NoWindow
  <2>1. pc'[tx] = "idle"
    BY <1>1, <1>4, Shapes DEF Take, Return
  <2>. QED  BY <1>1, <1>2, <1>4, <2>1, TablesStandStill DEF Stepping, Reporting, Cleaning
<1>5. CASE Take(tx) /\ windows[tx] # NoWindow
  <2>1. ~Complete(windows[tx])
    BY <1>1, <1>5 DEF SerialInv, Stage, SameStores, Take
  <2>2. /\ pc'[tx] = "upsert" /\ outcome'[tx] = "degraded" /\ todo'[tx] = <<"missing_source">>
    BY <1>1, <1>5, <2>1, Shapes DEF Take, Goto, Complete, IInv, TypeOK, ProcTypeOK
  <2>3. \A i \in DOMAIN todo'[tx] : todo'[tx][i] \in KindsOf(outcome'[tx])
    BY <2>2 DEF KindsOf
  <2>4. At(tx) \notin Stepping
    BY <1>1, <1>2 DEF Stepping, Reporting, Cleaning
  <2>. QED  BY <1>1, <1>2, <2>2, <2>3, <2>4, DecisionStarts
<1>. QED  BY <1>3, <1>4, <1>5

LEMMA TellsHere ==
    ASSUME IInv, RaceInv, SerialInv, TablesInv, Undisturbed, ~Overlap', NEW p \in Procs,
           Conclude(p), NEW tx, tx = Tx(p)
    PROVE  /\ tx \in Txs /\ tx # Consumer /\ By(tx) = p /\ At(tx) = pc[p]
           /\ By(tx)' = p /\ At(tx)' = pc'[p] /\ (p # Consumer => p = tx)
           /\ Stage(tx) /\ Tells(tx) /\ IncidentsGrow
  BY ConcludeHere, ConcludeWorks, ProcFacts DEF SerialInv, TablesInv, Works

\* The window of a transaction that is pending stays while a second event of a
\* source is reported.
LEMMA PendingOpen ==
    ASSUME IInv, NEW p \in Procs, Report(p), NEW tx, Stage(tx), Tells(tx), By(tx) = p,
           At(tx) = pc[p], At(tx)' = pc'[p], status'[tx] = outcome[p]
    PROVE  status'[tx] = "pending" =>
              /\ At(tx)' \notin Cleaning
              /\ windows'[tx] # NoWindow \/ (By(tx)' = tx /\ At(tx)' = "upsert")
<1>1. outcome[p] = "pending" => Repeating(tx)
  BY ReportFacts DEF Repeating
<1>2. outcome[p] = "pending" => windows'[tx] # NoWindow
  BY <1>1, ReportFacts DEF Stage
<1>3. outcome[p] = "pending" => pc'[p] \notin Cleaning
  BY ReportFacts DEF Reporting, Cleaning
<1>. QED  BY <1>2, <1>3

LEMMA UpsertTells ==
    ASSUME IInv, RaceInv, SerialInv, TablesInv, Undisturbed, ~Overlap', NEW p \in Procs,
           UpsertTransaction(p), NEW tx, tx = Tx(p)
    PROVE  Tells(tx)'
<1>1. /\ tx \in Txs /\ tx # Consumer /\ By(tx) = p /\ At(tx) = pc[p]
      /\ By(tx)' = p /\ At(tx)' = pc'[p] /\ (p # Consumer => p = tx)
      /\ Stage(tx) /\ Tells(tx) /\ IncidentsGrow
  BY TellsHere DEF Conclude
<1>2. /\ pc[p] = "upsert" /\ pc'[p] = AfterUpsert(p) /\ status'[tx] = outcome[p]
      /\ UNCHANGED <<win, outcome, rows, todo, iid, details, incidents, scheduled, windows>>
  BY <1>1, Shapes DEF UpsertTransaction, Goto, redisVars
<1>3. /\ pc'[p] \in {"create", "record", "details"}
      /\ outcome[p] \in {"matched", "mismatch"} /\ pc'[p] # "details" => rows[p] = {}
  BY <1>2, AfterFacts DEF AfterUpsert
<1>4. Telling(tx)'
  BY <1>1, <1>3 DEF Telling, Reporting
<1>5. Judging(tx)' => RowsWritten(tx)'
  <2>. SUFFICES ASSUME Judging(tx)' PROVE RowsWritten(tx)'
    OBVIOUS
  <2>1. Judging(tx) /\ outcome[p] \in {"matched", "mismatch"}
    BY <1>1, <1>2 DEF Judging, Reporting
  <2>. QED  BY <1>1, <1>2, <1>3, <2>1 DEF Tells, RowsWritten
<1>6. IncidentsOnTheirWay(tx)'
  BY <1>1, <1>2, <1>3 DEF Tells, IncidentsOnTheirWay, Reporting, Cleaning
<1>7. status'[tx] = outcome'[By(tx)']
  BY <1>1, <1>2
<1>. QED  BY <1>1, <1>2, <1>4, <1>5, <1>6, <1>7, PendingOpen DEF Tells, Report

LEMMA DetailTells ==
    ASSUME IInv, RaceInv, SerialInv, TablesInv, Undisturbed, ~Overlap', NEW p \in Procs,
           UpsertDetail(p), NEW tx, tx = Tx(p)
    PROVE  Tells(tx)'
<1>1. /\ tx \in Txs /\ tx # Consumer /\ By(tx) = p /\ At(tx) = pc[p]
      /\ By(tx)' = p /\ At(tx)' = pc'[p] /\ (p # Consumer => p = tx)
      /\ Stage(tx) /\ Tells(tx) /\ IncidentsGrow
  BY TellsHere DEF Conclude
<1>2. PICK s \in NextRow(p) :
         /\ details' = [details EXCEPT ![tx] = PutRow(@, s, BuildDetails(win[p])[s])]
         /\ rows' = [rows EXCEPT ![p] = @ \ {s}]
         /\ Goto(p, IF rows[p] = {s} THEN AfterRows(p) ELSE "details")
  BY DEF UpsertDetail
<1>3. /\ pc[p] = "details" /\ rows'[p] = rows[p] \ {s} /\ s \in rows[p]
      /\ details'[tx] = PutRow(details[tx], s, BuildDetails(win[p])[s])
      /\ pc'[p] = (IF rows[p] = {s} THEN AfterRows(p) ELSE "details")
      /\ UNCHANGED <<win, outcome, todo, iid, status, incidents, scheduled, windows>>
  BY <1>1, <1>2, Shapes DEF UpsertDetail, Goto, NextRow, redisVars, IInv, TypeOK, PgTypeOK
<1>4. pc'[p] \in {"create", "record", "details"} /\ (pc'[p] # "details" => rows'[p] = {})
  BY <1>3, AfterFacts
<1>5. Telling(tx)' /\ status'[tx] = outcome'[By(tx)'] /\ status'[tx] = outcome[p]
  BY <1>1, <1>3, <1>4 DEF Tells, Telling, Reporting
<1>6. Judging(tx)' => RowsWritten(tx)'
  <2>. SUFFICES ASSUME Judging(tx)' PROVE RowsWritten(tx)'
    OBVIOUS
  <2>1. Judging(tx)
    BY <1>1, <1>3 DEF Judging, Reporting
  <2>2. RowsWritten(tx)
    BY <1>1, <2>1 DEF Tells
  <2>3. ASSUME NEW t \in Source \ rows'[p]
        PROVE  t \in DOMAIN details'[tx] /\ details'[tx][t] = BuildDetails(win'[p])[t]
    <3>1. CASE t = s
      BY <1>3, <3>1 DEF PutRow
    <3>2. CASE t # s
      <4>1. t \in DOMAIN details[tx] /\ details[tx][t] = BuildDetails(win[p])[t]
        BY <1>1, <1>3, <2>2, <2>3, <3>2 DEF RowsWritten
      <4>. QED  BY <1>3, <3>2, <4>1 DEF PutRow
    <3>. QED  BY <3>1, <3>2
  <2>4. SourcesSeen(win'[p]) = Source /\ outcome'[p] = Verdict(win'[p])
    BY <1>1, <1>3, <2>2 DEF RowsWritten
  <2>. QED  BY <1>1, <1>4, <2>3, <2>4 DEF RowsWritten
<1>7. IncidentsOnTheirWay(tx)'
  BY <1>1, <1>3, <1>4 DEF Tells, IncidentsOnTheirWay, Reporting, Cleaning
<1>. QED  BY <1>1, <1>5, <1>6, <1>7, PendingOpen DEF Tells, Report

LEMMA RecordTells ==
    ASSUME IInv, RaceInv, SerialInv, TablesInv, Undisturbed, ~Overlap', NEW p \in Procs,
           RecordMatchResult(p), NEW tx, tx = Tx(p)
    PROVE  Tells(tx)'
<1>1. /\ tx \in Txs /\ tx # Consumer /\ By(tx) = p /\ At(tx) = pc[p]
      /\ By(tx)' = p /\ At(tx)' = pc'[p] /\ (p # Consumer => p = tx)
      /\ Stage(tx) /\ Tells(tx) /\ IncidentsGrow
  BY TellsHere DEF Conclude
<1>2. /\ pc[p] = "record" /\ pc'[p] = (IF todo[p] = <<>> THEN AfterIncidents(p) ELSE "create")
      /\ UNCHANGED <<win, outcome, rows, todo, iid, details, status, incidents, scheduled, windows>>
  BY <1>1, Shapes DEF RecordMatchResult, Goto, pgVars
<1>3. status[tx] = outcome[p] /\ status[tx] \in Statuses
  BY <1>1, <1>2, Shapes DEF Tells, Telling, Reporting
<1>4. todo[p] = <<>> => outcome[p] = "matched"
  <2>1. outcome[p] \in {"pending", "degraded"} => todo[p] # <<>>
    BY <1>2 DEF IInv, Sound, DecisionJustified
  <2>2. outcome[p] = "mismatch" => todo[p] # <<>>
    BY <1>1, <1>2 DEF Tells, IncidentsOnTheirWay
  <2>3. outcome[p] # "none"
    BY <1>1, <1>2, <1>3 DEF IInv, Sound, WriteOrdered, Reporting
  <2>. QED  BY <1>3, <2>1, <2>2, <2>3 DEF Statuses, Final
<1>5. pc'[p] = "create" \/ (pc'[p] = "forget" /\ outcome[p] = "matched")
  BY <1>2, <1>4 DEF AfterIncidents
<1>6. Telling(tx)' /\ status'[tx] = outcome'[By(tx)'] /\ status'[tx] = outcome[p]
  BY <1>1, <1>2, <1>3, <1>5 DEF Telling, Reporting, Cleaning
<1>7. Judging(tx)' => RowsWritten(tx)'
  <2>1. Judging(tx)' => Judging(tx)
    BY <1>1, <1>2 DEF Judging, Reporting
  <2>. QED  BY <1>1, <1>2, <2>1 DEF Tells, RowsWritten
<1>8. IncidentsOnTheirWay(tx)'
  BY <1>1, <1>2, <1>5 DEF Tells, IncidentsOnTheirWay, Reporting, Cleaning
<1>. QED  BY <1>1, <1>6, <1>7, <1>8, PendingOpen DEF Tells, Report

LEMMA CreateTells ==
    ASSUME IInv, RaceInv, SerialInv, TablesInv, Undisturbed, ~Overlap', NEW p \in Procs,
           CreateIncident(p), NEW tx, tx = Tx(p)
    PROVE  Tells(tx)'
<1>1. /\ tx \in Txs /\ tx # Consumer /\ By(tx) = p /\ At(tx) = pc[p]
      /\ By(tx)' = p /\ At(tx)' = pc'[p] /\ (p # Consumer => p = tx)
      /\ Stage(tx) /\ Tells(tx) /\ IncidentsGrow
  BY TellsHere DEF Conclude
<1>. DEFINE new == [tx |-> tx, kind |-> Head(todo[p]), window |-> win[p]]
<1>2. /\ pc[p] = "create" /\ pc'[p] = "escalate"
      /\ UNCHANGED <<win, outcome, rows, details, status, windows>>
      /\ incidents' = Append(incidents, new) /\ iid'[p] = Len(incidents) + 1
      /\ todo'[p] = Tail(todo[p])
  BY <1>1, Shapes DEF CreateIncident, Goto, IInv, TypeOK, ProcTypeOK
<1>3. status'[tx] = outcome[p] /\ status'[tx] = outcome'[By(tx)'] /\ Telling(tx)'
  BY <1>1, <1>2 DEF Tells, Telling, Reporting
<1>4. Judging(tx)' => RowsWritten(tx)'
  <2>1. Judging(tx)' => Judging(tx)
    BY <1>1, <1>2 DEF Judging, Reporting
  <2>. QED  BY <1>1, <1>2, <2>1 DEF Tells, RowsWritten
<1>5. todo[p] \in Seq(IncidentKinds) /\ todo[p] # <<>>
  BY <1>2 DEF IInv, TypeOK, ProcTypeOK, Sound, DecisionJustified
<1>6. \A i \in DOMAIN todo[p] : todo[p][i] \in KindsOf(outcome[p])
  BY <1>1, <1>2 DEF Tells, IncidentsOnTheirWay, Reporting
<1>7. Head(todo[p]) \in KindsOf(outcome[p]) /\ \A i \in DOMAIN todo'[p] : todo'[p][i] \in KindsOf(outcome[p])
  <2>1. Head(todo[p]) = todo[p][1] /\ 1 \in DOMAIN todo[p]
    BY <1>5
  <2>2. \A i \in DOMAIN Tail(todo[p]) : i + 1 \in DOMAIN todo[p] /\ Tail(todo[p])[i] = todo[p][i + 1]
    BY <1>5
  <2>. QED  BY <1>2, <1>6, <2>1, <2>2
<1>8. iid'[p] \in DOMAIN incidents' /\ incidents'[iid'[p]] = new
  <2>1. incidents \in Seq([tx : Txs, kind : IncidentKinds, window : Slots(Events)])
    BY DEF IInv, TypeOK, PgTypeOK
  <2>. HIDE DEF new
  <2>. QED  BY <1>2, <2>1
<1>9. IncidentsOnTheirWay(tx)'
  BY <1>1, <1>2, <1>7, <1>8 DEF IncidentsOnTheirWay, Reporting, Cleaning
<1>. QED  BY <1>1, <1>3, <1>4, <1>9, PendingOpen DEF Tells, Report

LEMMA EscalateTells ==
    ASSUME IInv, RaceInv, SerialInv, TablesInv, Undisturbed, ~Overlap', NEW p \in Procs,
           AddEscalation(p), NEW tx, tx = Tx(p)
    PROVE  Tells(tx)'
<1>1. /\ tx \in Txs /\ tx # Consumer /\ By(tx) = p /\ At(tx) = pc[p]
      /\ By(tx)' = p /\ At(tx)' = pc'[p] /\ (p # Consumer => p = tx)
      /\ Stage(tx) /\ Tells(tx) /\ IncidentsGrow
  BY TellsHere DEF Conclude
<1>2. /\ pc[p] = "escalate" /\ pc'[p] = (IF todo[p] = <<>> THEN AfterIncidents(p) ELSE "create")
      /\ UNCHANGED <<win, outcome, rows, todo, iid, details, status, incidents, windows>>
      /\ scheduled' = scheduled \cup {iid[p]}
  BY <1>1, Shapes DEF AddEscalation, Goto, pgVars
<1>3. status[tx] = outcome[p]
  BY <1>1, <1>2 DEF Tells, Telling, Reporting
<1>4. Reported(tx, KindsOf(outcome[p]))'
  BY <1>1, <1>2 DEF Tells, IncidentsOnTheirWay, Reported
<1>5. \/ pc'[p] = "create"
      \/ pc'[p] = "forget" /\ outcome[p] # "pending"
      \/ pc'[p] = "tally" /\ outcome[p] = "pending"
  BY <1>2 DEF AfterIncidents
<1>6. ~Telling(tx)' => Told(tx)'
  <2>. SUFFICES ASSUME ~Telling(tx)' PROVE Told(tx)'
    OBVIOUS
  <2>1. status'[tx] = "pending"
    BY <1>1, <1>2, <1>3, <1>5 DEF Telling, Reporting, Cleaning
  <2>. QED  BY <1>2, <1>3, <1>4, <2>1 DEF Told
<1>7. status'[tx] = outcome'[By(tx)'] /\ status'[tx] = outcome[p]
  BY <1>1, <1>2, <1>3
<1>8. Judging(tx)' => RowsWritten(tx)'
  <2>1. Judging(tx)' => Judging(tx)
    BY <1>1, <1>2 DEF Judging, Reporting
  <2>. QED  BY <1>1, <1>2, <1>5, <2>1 DEF Tells, RowsWritten
<1>9. IncidentsOnTheirWay(tx)'
  BY <1>1, <1>2, <1>4, <1>5 DEF Tells, IncidentsOnTheirWay, Reporting, Cleaning
<1>. QED  BY <1>1, <1>6, <1>7, <1>8, <1>9, PendingOpen DEF Tells, Report

LEMMA CleanUpTells ==
    ASSUME IInv, RaceInv, SerialInv, TablesInv, Undisturbed, ~Overlap', NEW p \in Procs,
           CleanUp(p), NEW tx, tx = Tx(p)
    PROVE  Tells(tx)'
<1>1. /\ tx \in Txs /\ tx # Consumer /\ By(tx) = p /\ At(tx) = pc[p]
      /\ By(tx)' = p /\ At(tx)' = pc'[p] /\ (p # Consumer => p = tx)
      /\ Stage(tx) /\ Tells(tx) /\ IncidentsGrow
  BY TellsHere DEF CleanUp, Conclude
<1>2. pc[p] \in Cleaning /\ UNCHANGED <<details, status, incidents, scheduled>>
  BY DEF CleanUp, ForgetWindow, DeleteWindow, RemoveDeadline, CleanupSources, Cleaning, pgVars,
     redisVars
<1>3. /\ status[tx] = outcome[p] /\ status[tx] # "pending"
      /\ outcome[p] = "matched" \/ Reported(tx, KindsOf(outcome[p]))
      /\ Judging(tx) => RowsWritten(tx)
  BY <1>1, <1>2 DEF Tells, Telling, IncidentsOnTheirWay
<1>4. CASE pc'[p] \in Cleaning
  <2>1. UNCHANGED <<win, outcome, rows, todo, iid>>
    BY <1>1, <1>4, Shapes
    DEF CleanUp, ForgetWindow, DeleteWindow, RemoveDeadline, CleanupSources, Return, Goto, Cleaning
  <2>2. Telling(tx)' /\ (Judging(tx)' => Judging(tx))
    BY <1>1, <1>2, <1>4, <2>1 DEF Telling, Judging
  <2>3. Judging(tx) => RowsWritten(tx)'
    BY <1>1, <1>2, <1>3, <1>4, <2>1 DEF RowsWritten, Cleaning
  <2>4. Reported(tx, KindsOf(outcome[p])) => Reported(tx, KindsOf(outcome[p]))'
    BY <1>2, <2>1 DEF Reported
  <2>5. IncidentsOnTheirWay(tx)'
    <3>1. outcome'[p] = "matched" \/ Reported(tx, KindsOf(outcome[p]))'
      BY <1>3, <2>1, <2>4
    <3>. QED  BY <1>1, <1>4, <2>1, <3>1 DEF IncidentsOnTheirWay, Reporting, Cleaning
  <2>. QED  BY <1>1, <1>2, <1>3, <2>1, <2>2, <2>3, <2>5 DEF Tells
<1>5. CASE pc'[p] \notin Cleaning
  <2>1. pc'[p] \in {"tally", "idle"}
    BY <1>1, <1>5, Shapes
    DEF CleanUp, ForgetWindow, DeleteWindow, RemoveDeadline, CleanupSources, Return, Goto, Cleaning
  <2>2. ~Telling(tx)' /\ ~Judging(tx)' /\ IncidentsOnTheirWay(tx)'
    BY <1>1, <2>1 DEF Telling, Judging, IncidentsOnTheirWay, Reporting, Cleaning
  <2>3. Told(tx)
    <3>1. CASE outcome[p] \in {"matched", "mismatch"}
      <4>1. RowsWritten(tx) /\ rows[p] = {}
        BY <1>1, <1>2, <1>3, <3>1 DEF Judging, RowsWritten, Cleaning
      <4>2. /\ SourcesSeen(win[p]) = Source /\ outcome[p] = Verdict(win[p])
            /\ \A s \in Source : s \in DOMAIN details[tx] /\ details[tx][s] = BuildDetails(win[p])[s]
        BY <1>1, <4>1 DEF RowsWritten
      <4>3. DOMAIN details[tx] = Source
        <5>1. details[tx] \in RowSets
          BY <1>1 DEF IInv, TypeOK, PgTypeOK
        <5>2. PICK S \in SUBSET Source : details[tx] \in [S -> Row]
          BY <5>1 DEF RowSets
        <5>. QED  BY <4>2, <5>2
      <4>. QED  BY <1>3, <3>1, <4>2, <4>3, MatchedRows, MismatchRow DEF Told
    <3>2. CASE outcome[p] \notin {"matched", "mismatch"}
      BY <1>3, <3>2 DEF Told
    <3>. QED  BY <3>1, <3>2
  <2>4. Told(tx)'
    BY <1>1, <1>2, <2>3, ToldStands
  <2>. QED  BY <1>2, <1>3, <2>2, <2>4 DEF Tells
<1>. QED  BY <1>4, <1>5

LEMMA NextTables ==
    ASSUME ExpectedSources >= 3, IInv, RaceInv, SerialInv, TablesInv, SerialNext
    PROVE  TablesInv'
<1>. SUFFICES ASSUME Undisturbed', NEW tx \in Txs
              PROVE  Tells(tx)'
  BY DEF TablesInv
<1>1. Undisturbed /\ ~Overlap'
  BY Calm DEF SerialNext
<1>2. CASE Same(tx)
  BY <1>1, <1>2, SameTells DEF TablesInv
<1>3. CASE About(tx)
  BY <1>1, <1>3, AcceptTells, HandleTells, TaskTells, UpsertTells, DetailTells, RecordTells,
     CreateTells, EscalateTells, CleanUpTells
  DEF About, Report
<1>. QED  BY <1>2, <1>3, OneTransaction

LEMMA InitTables == Init => TablesInv
<1>. SUFFICES ASSUME Init, NEW tx \in Txs PROVE Tells(tx)
  BY DEF TablesInv
<1>1. At(tx) = "idle" /\ status[tx] = "none"
  BY ProcFacts DEF Init, ProcInit, ConsumerOn, By, At
<1>. QED
  BY <1>1 DEF Tells, Told, Telling, Judging, IncidentsOnTheirWay, Reporting, Cleaning

\* TablesInv holds of every reachable state of a serial run: a status whose
\* rows and incidents are not all written belongs to a transaction somebody is
\* writing them for.
THEOREM SerialTables == ASSUME ExpectedSources >= 3 PROVE SerialSpec => []TablesInv
<1>1. TablesInv /\ UNCHANGED vars => TablesInv'
  BY DEF TablesInv, Undisturbed, Tells, Told, Telling, Judging, RowsWritten, IncidentsOnTheirWay,
     Reported, By, At, ConsumerOn, Entry, vars, streamVars, procVars, redisVars, pgVars, budgetVars
<1>2. IInv /\ RaceInv /\ SerialInv /\ TablesInv /\ [SerialNext]_vars => TablesInv'
  BY <1>1, NextTables
<1>3. Init => TablesInv
  BY InitTables
<1>. QED
  BY <1>2, <1>3, SerialIsSpec, EngineInvariant, EngineKeepsEvents, SerialStages, PTL
  DEF SerialSpec

LEMMA TablesExplain == ASSUME TablesInv, faults = 0 PROVE StatusExplained
<1>. SUFFICES ASSUME NEW tx \in Txs, Quiet(tx), crashes = 0
              PROVE  Told(tx) /\ (status[tx] = "pending" => windows[tx] # NoWindow)
  BY DEF StatusExplained, Told, KindsOf
<1>1. At(tx) = "idle"
  BY DEF Quiet, By, At
<1>. QED  BY <1>1 DEF TablesInv, Undisturbed, Tells, Telling, Reporting, Cleaning

\* A status of a transaction at rest is explained: by the rows and incidents its
\* decision asks for, each of them escalated, or by the open window.  With the
\* three sources of every deployment; of two a window may be judged too early.
THEOREM EngineStatusExplained ==
    ASSUME ExpectedSources >= 3
    PROVE  SerialSpec => [](faults = 0 => StatusExplained)
<1>1. TablesInv => (faults = 0 => StatusExplained)
  BY TablesExplain
<1>. QED  BY <1>1, SerialTables, PTL

-----------------------------------------------------------------------------
(* The counters.                                                           *)

LEMMA CountTypes ==
    ASSUME IInv
    PROVE  /\ counts.events \in Nat /\ counts.success \in Nat /\ counts.failed \in Nat
           /\ Recordings \in Nat /\ ExpectedSources \in Nat
           /\ ExpectedSources * Recordings \in Nat
           /\ InWork \in 0..1 /\ ToRecord \in 0..1 /\ Arrived \in 0..1
<1>1. counts.events \in Nat /\ counts.success \in Nat /\ counts.failed \in Nat
  BY DEF IInv, TypeOK, RedisTypeOK
<1>2. Recordings \in Nat /\ ExpectedSources \in Nat
  BY <1>1, EngineAssumption DEF Recordings
<1>3. \A a, b \in Nat : a * b \in Nat
  OBVIOUS
<1>. QED  BY <1>1, <1>2, <1>3 DEF InWork, ToRecord, Arrived

LEMMA SameHeld == ASSUME NEW tx \in Txs, Same(tx) PROVE HeldOf(tx)' = HeldOf(tx)
<1>1. Recorded(tx) <=> /\ ConsumerOn(tx) /\ At(tx) \in {"create", "escalate", "forget"}
                       /\ outcome[By(tx)] \in Decisions
  BY DEF Recorded, At, By
<1>2. Recorded(tx)' <=> /\ ConsumerOn(tx)' /\ At(tx)' \in {"create", "escalate", "forget"}
                        /\ (outcome[By(tx)])' \in Decisions
  BY DEF Recorded, At, By
<1>3. By(tx)' = By(tx) /\ At(tx)' = At(tx) /\ outcome'[By(tx)] = outcome[By(tx)]
      /\ windows'[tx] = windows[tx]
  BY DEF Same, Untouched, StoresOf
<1>4. ConsumerOn(tx)' <=> ConsumerOn(tx)
  BY <1>3, ProcFacts DEF By
<1>. QED  BY <1>1, <1>2, <1>3, <1>4 DEF HeldOf

\* A step after which no window holds more than before.
LEMMA HeldShrinks ==
    ASSUME IsFiniteSet(Held), \A tx \in Txs : HeldOf(tx)' \subseteq HeldOf(tx)
    PROVE  /\ IsFiniteSet(Held') /\ Cardinality(Held') <= Cardinality(Held)
           /\ Cardinality(Held) \in Nat /\ Cardinality(Held') \in Nat
<1>1. Held' \subseteq Held
  BY DEF Held
<1>. QED  BY <1>1, FS_Subset, FS_CardinalityType

\* A step that counts nothing, claims nothing and decides nothing.
LEMMA CountersStand ==
    ASSUME IInv, EventsCounted, DecisionsCounted, EventsSpentOnce,
           UNCHANGED <<claimed, counts, status>>,
           InWork' = InWork, ToRecord' = ToRecord,
           Arrived' = 1 \/ Arrived' = Arrived,
           \A tx \in Txs : HeldOf(tx)' \subseteq HeldOf(tx)
    PROVE  EventsCounted' /\ DecisionsCounted' /\ EventsSpentOnce'
<1>1. Recordings' = Recordings /\ Decided' = Decided
  BY DEF Recordings, Decided
<1>2. EventsCounted'
  BY DEF EventsCounted
<1>3. DecisionsCounted'
  BY <1>1 DEF DecisionsCounted
<1>4. /\ IsFiniteSet(Held') /\ Cardinality(Held') <= Cardinality(Held)
      /\ Cardinality(Held) \in Nat /\ Cardinality(Held') \in Nat
  BY HeldShrinks DEF EventsSpentOnce
<1>5. EventsSpentOnce'
  <2>. DEFINE spent == ExpectedSources * Recordings
  <2>1. spent \in Nat /\ counts.events \in Nat /\ Arrived \in 0..1 /\ spent' = spent
        /\ counts'.events = counts.events
    BY <1>1, CountTypes
  <2>2. spent + Cardinality(Held) <= counts.events + Arrived
    BY DEF EventsSpentOnce
  <2>. HIDE DEF spent
  <2>3. spent + Cardinality(Held') <= counts.events + Arrived'
    BY <1>4, <2>1, <2>2
  <2>. QED  BY <1>1, <1>4, <2>3 DEF EventsSpentOnce, spent
<1>. QED  BY <1>2, <1>3, <1>5

\* A step that works on one transaction concerns what its window holds alone.
LEMMA HeldElsewhere ==
    ASSUME NEW p \in Procs, Works(p), NEW tx \in Txs \ {Tx(p)}
    PROVE  HeldOf(tx)' = HeldOf(tx)
  BY WorksElsewhere, SameHeld

LEMMA LoopCounters ==
    ASSUME IInv, CountersInv, Undisturbed,
           XRead \/ NextEntry \/ Ack \/ (Claim /\ AlreadyClaimed)
    PROVE  EventsCounted' /\ DecisionsCounted' /\ EventsSpentOnce'
<1>1. /\ pc[Consumer] \in {"idle", "claim", "ack"} /\ pc'[Consumer] \in {"idle", "claim", "ack"}
      /\ UNCHANGED <<claimed, counts, status, windows>>
  BY Shapes, ProcFacts DEF XRead, NextEntry, FirstCall, Ack, Claim, Goto, Return, procVars, redisVars, pgVars
<1>2. InWork' = InWork /\ ToRecord' = ToRecord /\ Arrived' = Arrived
  BY <1>1 DEF InWork, ToRecord, Arrived
<1>3. \A tx \in Txs : HeldOf(tx)' = HeldOf(tx)
  BY <1>1 DEF HeldOf, Recorded, ConsumerOn
<1>. QED  BY <1>1, <1>2, <1>3, CountersStand DEF CountersInv

LEMMA TimerCounters ==
    ASSUME IInv, CountersInv, Undisturbed,
           UNCHANGED <<log, cur, procVars, windows, claimed, counts, status>>
    PROVE  EventsCounted' /\ DecisionsCounted' /\ EventsSpentOnce'
<1>1. InWork' = InWork /\ ToRecord' = ToRecord /\ Arrived' = Arrived
  BY DEF InWork, ToRecord, Arrived, procVars
<1>2. \A tx \in Txs : HeldOf(tx)' = HeldOf(tx)
  BY DEF HeldOf, Recorded, ConsumerOn, Entry, procVars
<1>. QED  BY <1>1, <1>2, CountersStand DEF CountersInv

LEMMA AcceptCounters ==
    ASSUME IInv, CountersInv, Undisturbed, Accept
    PROVE  EventsCounted' /\ DecisionsCounted' /\ EventsSpentOnce'
<1>1. /\ pc[Consumer] = "claim" /\ pc'[Consumer] = "register" /\ claimed' = claimed \cup {Entry}
      /\ UNCHANGED <<counts, status, windows, outcome, log, cur>>
  BY Shapes, ProcFacts DEF Accept, Claim, Goto, pgVars, streamVars
<1>2. Entry \notin claimed
  BY Shapes DEF Accept, AlreadyClaimed
<1>3. InWork = 0 /\ InWork' = 1 /\ ToRecord' = ToRecord /\ Arrived' = Arrived
  BY <1>1 DEF InWork, ToRecord, Arrived
<1>4. EventsCounted'
  <2>1. IsFiniteSet(claimed') /\ Cardinality(claimed') = Cardinality(claimed) + 1
    BY <1>1, <1>2, FS_AddElement DEF CountersInv, EventsCounted
  <2>. QED  BY <1>1, <1>3, <2>1, CountTypes DEF CountersInv, EventsCounted
<1>5. DecisionsCounted'
  BY <1>1, <1>3 DEF CountersInv, DecisionsCounted, Decided, Recordings
<1>6. Held' = Held
  <2>1. \A tx : HeldOf(tx)' = HeldOf(tx)
    BY <1>1 DEF HeldOf, Recorded, ConsumerOn
  <2>. QED  BY <2>1 DEF Held
<1>7. EventsSpentOnce'
  BY <1>1, <1>3, <1>6 DEF CountersInv, EventsSpentOnce, Recordings
<1>. QED  BY <1>4, <1>5, <1>7

\* The steps of the consumer before a decision, but for the one that stores the
\* event and the one that counts it.
LEMMA HandleCounters ==
    ASSUME IInv, SerialInv, CountersInv, Undisturbed, ~Overlap', Handle,
           pc[Consumer] \notin {"store", "tally"}
    PROVE  EventsCounted' /\ DecisionsCounted' /\ EventsSpentOnce'
<1>. DEFINE before == {"register", "open", "deadline", "save", "restore", "resave"}
<1>0. PICK tx : tx = Entry.tx
  OBVIOUS
<1>1. Works(Consumer) /\ tx \in Txs /\ Entry' = Entry /\ By(tx) = Consumer /\ At(tx) = pc[Consumer]
      /\ tx # Consumer
  BY <1>0, ConsumerWorks, ConsumerHere, ProcFacts DEF SerialInv, Handle
<1>2. /\ pc[Consumer] \in before /\ pc'[Consumer] \in before \cup {"upsert", "store", "tally"}
      /\ UNCHANGED <<claimed, counts, status>>
      /\ pc[Consumer] \in {"save", "restore", "resave"} =>
           pc'[Consumer] \in {"upsert", "restore", "resave", "tally"}
  BY Shapes, ProcFacts DEF Handle, Register, OpenWindow, AddDeadline, StoreWindow, SaveWindow, Finalize,
     Tally, Goto, pgVars, redisVars
<1>3. InWork' = InWork /\ ToRecord' = ToRecord /\ (Arrived' = 1 \/ Arrived' = Arrived)
  BY <1>2 DEF InWork, ToRecord, Arrived
<1>4. ~Recorded(tx) /\ ~Recorded(tx)'
  BY <1>2 DEF Recorded
<1>5. \/ windows'[tx] = windows[tx]
      \/ windows[tx] = NoWindow /\ windows'[tx] = EmptyWindow
  <2>1. CASE OpenWindow
    BY <1>0, <1>1, <2>1, Shapes DEF OpenWindow
  <2>2. CASE StoreWindow
    <3>1. At(tx) = "restore" /\ windows'[tx] = win[Consumer]
      BY <1>0, <1>1, <1>2, <2>2, Shapes DEF StoreWindow
    <3>2. windows[tx] = win[Consumer]
      BY <1>1, <3>1 DEF SerialInv, Stage, Stored
    <3>. QED  BY <3>1, <3>2
  <2>3. CASE Register \/ AddDeadline \/ SaveWindow \/ Tally
    BY <2>3 DEF Register, AddDeadline, SaveWindow, Tally
  <2>. QED  BY <2>1, <2>2, <2>3 DEF Handle
<1>6. HeldOf(tx)' \subseteq HeldOf(tx)
  BY <1>4, <1>5, EmptyWindowFacts DEF HeldOf
<1>7. \A q \in Txs : HeldOf(q)' \subseteq HeldOf(q)
  BY <1>1, <1>6, <1>0, HeldElsewhere, ProcFacts
<1>. QED  BY <1>2, <1>3, <1>7, CountersStand DEF CountersInv

LEMMA StoreCounters ==
    ASSUME IInv, SerialInv, CountersInv, Undisturbed, ~Overlap', StoreWindow, pc[Consumer] = "store"
    PROVE  EventsCounted' /\ DecisionsCounted' /\ EventsSpentOnce'
<1>0. PICK tx : tx = Entry.tx
  OBVIOUS
<1>1. Works(Consumer) /\ tx \in Txs /\ Entry' = Entry /\ By(tx) = Consumer /\ At(tx) = "store"
      /\ tx # Consumer
  BY <1>0, ConsumerWorks, ConsumerHere, ProcFacts DEF SerialInv
<1>2. /\ pc'[Consumer] = "save" /\ UNCHANGED <<claimed, counts, status>>
      /\ windows'[tx] = win[Consumer]
  BY <1>0, <1>1, Shapes, ProcFacts DEF StoreWindow, Goto, pgVars, redisVars
<1>3. InWork' = InWork /\ ToRecord' = ToRecord /\ Arrived' = 1 /\ Arrived = 0
  BY <1>2 DEF InWork, ToRecord, Arrived
<1>4. EventsCounted' /\ DecisionsCounted'
  BY <1>2, <1>3 DEF CountersInv, EventsCounted, DecisionsCounted, Decided, Recordings
<1>5. Filed(tx)
  BY <1>1 DEF SerialInv, Stage
<1>6. Entry \in Events /\ Entry.source \in Source
  BY EntryFacts
<1>7. SourcesSeen(win[Consumer]) = SourcesSeen(windows[tx]) \cup {Entry.source}
      /\ windows[tx] # NoWindow
  BY <1>1, <1>5, <1>6, InsertSeen, Shapes DEF Filed
<1>8. HeldOf(tx)' \subseteq HeldOf(tx) \cup {Entry.source}
  BY <1>2, <1>7 DEF HeldOf, Recorded
<1>9. Held' \subseteq Held \cup {<<tx, Entry.source>>}
  <2>1. \A q \in Txs \ {tx} : HeldOf(q)' = HeldOf(q)
    BY <1>1, <1>0, HeldElsewhere, ProcFacts
  <2>. QED  BY <1>1, <1>6, <1>8, <2>1 DEF Held
<1>10. EventsSpentOnce'
  <2>. DEFINE spent == ExpectedSources * Recordings
              more == Held \cup {<<tx, Entry.source>>}
  <2>1. spent \in Nat /\ counts.events \in Nat /\ spent' = spent /\ counts' = counts
    BY <1>2, CountTypes DEF Recordings
  <2>2. IsFiniteSet(Held) /\ spent + Cardinality(Held) <= counts.events
    BY <1>3, CountTypes DEF CountersInv, EventsSpentOnce
  <2>3. /\ IsFiniteSet(more) /\ Cardinality(more) \in Nat /\ Cardinality(Held) \in Nat
        /\ Cardinality(more) \in {Cardinality(Held), Cardinality(Held) + 1}
    BY <2>2, FS_AddElement, FS_CardinalityType
  <2>4. IsFiniteSet(Held') /\ Cardinality(Held') \in Nat /\ Cardinality(Held') <= Cardinality(more)
    BY <1>9, <2>3, FS_Subset, FS_CardinalityType
  <2>. HIDE DEF spent, more
  <2>5. spent + Cardinality(Held') <= counts.events + 1
    BY <2>1, <2>2, <2>3, <2>4
  <2>. QED  BY <1>3, <2>1, <2>4, <2>5 DEF EventsSpentOnce, spent
<1>. QED  BY <1>4, <1>10

LEMMA TallyCounters ==
    ASSUME IInv, SerialInv, CountersInv, Undisturbed, Undisturbed', ~Overlap', Tally
    PROVE  EventsCounted' /\ DecisionsCounted' /\ EventsSpentOnce'
<1>1. /\ pc[Consumer] = "tally" /\ pc'[Consumer] = "ack"
      /\ UNCHANGED <<claimed, status, windows, outcome, log, cur>>
      /\ counts' = [counts EXCEPT !.events = @ + 1]
  BY Shapes, ProcFacts DEF Tally, Goto, Count, pgVars, streamVars, Undisturbed
<1>2. /\ counts'.events = counts.events + 1 /\ counts'.success = counts.success
      /\ counts'.failed = counts.failed
  BY <1>1 DEF IInv, TypeOK, RedisTypeOK
<1>3. /\ InWork = 1 /\ InWork' = 0 /\ ToRecord' = ToRecord /\ Arrived = 1 /\ Arrived' = 0
      /\ Recordings' = Recordings
  BY <1>1, <1>2 DEF InWork, ToRecord, Arrived, Recordings
<1>4. EventsCounted'
  BY <1>1, <1>2, <1>3, CountTypes DEF CountersInv, EventsCounted
<1>5. DecisionsCounted'
  BY <1>1, <1>3 DEF CountersInv, DecisionsCounted, Decided
<1>6. Held' = Held
  <2>1. \A tx : HeldOf(tx)' = HeldOf(tx)
    BY <1>1 DEF HeldOf, Recorded, ConsumerOn
  <2>. QED  BY <2>1 DEF Held
<1>7. EventsSpentOnce'
  BY <1>2, <1>3, <1>6, CountTypes DEF CountersInv, EventsSpentOnce
<1>. QED  BY <1>4, <1>5, <1>7

\* The task of a timeout counts nothing, and takes from the windows only.
LEMMA TaskCounters ==
    ASSUME IInv, SerialInv, CountersInv, Undisturbed, ~Overlap', NEW tx \in Txs,
           Spawn(tx) \/ Take(tx)
    PROVE  EventsCounted' /\ DecisionsCounted' /\ EventsSpentOnce'
<1>1. /\ Works(tx) /\ tx \in Procs /\ tx # Consumer /\ Tx(tx) = tx /\ Untouched(Consumer)
      /\ UNCHANGED <<claimed, counts, status, log, cur>>
  BY TaskWorks, ProcFacts DEF Works, Spawn, Take, pgVars, redisVars, streamVars
<1>2. InWork' = InWork /\ ToRecord' = ToRecord /\ Arrived' = Arrived
  BY <1>1 DEF InWork, ToRecord, Arrived, Untouched
<1>3. windows'[tx] \in {windows[tx], NoWindow} /\ (Recorded(tx) <=> Recorded(tx)')
  BY <1>1, Shapes DEF Spawn, Take, Recorded, ConsumerOn, Entry, Untouched
<1>4. \A q \in Txs : HeldOf(q)' \subseteq HeldOf(q)
  BY <1>1, <1>3, HeldElsewhere DEF HeldOf
<1>. QED  BY <1>1, <1>2, <1>4, CountersStand DEF CountersInv

LEMMA CountsHere ==
    ASSUME IInv, RaceInv, SerialInv, Undisturbed, ~Overlap', NEW p \in Procs, Conclude(p),
           NEW tx, tx = Tx(p)
    PROVE  /\ tx \in Txs /\ tx # Consumer /\ Stage(tx) /\ By(tx) = p /\ At(tx) = pc[p]
           /\ p # Consumer => p = tx
           /\ \A q \in Txs \ {tx} : HeldOf(q)' = HeldOf(q)
           /\ p # Consumer => UNCHANGED <<InWork, ToRecord, Arrived>>
           /\ p = Consumer => InWork' = InWork /\ Arrived = 1 /\ Arrived' = 1
           /\ Recorded(tx) <=>
                /\ p = Consumer /\ pc[p] \in {"create", "escalate", "forget"}
                /\ outcome[p] \in Decisions
           /\ Recorded(tx)' <=>
                /\ p = Consumer /\ pc'[p] \in {"create", "escalate", "forget"}
                /\ outcome'[p] \in Decisions
<1>1. Works(p) /\ Concluding(p)
  BY ConcludeWorks, Concludes
<1>2. /\ tx \in Txs /\ tx # Consumer /\ Stage(tx) /\ By(tx) = p /\ At(tx) = pc[p] /\ By(tx)' = p
      /\ At(tx)' = pc'[p]
  BY ConcludeHere, ProcFacts DEF SerialInv
<1>3. \A q \in Txs \ {tx} : HeldOf(q)' = HeldOf(q)
  BY <1>1, HeldElsewhere
<1>4. p # Consumer => Untouched(Consumer)
  BY <1>1, ProcFacts DEF Works
<1>5. p # Consumer => UNCHANGED <<InWork, ToRecord, Arrived>>
  BY <1>4 DEF Untouched, InWork, ToRecord, Arrived
<1>6. p = Consumer => InWork' = InWork /\ Arrived = 1 /\ Arrived' = 1
  BY <1>1 DEF Concluding, Stepping, Reporting, Cleaning, InWork, Arrived
<1>7. (ConsumerOn(tx) <=> p = Consumer) /\ (ConsumerOn(tx)' <=> p = Consumer)
  BY <1>2 DEF By
<1>8. p # Consumer => p = tx
  BY ProcFacts
<1>. QED  BY <1>2, <1>3, <1>5, <1>6, <1>7, <1>8 DEF Recorded

LEMMA UpsertCounters ==
    ASSUME IInv, RaceInv, SerialInv, CountersInv, Undisturbed, ~Overlap', NEW p \in Procs,
           UpsertTransaction(p), NEW tx, tx = Tx(p)
    PROVE  EventsCounted' /\ DecisionsCounted' /\ EventsSpentOnce'
<1>1. /\ tx \in Txs /\ tx # Consumer /\ Stage(tx) /\ By(tx) = p /\ At(tx) = pc[p]
      /\ p # Consumer => p = tx
      /\ \A q \in Txs \ {tx} : HeldOf(q)' = HeldOf(q)
      /\ InWork' = InWork /\ Arrived' = Arrived
      /\ p # Consumer => ToRecord' = ToRecord
      /\ ~Recorded(tx)
  <2>1. pc[p] = "upsert" /\ Conclude(p)
    BY DEF UpsertTransaction, Conclude
  <2>. QED  BY <2>1, CountsHere
<1>2. /\ pc[p] = "upsert" /\ pc'[p] = AfterUpsert(p) /\ UNCHANGED <<claimed, counts, windows, outcome>>
      /\ status' = [status EXCEPT ![tx] = outcome[p]]
  BY Shapes DEF UpsertTransaction, Goto, redisVars
<1>3. HeldOf(tx)' \subseteq HeldOf(tx)
  BY <1>1, <1>2 DEF HeldOf
<1>4. EventsCounted'
  BY <1>1, <1>2 DEF CountersInv, EventsCounted
<1>5. EventsSpentOnce'
  <2>. DEFINE spent == ExpectedSources * Recordings
  <2>1. spent \in Nat /\ counts.events \in Nat /\ Arrived \in 0..1 /\ spent' = spent
    BY <1>2, CountTypes DEF Recordings
  <2>2. IsFiniteSet(Held) /\ spent + Cardinality(Held) <= counts.events + Arrived
    BY DEF CountersInv, EventsSpentOnce
  <2>3. /\ IsFiniteSet(Held') /\ Cardinality(Held') <= Cardinality(Held)
        /\ Cardinality(Held) \in Nat /\ Cardinality(Held') \in Nat
    BY <1>1, <1>3, <2>2, HeldShrinks
  <2>. HIDE DEF spent
  <2>4. spent + Cardinality(Held') <= counts.events + Arrived
    BY <2>1, <2>2, <2>3
  <2>. QED  BY <1>1, <1>2, <2>1, <2>3, <2>4 DEF EventsSpentOnce, spent
<1>6. Recordings' = Recordings /\ Recordings \in Nat
  BY <1>2, CountTypes DEF Recordings
<1>7. /\ IsFiniteSet(Decided) /\ Cardinality(Decided) \in Nat
      /\ Cardinality(Decided) <= Recordings + ToRecord
  BY FS_CardinalityType DEF CountersInv, DecisionsCounted
<1>8. CASE outcome[p] \in Decisions
  <2>1. p = Consumer
    BY <1>1, <1>2, <1>8 DEF Stage, TimingOut, Reporting, Decisions
  <2>2. ToRecord = 0 /\ ToRecord' = 1
    BY <1>2, <1>8, <2>1, AfterFacts DEF ToRecord, Decisions
  <2>3. Decided' = Decided \cup {tx}
    BY <1>1, <1>2, <1>8, Shapes DEF Decided
  <2>4. /\ IsFiniteSet(Decided')
        /\ Cardinality(Decided') \in {Cardinality(Decided), Cardinality(Decided) + 1}
    BY <1>7, <2>3, FS_AddElement
  <2>5. DecisionsCounted'
    BY <1>6, <1>7, <2>2, <2>4 DEF DecisionsCounted
  <2>. QED  BY <1>4, <1>5, <2>5
<1>9. CASE outcome[p] \notin Decisions
  <2>1. ToRecord' = ToRecord
    BY <1>1, <1>2, <1>9 DEF ToRecord
  <2>2. Decided' \subseteq Decided
    BY <1>1, <1>2, <1>9, Shapes DEF Decided
  <2>3. /\ IsFiniteSet(Decided') /\ Cardinality(Decided') <= Cardinality(Decided)
        /\ Cardinality(Decided') \in Nat
    BY <1>7, <2>2, FS_Subset, FS_CardinalityType
  <2>4. DecisionsCounted'
    BY <1>6, <1>7, <2>1, <2>3, CountTypes DEF DecisionsCounted
  <2>. QED  BY <1>4, <1>5, <2>4
<1>. QED  BY <1>8, <1>9

\* A decision is counted: the window that paid for it holds enough events.
LEMMA RecordCounters ==
    ASSUME IInv, RaceInv, SerialInv, CountersInv, Undisturbed, Undisturbed', ~Overlap',
           NEW p \in Procs, RecordMatchResult(p), NEW tx, tx = Tx(p)
    PROVE  EventsCounted' /\ DecisionsCounted' /\ EventsSpentOnce'
<1>1. /\ tx \in Txs /\ tx # Consumer /\ Stage(tx) /\ By(tx) = p /\ At(tx) = pc[p]
      /\ p # Consumer => p = tx
      /\ \A q \in Txs \ {tx} : HeldOf(q)' = HeldOf(q)
      /\ p = Consumer => InWork' = InWork /\ Arrived = 1 /\ Arrived' = 1
      /\ Recorded(tx) <=>
           /\ p = Consumer /\ pc[p] \in {"create", "escalate", "forget"}
           /\ outcome[p] \in Decisions
      /\ Recorded(tx)' <=>
           /\ p = Consumer /\ pc'[p] \in {"create", "escalate", "forget"}
           /\ outcome'[p] \in Decisions
  BY CountsHere DEF Conclude
<1>2. /\ pc[p] = "record" /\ pc'[p] = (IF todo[p] = <<>> THEN AfterIncidents(p) ELSE "create")
      /\ UNCHANGED <<claimed, windows, status, outcome>>
      /\ counts' = [counts EXCEPT ![IF outcome[p] = "matched" THEN "success" ELSE "failed"] = @ + 1]
  BY Shapes DEF RecordMatchResult, Goto, pgVars, Count, Undisturbed
<1>3. counts'.events = counts.events /\ Recordings' = Recordings + 1
  BY <1>2 DEF IInv, TypeOK, RedisTypeOK, Recordings
<1>4. outcome[p] \in Decisions
  BY <1>2 DEF CountersInv, RecordsDecisions
<1>5. p = Consumer /\ pc'[p] \in {"create", "forget"}
  <2>1. p = Consumer
    BY <1>1, <1>2, <1>4 DEF Stage, TimingOut, Reporting, Decisions
  <2>. QED  BY <1>2, <1>4, <2>1 DEF AfterIncidents, Decisions
<1>6. ToRecord = 1 /\ ToRecord' = 0
  BY <1>2, <1>4, <1>5 DEF ToRecord
<1>7. EventsCounted'
  BY <1>1, <1>2, <1>3, <1>5 DEF CountersInv, EventsCounted
<1>8. DecisionsCounted'
  <2>1. Decided' = Decided /\ IsFiniteSet(Decided) /\ Cardinality(Decided) \in Nat
    BY <1>2, FS_CardinalityType DEF Decided, CountersInv, DecisionsCounted
  <2>. QED  BY <1>3, <1>6, <2>1, CountTypes DEF CountersInv, DecisionsCounted
<1>9. windows[tx] # NoWindow /\ Complete(windows[tx]) /\ windows[tx] \in Slots(Events)
  <2>1. Closing(tx)
    BY <1>1, <1>2, <1>4, <1>5 DEF Closing, Reporting, Decisions
  <2>2. windows[tx] \in Slots(Events)
    BY <2>1, <1>1, Shapes, ProcFacts DEF Stage
  <2>. QED  BY <1>1, <2>1, <2>2, WindowsAreNotNoWindow DEF Stage
<1>. DEFINE paid == {tx} \X SourcesSeen(windows[tx])
<1>10. HeldOf(tx) = SourcesSeen(windows[tx]) /\ HeldOf(tx)' = {}
  BY <1>1, <1>2, <1>4, <1>5, <1>9 DEF HeldOf
<1>11. Held' \subseteq Held \ paid /\ paid \subseteq Held
  <2>1. Held' \subseteq Held \ paid
    BY <1>1, <1>10 DEF Held
  <2>2. paid \subseteq Held
    BY <1>1, <1>10 DEF Held, SourcesSeen
  <2>. QED  BY <2>1, <2>2
<1>12. IsFiniteSet(paid) /\ Cardinality(paid) >= ExpectedSources /\ Cardinality(paid) \in Nat
  <2>. DEFINE seen == SourcesSeen(windows[tx])
  <2>1. IsFiniteSet(Source)
    BY SourceCount
  <2>2. IsFiniteSet(seen) /\ Cardinality(seen) \in Nat
    BY <2>1, FS_Subset, FS_CardinalityType DEF SourcesSeen
  <2>3. IsFiniteSet({tx}) /\ Cardinality({tx}) = 1
    BY FS_Singleton
  <2>4. Cardinality(seen) >= ExpectedSources
    BY <1>9 DEF Complete, IsComplete
  <2>. HIDE DEF seen
  <2>5. IsFiniteSet({tx} \X seen) /\ Cardinality({tx} \X seen) = Cardinality({tx}) * Cardinality(seen)
    BY <2>2, <2>3, FS_Product
  <2>6. Cardinality({tx} \X seen) = Cardinality(seen)
    BY <2>2, <2>3, <2>5
  <2>. QED  BY <2>2, <2>4, <2>5, <2>6 DEF seen
<1>13. EventsSpentOnce'
  <2>. DEFINE spent == ExpectedSources * Recordings
  <2>. HIDE DEF paid
  <2>1. /\ spent \in Nat /\ counts.events \in Nat /\ ExpectedSources \in Nat
        /\ ExpectedSources * (Recordings + 1) = spent + ExpectedSources
    <3>1. \A a, b \in Nat : a * (b + 1) = a * b + a
      OBVIOUS
    <3>. QED  BY <3>1, CountTypes
  <2>2. IsFiniteSet(Held) /\ spent + Cardinality(Held) <= counts.events + 1
    BY <1>1, <1>5 DEF CountersInv, EventsSpentOnce
  <2>3. /\ IsFiniteSet(Held \ paid) /\ Cardinality(Held) \in Nat
        /\ Cardinality(Held \ paid) = Cardinality(Held) - Cardinality(paid)
    <3>1. Held \cap paid = paid
      BY <1>11
    <3>. QED  BY <2>2, <3>1, FS_Difference, FS_CardinalityType
  <2>4. /\ IsFiniteSet(Held') /\ Cardinality(Held') \in Nat
        /\ Cardinality(Held') <= Cardinality(Held \ paid)
    BY <1>11, <2>3, FS_Subset, FS_CardinalityType
  <2>. HIDE DEF spent
  <2>5. (spent + ExpectedSources) + Cardinality(Held') <= counts.events + 1
    BY <1>12, <2>1, <2>2, <2>3, <2>4
  <2>. QED  BY <1>1, <1>3, <1>5, <2>1, <2>4, <2>5 DEF EventsSpentOnce
<1>. QED  BY <1>7, <1>8, <1>13

\* The other steps of a decision.
LEMMA ConcludeCounters ==
    ASSUME IInv, RaceInv, SerialInv, CountersInv, Undisturbed, ~Overlap', NEW p \in Procs,
           UpsertDetail(p) \/ CreateIncident(p) \/ AddEscalation(p) \/ CleanUp(p),
           NEW tx, tx = Tx(p)
    PROVE  EventsCounted' /\ DecisionsCounted' /\ EventsSpentOnce'
<1>1. /\ tx \in Txs /\ tx # Consumer /\ Stage(tx) /\ By(tx) = p /\ At(tx) = pc[p]
      /\ p # Consumer => p = tx
      /\ \A q \in Txs \ {tx} : HeldOf(q)' = HeldOf(q)
      /\ p # Consumer => UNCHANGED <<InWork, ToRecord, Arrived>>
      /\ p = Consumer => InWork' = InWork /\ Arrived = 1 /\ Arrived' = 1
      /\ Recorded(tx) <=>
           /\ p = Consumer /\ pc[p] \in {"create", "escalate", "forget"}
           /\ outcome[p] \in Decisions
      /\ Recorded(tx)' <=>
           /\ p = Consumer /\ pc'[p] \in {"create", "escalate", "forget"}
           /\ outcome'[p] \in Decisions
  BY CountsHere DEF Conclude, CleanUp
<1>2. UNCHANGED <<claimed, counts, status>>
  BY DEF UpsertDetail, CreateIncident, AddEscalation, CleanUp, ForgetWindow, DeleteWindow,
     RemoveDeadline, CleanupSources, redisVars, pgVars
<1>3. CASE UpsertDetail(p)
  <2>1. pc[p] = "details" /\ pc'[p] \in {"details", AfterRows(p)} /\ UNCHANGED <<windows, outcome>>
    BY <1>3, Shapes DEF UpsertDetail, Goto
  <2>2. pc'[p] = "create" => outcome[p] \notin Decisions
    BY <2>1, AfterFacts DEF Decisions
  <2>3. pc'[p] \in {"details", "record", "create"}
    BY <2>1, AfterFacts
  <2>4. ToRecord' = ToRecord
    BY <1>1, <2>1, <2>2, <2>3 DEF ToRecord
  <2>5. HeldOf(tx)' = HeldOf(tx)
    BY <1>1, <2>1, <2>2, <2>3 DEF HeldOf
  <2>. QED  BY <1>1, <1>2, <2>4, <2>5, CountersStand DEF CountersInv
<1>4. CASE CreateIncident(p) \/ AddEscalation(p)
  <2>1. /\ pc[p] \in {"create", "escalate"} /\ pc'[p] \in {"escalate", "create", AfterIncidents(p)}
        /\ UNCHANGED <<windows, outcome>>
    BY <1>4, Shapes DEF CreateIncident, AddEscalation, Goto
  <2>2. /\ pc'[p] \in {"escalate", "create", "forget", "tally"}
        /\ pc'[p] = "tally" => outcome[p] \notin Decisions
    BY <2>1 DEF AfterIncidents, Decisions
  <2>3. ToRecord' = ToRecord
    BY <1>1, <2>1, <2>2 DEF ToRecord
  <2>4. HeldOf(tx)' = HeldOf(tx)
    BY <1>1, <2>1, <2>2 DEF HeldOf
  <2>. QED  BY <1>1, <1>2, <2>3, <2>4, CountersStand DEF CountersInv
<1>5. CASE CleanUp(p)
  <2>1. /\ pc[p] \in Cleaning /\ pc'[p] \in Cleaning \cup {"tally", "idle"}
        /\ windows' = (IF pc[p] = "forget" THEN [windows EXCEPT ![tx] = NoWindow] ELSE windows)
    BY <1>5, Shapes DEF CleanUp, ForgetWindow, DeleteWindow, RemoveDeadline, CleanupSources,
       Goto, Return, Cleaning
  <2>2. ToRecord' = ToRecord
    BY <1>1, <2>1 DEF ToRecord, Cleaning
  <2>3. windows'[tx] = NoWindow
    BY <1>1, <2>1, Shapes DEF Stage, Cleaning
  <2>4. HeldOf(tx)' = {}
    BY <2>3 DEF HeldOf
  <2>. QED  BY <1>1, <1>2, <2>2, <2>4, CountersStand DEF CountersInv
<1>. QED  BY <1>3, <1>4, <1>5

\* Nothing but a verdict gets as far as the counter of verdicts.
LEMMA NextRecords ==
    ASSUME IInv, RaceInv, Next, Undisturbed, Undisturbed', NEW p \in Procs, RecordsDecisions(p)
    PROVE  RecordsDecisions(p)'
<1>1. CASE \E q \in Procs : Conclude(q)
  <2>1. PICK q \in Procs : Conclude(q)
    BY <1>1
  <2>2. CASE q # p
    <3>1. Untouched(p)
      BY <2>1, <2>2, ConcludeWorks DEF Works
    <3>. QED  BY <3>1 DEF Untouched, RecordsDecisions
  <2>3. CASE q = p /\ UpsertTransaction(p)
    <3>1. /\ pc[p] = "upsert" /\ pc'[p] = AfterUpsert(p) /\ outcome' = outcome
          /\ outcome[p] \in Statuses \ {"none"}
      BY <2>3, Shapes DEF UpsertTransaction, Goto, IInv, Sound, DecisionJustified
    <3>2. pc'[p] \in {"details", "record"} => outcome[p] \in Final
      BY <3>1 DEF AfterUpsert, Statuses
    <3>3. pc'[p] = "record" => outcome[p] # "degraded"
      BY <3>1 DEF AfterUpsert, AfterRows
    <3>. QED  BY <3>1, <3>2, <3>3 DEF RecordsDecisions, Final, Decisions
  <2>4. CASE q = p /\ UpsertDetail(p)
    <3>1. pc[p] = "details" /\ pc'[p] \in {"details", AfterRows(p)} /\ outcome' = outcome
      BY <2>4, Shapes DEF UpsertDetail, Goto
    <3>2. pc'[p] = "record" => outcome[p] # "degraded"
      BY <3>1 DEF AfterRows
    <3>. QED  BY <3>1, <3>2 DEF RecordsDecisions, Final, Decisions
  <2>5. CASE q = p /\ ~UpsertTransaction(p) /\ ~UpsertDetail(p)
    <3>1. pc'[p] \notin {"details", "record"}
      BY <2>1, <2>5, Shapes, AfterFacts
      DEF Conclude, RecordMatchResult, CreateIncident, AddEscalation, ForgetWindow, DeleteWindow,
          RemoveDeadline, CleanupSources, Goto, Return
    <3>. QED  BY <3>1 DEF RecordsDecisions
  <2>. QED  BY <2>2, <2>3, <2>4, <2>5
<1>2. CASE Consume
  <2>1. pc'[p] \notin {"details", "record"} \/ (pc'[p] = pc[p] /\ outcome'[p] = outcome[p])
    BY <1>2, Shapes
    DEF Consume, XRead, NextEntry, FirstCall, Claim, Register, OpenWindow, AddDeadline, StoreWindow,
        SaveWindow, Finalize, Tally, Ack, Goto, Return, procVars
  <2>. QED  BY <2>1 DEF RecordsDecisions
<1>3. CASE (\E due \in SUBSET Txs : Scan(due)) \/ (\E tx \in Txs : Pop(tx) \/ Spawn(tx) \/ Take(tx))
  <2>1. pc'[p] \notin {"details", "record"} \/ (pc'[p] = pc[p] /\ outcome'[p] = outcome[p])
    BY <1>3, Shapes DEF Scan, Pop, Spawn, Take, Finalize, Goto, Return, procVars
  <2>. QED  BY <2>1 DEF RecordsDecisions
<1>4. CASE Environment
  BY <1>4, OnlyExpiry DEF ExpireCheckpoint, ExpireSources, procVars, RecordsDecisions
<1>. QED  BY <1>1, <1>2, <1>3, <1>4 DEF Next

LEMMA NextCounters ==
    ASSUME IInv, RaceInv, SerialInv, CountersInv, SerialNext
    PROVE  CountersInv'
<1>. SUFFICES ASSUME Undisturbed'
              PROVE  EventsCounted' /\ DecisionsCounted' /\ EventsSpentOnce'
  BY Calm, NextRecords DEF CountersInv, SerialNext
<1>1. Undisturbed /\ ~Overlap' /\ Next
  BY Calm DEF SerialNext
<1>2. CASE XRead \/ NextEntry \/ Ack \/ (Claim /\ AlreadyClaimed)
  BY <1>1, <1>2, LoopCounters
<1>3. CASE Claim /\ ~AlreadyClaimed
  BY <1>1, <1>3, AcceptCounters DEF Accept
<1>4. CASE Register \/ OpenWindow \/ AddDeadline \/ StoreWindow \/ SaveWindow
  <2>1. pc[Consumer] # "tally" /\ (pc[Consumer] = "store" => StoreWindow)
    BY <1>4 DEF Register, OpenWindow, AddDeadline, StoreWindow, SaveWindow
  <2>. QED  BY <1>1, <1>4, <2>1, HandleCounters, StoreCounters DEF Handle
<1>5. CASE Tally
  BY <1>1, <1>5, TallyCounters
<1>6. CASE \E p \in Procs : Conclude(p)
  BY <1>1, <1>6, UpsertCounters, RecordCounters, ConcludeCounters DEF Conclude, CleanUp
<1>7. CASE (\E due \in SUBSET Txs : Scan(due)) \/ (\E tx \in Txs : Pop(tx))
  BY <1>1, <1>7, TimerCounters DEF Scan, Pop, streamVars, redisVars, pgVars
<1>8. CASE \E tx \in Txs : Spawn(tx) \/ Take(tx)
  BY <1>1, <1>8, TaskCounters
<1>9. CASE Environment
  <2>1. \E tx \in Txs : ExpireCheckpoint(tx) \/ ExpireSources(tx)
    BY <1>1, <1>9, OnlyExpiry
  <2>. QED  BY <1>1, <2>1, TimerCounters DEF ExpireCheckpoint, ExpireSources, streamVars, pgVars
<1>. QED
  BY <1>1, <1>2, <1>3, <1>4, <1>5, <1>6, <1>7, <1>8, <1>9 DEF Next, Consume

LEMMA InitCounters == Init => CountersInv
<1>. SUFFICES ASSUME Init PROVE CountersInv
  OBVIOUS
<1>1. \A p \in Procs : RecordsDecisions(p)
  BY DEF Init, ProcInit, RecordsDecisions
<1>2. /\ claimed = {} /\ Decided = {} /\ Held = {} /\ InWork = 0 /\ ToRecord = 0 /\ Arrived = 0
      /\ counts.events = 0 /\ Recordings = 0
  BY ProcFacts
  DEF Init, ProcInit, Decided, Decisions, Held, HeldOf, InWork, ToRecord, Arrived, Recordings
<1>3. ExpectedSources * 0 = 0
  BY EngineAssumption
<1>. QED
  BY <1>1, <1>2, <1>3, FS_EmptySet
  DEF CountersInv, EventsCounted, DecisionsCounted, EventsSpentOnce

\* CountersInv holds of every reachable state of a serial run: what the counters
\* lag behind the claimed events and the tables is the event in work.
THEOREM SerialCounters == SerialSpec => []CountersInv
<1>1. CountersInv /\ UNCHANGED vars => CountersInv'
  BY DEF CountersInv, Undisturbed, RecordsDecisions, EventsCounted, DecisionsCounted,
     EventsSpentOnce, Decided, Recordings, InWork, ToRecord, Arrived, Held, HeldOf, Recorded,
     ConsumerOn, Entry, vars, streamVars, procVars, redisVars, pgVars, budgetVars
<1>2. IInv /\ RaceInv /\ SerialInv /\ CountersInv /\ [SerialNext]_vars => CountersInv'
  BY <1>1, NextCounters
<1>3. Init => CountersInv
  BY InitCounters
<1>. QED
  BY <1>2, <1>3, SerialIsSpec, EngineInvariant, EngineKeepsEvents, SerialStages, PTL
  DEF SerialSpec

LEMMA CountersAgreeAtRest == ASSUME IInv, CountersInv PROVE CountersAgree
<1>. SUFFICES ASSUME \A p \in Procs : pc[p] = "idle", faults = 0, crashes = 0
              PROVE  /\ counts.events = Cardinality(claimed)
                     /\ Cardinality(Decided) <= Recordings
                     /\ ExpectedSources * Recordings <= counts.events
  BY DEF CountersAgree, Decided, Decisions, Recordings
<1>1. InWork = 0 /\ ToRecord = 0 /\ Arrived = 0
  BY ProcFacts DEF InWork, ToRecord, Arrived
<1>2. counts.events = Cardinality(claimed) /\ Cardinality(Decided) <= Recordings
  BY <1>1, CountTypes DEF CountersInv, Undisturbed, EventsCounted, DecisionsCounted
<1>3. ExpectedSources * Recordings <= counts.events
  <2>. DEFINE spent == ExpectedSources * Recordings
  <2>1. spent \in Nat /\ counts.events \in Nat
    BY CountTypes
  <2>2. IsFiniteSet(Held) /\ spent + Cardinality(Held) <= counts.events + 0
    BY <1>1 DEF CountersInv, Undisturbed, EventsSpentOnce
  <2>3. Cardinality(Held) \in Nat
    BY <2>2, FS_CardinalityType
  <2>. HIDE DEF spent
  <2>4. spent <= counts.events
    BY <2>1, <2>2, <2>3
  <2>. QED  BY <2>4 DEF spent
<1>. QED  BY <1>2, <1>3

\* Once nobody works, every accepted event was counted once and every decision
\* once, at the price of one event per source, for any number of events and
\* transactions and any expected_sources_count.
THEOREM EngineCountersAgree == SerialSpec => []CountersAgree
<1>1. IInv /\ CountersInv => CountersAgree
  BY CountersAgreeAtRest
<1>. QED  BY <1>1, SerialCounters, SerialIsSpec, EngineInvariant, PTL

-----------------------------------------------------------------------------
(* Crashes.                                                                *)

orderVars == <<log, cur, acked, claimed, pc, win, windows, rwin, deadlines, tpopped, status,
               stranded>>

LEMMA OrderStutter == InOrder /\ UNCHANGED orderVars => InOrder'
  BY DEF orderVars, InOrder, ClaimedInOrder, EntryOnItsWay, HandledIsSaved, Handled, Saved,
     Judged, Remembered, Checkpointed, TaskHolds, Scheduled, Due, ConsumerOn, Entry

\* A step that neither fails nor ends the process.
Alive == UNCHANGED stranded

LEMMA SavedStands ==
    ASSUME NEW e, Saved(e), Alive,
           Judged(e.tx) => Judged(e.tx)',
           pc'[e.tx] = pc[e.tx], win'[e.tx] = win[e.tx],
           windows'[e.tx] = windows[e.tx], rwin'[e.tx] = rwin[e.tx],
           ConsumerOn(e.tx)' /\ pc'[Consumer] \in Copying =>
              ConsumerOn(e.tx) /\ pc[Consumer] \in Copying /\ win'[Consumer] = win[Consumer]
    PROVE  Saved(e)'
  BY DEF Saved, Remembered, TaskHolds, Checkpointed, Alive

LEMMA ScheduledStands ==
    ASSUME NEW tx, Scheduled(tx), Alive,
           Judged(tx) => Judged(tx)', Due(tx) => Due(tx)',
           pc'[tx] = pc[tx], windows'[tx] = windows[tx], rwin'[tx] = rwin[tx],
           ConsumerOn(tx)' /\ pc'[Consumer] \in Copying =>
              ConsumerOn(tx) /\ pc[Consumer] \in Copying,
           ConsumerOn(tx) /\ pc[Consumer] = "deadline" =>
              Due(tx)' \/ (ConsumerOn(tx)' /\ pc'[Consumer] = "deadline")
    PROVE  Scheduled(tx)'
  BY DEF Scheduled, Alive

LEMMA LogFacts ==
    ASSUME IInv
    PROVE  /\ log \in Seq(Events \cup {Malformed}) /\ last \in 0..Len(log) /\ cur \in 0..last
           /\ acked \subseteq 1..cur /\ DOMAIN log = 1..Len(log) /\ Len(log) \in Nat
           /\ Consumer \in Procs
<1>1. log \in Seq(Events \cup {Malformed})
  BY EngineAssumption DEF IInv, TypeOK, StreamTypeOK
<1>. QED  BY <1>1, ProcFacts DEF IInv, TypeOK, StreamTypeOK

LEMMA NextEntryOrder == ASSUME IInv, InOrder, NextEntry PROVE InOrder'
<1>1. /\ cur' = cur + 1 /\ pc'[Consumer] \in {"claim", "ack"} /\ pc[Consumer] = "idle"
      /\ pc'[Consumer] = "ack" => Entry' = Malformed
      /\ \A q \in Txs : pc'[q] = pc[q]
      /\ UNCHANGED <<log, acked, claimed, windows, rwin, deadlines, tpopped, status, win>> /\ Alive
  BY Shapes, ProcFacts
  DEF NextEntry, Goto, FirstCall, Entry, Alive, redisVars, timerVars, pgVars, budgetVars
<1>2. ClaimedInOrder'
  BY <1>1, LogFacts DEF InOrder, ClaimedInOrder
<1>3. EntryOnItsWay'
  BY <1>1 DEF EntryOnItsWay, Copying
<1>4. cur' \notin acked'
  BY <1>1, LogFacts
<1>5. ASSUME NEW e \in Events, Handled(e)' PROVE Saved(e)'
  <2>1. Handled(e)
    BY <1>1, <1>5, EventFields DEF Handled
  <2>2. Saved(e)
    BY <2>1 DEF InOrder, HandledIsSaved
  <2>. QED  BY <1>1, <2>2, EventFields, SavedStands DEF Judged, ConsumerOn, Copying
<1>6. \A q \in Txs : Scheduled(q)'
  BY <1>1, ScheduledStands DEF InOrder, Judged, Due, ConsumerOn, Copying
<1>. QED  BY <1>1, <1>2, <1>3, <1>4, <1>5, <1>6 DEF InOrder, HandledIsSaved, Alive

LEMMA AckOrder == ASSUME IInv, InOrder, Ack PROVE InOrder'
<1>1. /\ pc[Consumer] = "ack" /\ pc'[Consumer] = "idle" /\ acked' = acked \cup {cur}
      /\ \A q \in Txs : pc'[q] = pc[q] /\ win'[q] = win[q]
      /\ UNCHANGED <<log, cur, claimed, windows, rwin, deadlines, tpopped, status>> /\ Alive
  BY Shapes, ProcFacts DEF Ack, Return, Alive, redisVars, timerVars, pgVars, budgetVars
<1>2. ClaimedInOrder'
  BY <1>1 DEF InOrder, ClaimedInOrder
<1>3. EntryOnItsWay'
  BY <1>1 DEF EntryOnItsWay, Copying
<1>4. ASSUME NEW e \in Events, Handled(e)' PROVE Saved(e)'
  <2>1. Handled(e)
    BY <1>1, <1>4 DEF Handled, Entry
  <2>2. Saved(e)
    BY <2>1 DEF InOrder, HandledIsSaved
  <2>. QED  BY <1>1, <2>2, EventFields, SavedStands DEF Judged, ConsumerOn
<1>5. \A q \in Txs : Scheduled(q)'
  BY <1>1, ScheduledStands DEF InOrder, Judged, Due, ConsumerOn
<1>. QED  BY <1>1, <1>2, <1>3, <1>4, <1>5 DEF InOrder, HandledIsSaved, Alive

\* On an orderly stream every event is new.
LEMMA ClaimOrder == ASSUME IInv, InOrder, Orderly, Claim PROVE InOrder'
<1>1. /\ pc[Consumer] = "claim" /\ Entry' = Entry /\ \A q \in Txs : pc'[q] = pc[q]
      /\ UNCHANGED <<log, cur, acked, windows, rwin, deadlines, tpopped, status, win>> /\ Alive
  BY Shapes, ProcFacts
  DEF Claim, Goto, Entry, Alive, streamVars, redisVars, timerVars, pgVars, budgetVars
<1>2. ~AlreadyClaimed
  <2>. SUFFICES ASSUME NEW e \in claimed, e.id = Entry.id PROVE FALSE
    BY Shapes DEF AlreadyClaimed
  <2>1. PICK j \in 1..cur : e = log[j] /\ j # cur
    BY <1>1 DEF InOrder, ClaimedInOrder
  <2>2. j \in DOMAIN log /\ cur \in DOMAIN log
    BY <1>1, LogFacts
  <2>3. log[j] # Malformed /\ log[cur] # Malformed
    BY <1>1, <2>1, ClaimedFacts, EntryFacts DEF Entry
  <2>. QED  BY <2>1, <2>2, <2>3 DEF Orderly, Entry
<1>3. pc'[Consumer] = "register" /\ claimed' = claimed \cup {Entry}
  BY <1>2, Shapes, ProcFacts DEF Claim, Goto
<1>4. ClaimedInOrder'
  <2>1. cur \in 1..cur
    BY <1>1, EntryFacts, LogFacts
  <2>. QED  BY <1>1, <1>3, <2>1 DEF InOrder, ClaimedInOrder, Entry
<1>5. EntryOnItsWay'
  BY <1>3 DEF EntryOnItsWay, Copying
<1>6. ASSUME NEW e \in Events, Handled(e)' PROVE Saved(e)'
  <2>1. Handled(e)
    BY <1>1, <1>3, <1>6 DEF Handled
  <2>2. Saved(e)
    BY <2>1 DEF InOrder, HandledIsSaved
  <2>. QED  BY <1>1, <1>3, <2>2, EventFields, SavedStands DEF Judged, Copying
<1>7. \A q \in Txs : Scheduled(q)'
  BY <1>1, <1>3, ScheduledStands DEF InOrder, Judged, Due, ConsumerOn, Copying
<1>. QED  BY <1>1, <1>4, <1>5, <1>6, <1>7 DEF InOrder, HandledIsSaved, Alive

\* An event handled before is of another source than the one in hand.
LEMMA AnotherSource ==
    ASSUME IInv, InOrder, Orderly, pc[Consumer] \notin {"idle", "ack"},
           NEW k \in acked, log[k] # Malformed, log[k].tx = Entry.tx
    PROVE  log[k].source # Entry.source
<1>1. k # cur /\ cur \in DOMAIN log /\ k \in DOMAIN log
  BY LogFacts, EntryFacts DEF InOrder, HandledIsSaved
<1>. QED  BY <1>1, EntryFacts DEF Orderly, Entry

LEMMA OpenWindowOrder ==
    ASSUME IInv, InOrder, Orderly, ~Overlap, OpenWindow
    PROVE  InOrder'
<1>0. PICK tx : tx = Entry.tx
  OBVIOUS
<1>. DEFINE w == IF windows[tx] = NoWindow THEN EmptyWindow ELSE windows[tx]
<1>1. /\ pc[Consumer] = "open" /\ pc'[Consumer] \in {"deadline", "store"} /\ Entry' = Entry
      /\ tx \in Txs /\ windows' = [windows EXCEPT ![tx] = w]
      /\ win'[Consumer] = InsertEvent(w, Entry)
      /\ \A q \in Txs : pc'[q] = pc[q] /\ win'[q] = win[q]
      /\ UNCHANGED <<log, cur, acked, claimed, rwin, deadlines, tpopped, status>> /\ Alive
      /\ windows[tx] = NoWindow => pc'[Consumer] = "deadline"
  BY <1>0, Shapes, ProcFacts, EntryFacts
  DEF OpenWindow, Goto, Entry, Alive, streamVars, redisVars, timerVars, pgVars, budgetVars
<1>2. ClaimedInOrder'
  BY <1>1 DEF InOrder, ClaimedInOrder
<1>3. w \in Slots(Events) /\ Entry \in Events
  BY <1>1, Shapes, EmptyWindowFacts, EntryFacts
<1>4. EntryOnItsWay'
  BY <1>1, <1>3, InsertEventFacts DEF EntryOnItsWay
<1>5. ASSUME NEW e \in Events, Handled(e)' PROVE Saved(e)'
  <2>1. PICK k \in acked : log[k] = e
    BY <1>1, <1>5 DEF Handled
  <2>2. Saved(e)
    BY <2>1 DEF Handled, InOrder, HandledIsSaved
  <2>3. CASE e.tx # tx
    <3>1. ~ConsumerOn(e.tx)'
      BY <1>0, <1>1, <2>3 DEF ConsumerOn
    <3>. QED  BY <1>1, <2>2, <2>3, <3>1, EventFields, SavedStands, Shapes DEF Judged
  <2>4. CASE e.tx = tx /\ Judged(tx)
    BY <1>1, <2>4 DEF Judged, Saved
  <2>5. CASE e.tx = tx /\ stranded[e.tx] > 1
    BY <1>1, <2>5 DEF Saved, Alive
  <2>6. CASE e.tx = tx /\ Remembered(e) /\ (stranded[e.tx] = 1 \/ Checkpointed(e))
    <3>1. windows[tx] # NoWindow /\ windows[tx][e.source] = e
      BY <1>0, <1>1, <2>6 DEF Remembered, TaskHolds, Overlap, ConsumerOn
    <3>2. e.source # Entry.source
      BY <1>0, <1>1, <2>1, <2>6, AnotherSource, EventFields
    <3>3. win'[Consumer][e.source] = e
      BY <1>1, <1>3, <3>1, <3>2, EventFields, InsertEventFacts
    <3>4. windows'[tx] = windows[tx]
      BY <1>1, <3>1, Shapes
    <3>. QED  BY <1>1, <2>6, <3>1, <3>3, <3>4 DEF Saved, Remembered, Checkpointed, Alive
  <2>. QED  BY <2>2, <2>3, <2>4, <2>5, <2>6 DEF Saved
<1>6. ASSUME NEW q \in Txs PROVE Scheduled(q)'
  <2>1. Scheduled(q)
    BY DEF InOrder
  <2>2. CASE q # tx
    <3>1. ~ConsumerOn(q) /\ ~ConsumerOn(q)'
      BY <1>0, <1>1, <2>2 DEF ConsumerOn
    <3>. QED  BY <1>1, <2>1, <2>2, <3>1, ScheduledStands, Shapes DEF Judged, Due
  <2>3. CASE q = tx
    <3>1. windows'[tx] # NoWindow
      BY <1>1, <1>3, Shapes, WindowsAreNotNoWindow
    <3>2. ConsumerOn(tx)' /\ pc[tx] = "idle"
      BY <1>0, <1>1 DEF ConsumerOn, Overlap
    <3>. QED  BY <1>1, <2>1, <2>3, <3>1, <3>2 DEF Scheduled, Judged, Due, Alive
  <2>. QED  BY <2>2, <2>3
<1>. QED  BY <1>1, <1>2, <1>4, <1>5, <1>6 DEF InOrder, HandledIsSaved, Alive

\* The consumer's steps that leave its copy of the window alone.
LEMMA CopyStands ==
    ASSUME IInv, InOrder, NEW tx, tx = Entry.tx,
           pc[Consumer] \in Copying, win' = win, UNCHANGED <<log, cur, status>>, Alive,
           \A q \in Txs : pc'[q] = pc[q],
           \A q \in Txs \ {tx} : windows'[q] = windows[q] /\ rwin'[q] = rwin[q],
           windows'[tx] \in {windows[tx], win[Consumer]},
           rwin'[tx] \in {rwin[tx], win[Consumer]},
           NEW e \in Events, Saved(e)
    PROVE  Saved(e)'
<1>1. e.tx \in Txs /\ e.source \in Source /\ Entry' = Entry /\ win[Consumer] # NoWindow
  BY EventFields, Shapes, ProcFacts, WindowsAreNotNoWindow DEF Entry
<1>2. CASE Judged(e.tx)
  BY <1>2 DEF Saved, Judged
<1>3. CASE ~Judged(e.tx) /\ e.tx # tx
  <2>1. ~ConsumerOn(e.tx)'
    BY <1>1, <1>3 DEF ConsumerOn
  <2>. QED  BY <1>1, <1>3, <2>1, SavedStands DEF Judged
<1>4. CASE stranded[e.tx] > 1
  BY <1>4 DEF Saved, Alive
<1>5. CASE e.tx = tx /\ Remembered(e) /\ (stranded[e.tx] = 1 \/ Checkpointed(e))
  <2>1. win[Consumer][e.source] = e
    BY <1>5 DEF Remembered, ConsumerOn, Copying
  <2>2. Checkpointed(e) => Checkpointed(e)'
    BY <1>1, <1>5, <2>1 DEF Checkpointed
  <2>3. /\ windows'[tx] = NoWindow => pc'[tx] = "upsert" /\ win'[tx][e.source] = e
        /\ windows'[tx] # NoWindow => windows'[tx][e.source] = e
    BY <1>1, <1>5, <2>1 DEF Remembered, TaskHolds
  <2>. QED  BY <1>5, <2>1, <2>2, <2>3 DEF Saved, Remembered, TaskHolds, Alive
<1>. QED  BY <1>2, <1>3, <1>4, <1>5 DEF Saved

\* Nor do they take a window or its deadline away.
LEMMA CopyScheduled ==
    ASSUME IInv, InOrder, ~Overlap, AddDeadline \/ StoreWindow \/ SaveWindow, NEW q \in Txs
    PROVE  Scheduled(q)'
<1>1. /\ Entry' = Entry /\ Entry.tx \in Txs /\ \A r \in Txs : pc'[r] = pc[r]
      /\ UNCHANGED <<tpopped, status>> /\ Alive
      /\ win[Consumer] # NoWindow
      /\ pc[Consumer] = "deadline" => deadlines' = deadlines \cup {Entry.tx}
      /\ pc[Consumer] # "deadline" => deadlines' = deadlines
      /\ pc[Consumer] \in Copying /\ pc'[Consumer] \notin {"deadline", "claim", "idle", "ack"}
      /\ windows' \in {windows, [windows EXCEPT ![Entry.tx] = win[Consumer]]}
      /\ rwin' \in {rwin, [rwin EXCEPT ![Entry.tx] = win[Consumer]]}
      /\ pc[Consumer] = "deadline" => UNCHANGED rwin
  BY Shapes, ProcFacts, EntryFacts, WindowsAreNotNoWindow
  DEF AddDeadline, StoreWindow, SaveWindow, Finalize, Goto, Entry, Copying, Alive, streamVars,
      redisVars, timerVars, pgVars, budgetVars
<1>2. Scheduled(q)
  BY DEF InOrder
<1>3. CASE q # Entry.tx
  <2>1. ~ConsumerOn(q) /\ ~ConsumerOn(q)'
    BY <1>1, <1>3 DEF ConsumerOn
  <2>2. windows'[q] = windows[q] /\ rwin'[q] = rwin[q] /\ (Due(q) => Due(q)')
    BY <1>1, <1>3, Shapes DEF Due
  <2>. QED  BY <1>1, <1>2, <2>1, <2>2, ScheduledStands DEF Judged
<1>4. CASE q = Entry.tx
  <2>1. ConsumerOn(q) /\ ConsumerOn(q)' /\ pc[q] = "idle" /\ pc'[q] = "idle"
    BY <1>1, <1>4 DEF ConsumerOn, Overlap, Copying
  <2>2. ~Judged(q)' /\ stranded'[q] = 0 => windows[q] # NoWindow /\ Due(q)'
    BY <1>1, <1>2, <1>4, <2>1 DEF Scheduled, Judged, Due, Alive
  <2>3. windows[q] # NoWindow => windows'[q] # NoWindow
    BY <1>1, <1>4, Shapes
  <2>. QED  BY <2>1, <2>2, <2>3 DEF Scheduled
<1>. QED  BY <1>3, <1>4

LEMMA CopyOrder ==
    ASSUME IInv, InOrder, ~Overlap, AddDeadline \/ StoreWindow \/ SaveWindow
    PROVE  InOrder'
<1>0. PICK tx : tx = Entry.tx
  OBVIOUS
<1>1. /\ pc[Consumer] \in Copying /\ Entry' = Entry /\ tx \in Txs /\ win' = win
      /\ pc'[Consumer] # "idle" /\ \A q \in Txs : pc'[q] = pc[q]
      /\ \A q \in Txs \ {tx} : windows'[q] = windows[q] /\ rwin'[q] = rwin[q]
      /\ windows'[tx] \in {windows[tx], win[Consumer]}
      /\ rwin'[tx] \in {rwin[tx], win[Consumer]}
      /\ UNCHANGED <<log, cur, acked, claimed, status>> /\ Alive
  BY <1>0, Shapes, ProcFacts, EntryFacts
  DEF AddDeadline, StoreWindow, SaveWindow, Finalize, Goto, Entry, Copying, Alive, streamVars,
      redisVars, pgVars, budgetVars
<1>2. ClaimedInOrder'
  BY <1>1, Shapes, ProcFacts DEF InOrder, ClaimedInOrder, AddDeadline, StoreWindow, SaveWindow, Finalize, Goto
<1>3. win[Consumer][Entry.source] = Entry /\ win[Consumer] # NoWindow
  BY <1>1, Shapes, ProcFacts, WindowsAreNotNoWindow DEF InOrder, EntryOnItsWay
<1>4. EntryOnItsWay'
  <2>1. pc'[Consumer] = "save" => windows'[tx] = win[Consumer]
    BY <1>0, <1>1, Shapes, ProcFacts
    DEF AddDeadline, StoreWindow, SaveWindow, Finalize, Goto
  <2>. QED  BY <1>0, <1>1, <1>3, <2>1 DEF EntryOnItsWay
<1>5. ASSUME NEW e \in Events, Handled(e) PROVE Saved(e)'
  <2>1. Saved(e)
    BY <1>5 DEF InOrder, HandledIsSaved
  <2>. QED  BY <1>0, <1>1, <2>1, CopyStands
<1>6. ASSUME NEW e \in Events, Handled(e)', ~Handled(e) PROVE Saved(e)'
  <2>1. e = Entry /\ pc'[Consumer] = "restore" /\ SaveWindow /\ pc[Consumer] = "save"
    BY <1>1, <1>6, Shapes, ProcFacts
    DEF Handled, AddDeadline, StoreWindow, SaveWindow, Finalize, Goto
  <2>2. rwin'[tx] = win[Consumer] /\ windows'[tx] = windows[tx]
    BY <1>0, <1>1, <2>1, Shapes DEF SaveWindow
  <2>3. windows[tx] # NoWindow /\ windows[tx][e.source] = e
    BY <1>0, <2>1 DEF InOrder, EntryOnItsWay
  <2>. QED  BY <1>0, <1>1, <1>3, <2>1, <2>2, <2>3 DEF Saved, Remembered, Checkpointed
<1>7. \A q \in Txs : Scheduled(q)'
  BY CopyScheduled
<1>. QED  BY <1>1, <1>2, <1>4, <1>5, <1>6, <1>7 DEF InOrder, HandledIsSaved, Copying, Alive

LEMMA RegisterTallyOrder == ASSUME IInv, InOrder, Register \/ Tally PROVE InOrder'
<1>1. /\ pc[Consumer] \in {"register", "tally"} /\ Entry' = Entry
      /\ pc'[Consumer] \in {"open", "upsert", "ack"}
      /\ \A q \in Txs : pc'[q] = pc[q] /\ win'[q] = win[q]
      /\ pc'[Consumer] = "ack" => pc[Consumer] = "tally"
      /\ UNCHANGED <<log, cur, acked, claimed, windows, rwin, deadlines, tpopped, status>> /\ Alive
  BY Shapes, ProcFacts
  DEF Register, Tally, Goto, Entry, Alive, streamVars, redisVars, timerVars, pgVars, budgetVars
<1>2. ClaimedInOrder'
  BY <1>1 DEF InOrder, ClaimedInOrder
<1>3. EntryOnItsWay'
  BY <1>1 DEF EntryOnItsWay, Copying
<1>4. ASSUME NEW e \in Events, Handled(e)' PROVE Saved(e)'
  <2>1. Saved(e)
    BY <1>1, <1>4 DEF Handled, InOrder, HandledIsSaved
  <2>. QED  BY <1>1, <2>1, EventFields, SavedStands DEF Judged, Copying
<1>5. \A q \in Txs : Scheduled(q)'
  BY <1>1, ScheduledStands DEF InOrder, Judged, Due, Copying
<1>. QED  BY <1>1, <1>2, <1>3, <1>4, <1>5 DEF InOrder, HandledIsSaved, Alive

LEMMA ConcludeOrder ==
    ASSUME IInv, RaceInv, InOrder, ~Overlap, NEW p \in Procs, Conclude(p)
    PROVE  InOrder'
<1>0. PICK tx : tx = Tx(p)
  OBVIOUS
<1>1. Concluding(p) /\ tx \in Txs /\ Judged(tx)'
  BY <1>0, Concludes DEF Concluding
<1>2. p # Consumer => p = tx /\ ~ConsumerOn(tx)
  BY <1>0, <1>1, ProcFacts DEF Overlap, Concluding, Stepping, Reporting, Cleaning
<1>3. ClaimedInOrder'
  <2>1. pc'[Consumer] = "claim" => pc[Consumer] = "claim"
    BY <1>1, ProcFacts DEF Concluding, Stepping, Reporting, Cleaning
  <2>. QED  BY <1>1, <2>1 DEF InOrder, ClaimedInOrder, Concluding
<1>4. EntryOnItsWay'
  <2>1. CASE p = Consumer
    BY <1>1, <2>1 DEF Concluding, Stepping, Reporting, Cleaning, Copying, EntryOnItsWay
  <2>2. CASE p # Consumer
    <3>1. pc'[Consumer] = pc[Consumer] /\ win'[Consumer] = win[Consumer] /\ Entry' = Entry
      BY <1>1, <2>2, ProcFacts DEF Concluding
    <3>2. pc[Consumer] = "save" => Entry.tx \in Txs \ {tx}
      BY <1>2, <2>2, EntryFacts DEF ConsumerOn
    <3>3. pc[Consumer] = "save" => windows'[Entry.tx] = windows[Entry.tx]
      BY <1>0, <1>1, <3>2 DEF Concluding
    <3>. QED  BY <3>1, <3>3 DEF InOrder, EntryOnItsWay
  <2>. QED  BY <2>1, <2>2
<1>5. pc'[Consumer] # "idle" => cur' \notin acked'
  BY <1>1, ProcFacts DEF InOrder, HandledIsSaved, Concluding, Stepping, Reporting, Cleaning
<1>6. ASSUME NEW e \in Events, Handled(e)' PROVE Saved(e)'
  <2>1. CASE e.tx = tx
    BY <1>1, <2>1 DEF Saved
  <2>2. CASE e.tx # tx
    <3>1. Handled(e)
      <4>1. CASE p = Consumer
        BY <1>0, <1>1, <1>6, <2>2, <4>1, ProcFacts DEF Handled, Concluding
      <4>2. CASE p # Consumer
        BY <1>1, <1>6, <4>2, ProcFacts DEF Handled, Concluding
      <4>. QED  BY <4>1, <4>2
    <3>2. Saved(e)
      BY <3>1 DEF InOrder, HandledIsSaved
    <3>3. e.tx \in Txs \ {tx} /\ e.tx # p
      BY <1>0, <2>2, EventFields, ProcFacts
    <3>4. ConsumerOn(e.tx)' /\ pc'[Consumer] \in Copying =>
            ConsumerOn(e.tx) /\ pc[Consumer] \in Copying /\ win'[Consumer] = win[Consumer]
      <4>1. CASE p = Consumer
        BY <1>1, <4>1 DEF Concluding, Stepping, Reporting, Cleaning, Copying
      <4>2. CASE p # Consumer
        BY <1>1, <4>2, ProcFacts DEF Concluding, ConsumerOn
      <4>. QED  BY <4>1, <4>2
    <3>5. /\ pc'[e.tx] = pc[e.tx] /\ windows'[e.tx] = windows[e.tx] /\ rwin'[e.tx] = rwin[e.tx]
          /\ status'[e.tx] = status[e.tx]
      BY <1>0, <1>1, <3>3, ProcFacts DEF Concluding
    <3>6. win'[e.tx] = win[e.tx] /\ Alive
      BY <1>1, <3>3, ProcFacts DEF Concluding, Alive
    <3>. QED  BY <3>2, <3>4, <3>5, <3>6, SavedStands DEF Judged
  <2>. QED  BY <2>1, <2>2
<1>7. ASSUME NEW q \in Txs PROVE Scheduled(q)'
  <2>1. CASE q = tx
    BY <1>1, <2>1 DEF Scheduled
  <2>2. CASE q # tx
    <3>1. Scheduled(q) /\ q # p /\ q \in Procs
      BY <1>0, <2>2, ProcFacts DEF InOrder
    <3>2. /\ ConsumerOn(q)' /\ pc'[Consumer] \in Copying =>
               ConsumerOn(q) /\ pc[Consumer] \in Copying
          /\ ConsumerOn(q) /\ pc[Consumer] = "deadline" =>
               ConsumerOn(q)' /\ pc'[Consumer] = "deadline"
      <4>1. CASE p = Consumer
        BY <1>1, <4>1 DEF Concluding, Stepping, Reporting, Cleaning, Copying
      <4>2. CASE p # Consumer
        BY <1>1, <4>2, ProcFacts DEF Concluding, ConsumerOn
      <4>. QED  BY <4>1, <4>2
    <3>3. /\ pc'[q] = pc[q] /\ windows'[q] = windows[q] /\ rwin'[q] = rwin[q]
          /\ status'[q] = status[q] /\ (Due(q) => Due(q)') /\ Alive
      BY <1>0, <1>1, <2>2, <3>1 DEF Concluding, Due, Alive
    <3>. QED  BY <3>1, <3>2, <3>3, ScheduledStands DEF Judged
  <2>. QED  BY <2>1, <2>2
<1>. QED  BY <1>1, <1>3, <1>4, <1>5, <1>6, <1>7 DEF InOrder, HandledIsSaved, Concluding

LEMMA TaskOrder ==
    ASSUME IInv, RaceInv, InOrder, ~Overlap, ~Overlap', NEW tx \in Txs, Spawn(tx) \/ Take(tx)
    PROVE  InOrder'
<1>1. /\ Untouched(Consumer) /\ Entry' = Entry /\ pc'[tx] \in {"take", "upsert", "idle"}
      /\ \A q \in Txs \ {tx} : pc'[q] = pc[q] /\ windows'[q] = windows[q]
      /\ pc[tx] \in {"idle", "take"}
      /\ UNCHANGED <<log, cur, acked, claimed, rwin, deadlines, status>> /\ Alive
      /\ tpopped' \in {tpopped, tpopped \ {tx}}
      /\ \A q \in Txs \ {tx} : win'[q] = win[q]
      /\ \/ windows'[tx] = windows[tx] /\ pc'[tx] = "take"
         \/ windows[tx] = NoWindow /\ windows'[tx] = NoWindow /\ pc[tx] = "take"
         \/ windows'[tx] = NoWindow /\ pc'[tx] = "upsert" /\ win'[tx] = windows[tx]
      /\ ~ConsumerOn(tx)
  <2>1. /\ Untouched(Consumer) /\ Entry' = Entry /\ \A q \in Procs \ {tx} : Untouched(q)
    BY TaskWorks, ProcFacts DEF Works, Entry
  <2>2. /\ pc'[tx] \in {"take", "upsert", "idle"} /\ pc[tx] \in {"idle", "take"}
        /\ UNCHANGED <<log, cur, acked, claimed, rwin, deadlines, status>> /\ Alive
        /\ tpopped' \in {tpopped, tpopped \ {tx}}
        /\ \/ windows'[tx] = windows[tx] /\ pc'[tx] = "take"
           \/ windows[tx] = NoWindow /\ windows'[tx] = NoWindow /\ pc[tx] = "take"
           \/ windows'[tx] = NoWindow /\ pc'[tx] = "upsert" /\ win'[tx] = windows[tx]
        /\ \A q \in Txs \ {tx} : windows'[q] = windows[q]
    BY Shapes, ProcFacts
    DEF Spawn, Take, Finalize, Goto, Return, RaceInv, TimerOnce, Alive, streamVars, redisVars,
        timerVars, pgVars, budgetVars
  <2>3. ~ConsumerOn(tx)
    <3>1. ConsumerOn(tx)' <=> ConsumerOn(tx)
      BY <2>1 DEF ConsumerOn, Untouched
    <3>2. pc[tx] # "idle" \/ pc'[tx] # "idle"
      BY TaskWorks, ProcFacts DEF Works
    <3>. QED  BY <3>1, <3>2 DEF Overlap
  <2>. QED  BY <2>1, <2>2, <2>3, ProcFacts DEF Untouched
<1>2. ClaimedInOrder'
  BY <1>1 DEF InOrder, ClaimedInOrder, Untouched
<1>3. EntryOnItsWay'
  <2>1. pc[Consumer] = "save" => Entry.tx \in Txs \ {tx}
    BY <1>1, EntryFacts DEF ConsumerOn
  <2>. QED  BY <1>1, <2>1 DEF InOrder, EntryOnItsWay, Untouched
<1>4. ASSUME NEW e \in Events, Handled(e)' PROVE Saved(e)'
  <2>1. Saved(e) /\ e.tx \in Txs
    BY <1>1, <1>4, EventFields DEF Handled, Untouched, InOrder, HandledIsSaved
  <2>2. CASE e.tx # tx
    <3>1. ConsumerOn(e.tx)' <=> ConsumerOn(e.tx)
      BY <1>1 DEF ConsumerOn, Untouched
    <3>. QED  BY <1>1, <2>1, <2>2, <3>1, SavedStands DEF Judged, Untouched
  <2>3. CASE e.tx = tx /\ Judged(tx)
    BY <1>1, <2>3 DEF Saved, Judged
  <2>4. CASE stranded[e.tx] > 1
    BY <1>1, <2>4 DEF Saved, Alive
  <2>5. CASE e.tx = tx /\ Remembered(e) /\ (stranded[e.tx] = 1 \/ Checkpointed(e))
    <3>1. windows[tx] # NoWindow /\ windows[tx][e.source] = e
      BY <1>1, <2>5 DEF Remembered, TaskHolds
    <3>2. ~ConsumerOn(tx)'
      BY <1>1 DEF ConsumerOn, Untouched
    <3>3. Remembered(e)'
      BY <1>1, <2>5, <3>1, <3>2 DEF Remembered, TaskHolds
    <3>. QED  BY <1>1, <2>5, <3>3 DEF Saved, Checkpointed, Alive
  <2>. QED  BY <2>1, <2>2, <2>3, <2>4, <2>5 DEF Saved
<1>5. ASSUME NEW q \in Txs PROVE Scheduled(q)'
  <2>1. Scheduled(q) /\ (ConsumerOn(q)' <=> ConsumerOn(q))
    BY <1>1 DEF InOrder, ConsumerOn, Untouched
  <2>2. CASE q # tx
    BY <1>1, <2>1, <2>2, ScheduledStands DEF Judged, Due, Untouched
  <2>3. CASE q = tx
    BY <1>1, <2>1, <2>3 DEF Scheduled, Judged, Due, Alive
  <2>. QED  BY <2>2, <2>3
<1>. QED  BY <1>1, <1>2, <1>3, <1>4, <1>5 DEF InOrder, HandledIsSaved, Untouched, Alive

\* A deadline that is popped is still due.
LEMMA PopOrder == ASSUME InOrder, NEW tx \in Txs, Pop(tx) PROVE InOrder'
<1>1. /\ UNCHANGED <<log, cur, acked, claimed, pc, win, windows, rwin, status>> /\ Alive
      /\ \A q \in Txs : Due(q) => Due(q)'
      /\ Entry' = Entry
  BY DEF Pop, Due, Entry, Alive, streamVars, procVars, pgVars, budgetVars
<1>2. ClaimedInOrder' /\ EntryOnItsWay' /\ HandledIsSaved'
  BY <1>1 DEF InOrder, ClaimedInOrder, EntryOnItsWay, HandledIsSaved, Handled, Saved, Judged,
     Remembered, Checkpointed, TaskHolds, ConsumerOn, Alive
<1>3. \A q \in Txs : Scheduled(q)'
  BY <1>1, ScheduledStands DEF InOrder, Judged, ConsumerOn
<1>. QED  BY <1>1, <1>2, <1>3 DEF InOrder, Alive

\* A checkpoint that expires is that of a judged or a stranded transaction.
LEMMA ExpireOrder == ASSUME IInv, InOrder, NEW tx \in Txs, ExpireCheckpoint(tx) PROVE InOrder'
<1>1. /\ UNCHANGED <<log, cur, acked, claimed, pc, win, windows, deadlines, tpopped, status>>
      /\ Alive /\ Entry' = Entry
      /\ rwin[tx] # NoWindow /\ rwin' = [rwin EXCEPT ![tx] = NoWindow]
      /\ pc[tx] = "idle" /\ ~ConsumerOn(tx) /\ ~Due(tx) /\ stranded[tx] \in Nat
  BY DEF ExpireCheckpoint, Quiet, Due, Entry, Alive, streamVars, procVars, timerVars, pgVars,
     budgetVars, IInv, TypeOK
<1>2. Judged(tx) \/ stranded[tx] = 1 \/ stranded[tx] > 1
  BY <1>1 DEF InOrder, Scheduled
<1>3. ClaimedInOrder' /\ EntryOnItsWay'
  BY <1>1 DEF InOrder, ClaimedInOrder, EntryOnItsWay
<1>4. ASSUME NEW e \in Events, Handled(e)' PROVE Saved(e)'
  <2>1. Saved(e) /\ e.tx \in Txs
    BY <1>1, <1>4, EventFields DEF Handled, InOrder, HandledIsSaved
  <2>2. Checkpointed(e) => Checkpointed(e)' \/ e.tx = tx
    BY <1>1, <2>1, Shapes DEF Checkpointed
  <2>3. (Judged(e.tx) <=> Judged(e.tx)') /\ (Remembered(e) => Remembered(e)')
    BY <1>1 DEF Judged, Remembered, TaskHolds, ConsumerOn
  <2>. QED  BY <1>1, <1>2, <2>1, <2>2, <2>3 DEF Saved, Alive
<1>5. \A q \in Txs : Scheduled(q)'
  <2>1. \A q \in Txs : rwin'[q] # NoWindow => rwin'[q] = rwin[q]
    BY <1>1, Shapes
  <2>. QED  BY <1>1, <2>1 DEF InOrder, Scheduled, Judged, Due, ConsumerOn, Alive
<1>. QED  BY <1>1, <1>3, <1>4, <1>5 DEF InOrder, HandledIsSaved, Alive

\* The next process has the checkpoints for windows.  Whoever loses his timeout
\* is stranded; the others keep their deadlines.
LEMMA CrashOrder ==
    ASSUME IInv, InOrder, ~LongOutage, NEW gone, NEW forgotten,
           CrashAndRestart(gone, forgotten, {})
    PROVE  InOrder'
<1>1. /\ cur' = last /\ (\A p \in Procs : pc'[p] = "idle")
      /\ UNCHANGED <<log, acked, claimed, deadlines, status>>
      /\ \A q \in Txs : rwin'[q] = rwin[q] /\ windows'[q] = rwin[q]
      /\ \A q \in Txs : stranded[q] \in Nat /\ stranded'[q] =
             IF stranded[q] > 0 \/ q \in TimeoutsInWork THEN stranded[q] + 1 ELSE 0
  BY DEF CrashAndRestart, Restore, pgVars, IInv, TypeOK
<1>2. pc'[Consumer] = "idle" /\ \A q \in Txs : pc'[q] = "idle"
  BY <1>1, ProcFacts
<1>3. ClaimedInOrder'
  <2>1. \A j \in 1..cur : j \in 1..last
    BY LogFacts
  <2>. QED  BY <1>1, <1>2, <2>1 DEF InOrder, ClaimedInOrder
<1>4. EntryOnItsWay'
  BY <1>2 DEF EntryOnItsWay, Copying
<1>5. ASSUME NEW e \in Events, Handled(e)' PROVE Saved(e)'
  <2>1. Handled(e)
    BY <1>1, <1>2, <1>5 DEF Handled
  <2>2. Saved(e) /\ e.tx \in Txs
    BY <2>1, EventFields DEF InOrder, HandledIsSaved
  <2>3. CASE Judged(e.tx)
    BY <1>1, <2>3 DEF Saved, Judged
  <2>4. CASE stranded[e.tx] > 0
    BY <1>1, <2>2, <2>4 DEF Saved
  <2>5. CASE Checkpointed(e)
    <3>1. Checkpointed(e)' /\ Remembered(e)'
      BY <1>1, <1>2, <2>2, <2>5 DEF Checkpointed, Remembered, ConsumerOn
    <3>. QED  BY <3>1 DEF Saved
  <2>6. stranded[e.tx] \in Nat /\ (stranded[e.tx] > 1 => stranded[e.tx] > 0)
    BY <1>1, <2>2
  <2>. QED  BY <2>2, <2>3, <2>4, <2>5, <2>6 DEF Saved
<1>6. ASSUME NEW q \in Txs PROVE Scheduled(q)'
  <2>. SUFFICES ASSUME ~Judged(q), stranded[q] = 0, q \notin TimeoutsInWork, rwin[q] # NoWindow
                PROVE  q \in deadlines
    BY <1>1, <1>2 DEF Scheduled, Judged, Due, ConsumerOn, Copying
  <2>. QED  BY DEF InOrder, Scheduled, Due, TimeoutsInWork
<1>. QED  BY <1>2, <1>3, <1>4, <1>5, <1>6 DEF InOrder, HandledIsSaved

LEMMA NextCrash ==
    ASSUME IInv, RaceInv, SerialInv, CrashInv, SerialNext
    PROVE  CrashInv'
<1>1. Next /\ ~Overlap /\ ~Overlap' /\ (crashes' # crashes => Orderly)
  BY DEF SerialNext, SerialInv
<1>2. /\ log' = log
      /\ faults \in Nat /\ faults' \in Nat /\ faults <= faults'
      /\ crashes \in Nat /\ crashes' \in Nat /\ crashes <= crashes'
  BY <1>1, Onward
<1>3. Orderly' <=> Orderly
  BY <1>2 DEF Orderly
<1>4. ~Orderly' => crashes' = 0
  BY <1>1, <1>3 DEF CrashInv
<1>. SUFFICES ASSUME Orderly, faults = 0, faults' = 0, LongOutage => crashes' = 0
              PROVE  InOrder'
  BY <1>2, <1>3, <1>4 DEF CrashInv
<1>5. InOrder
  BY <1>2 DEF CrashInv
<1>6. CASE XRead \/ (\E due \in SUBSET Txs : Scan(due)) \/ (\E tx \in Txs : ExpireSources(tx))
  BY <1>5, <1>6, OrderStutter
  DEF XRead, Scan, ExpireSources, orderVars, streamVars, procVars, redisVars, timerVars, pgVars,
      budgetVars
<1>7. CASE NextEntry \/ Ack \/ Claim \/ OpenWindow
  BY <1>1, <1>5, <1>7, NextEntryOrder, AckOrder, ClaimOrder, OpenWindowOrder
<1>8. CASE AddDeadline \/ StoreWindow \/ SaveWindow \/ Register \/ Tally
  BY <1>1, <1>5, <1>8, CopyOrder, RegisterTallyOrder
<1>9. CASE \E p \in Procs : Conclude(p)
  BY <1>1, <1>5, <1>9, ConcludeOrder
<1>10. CASE \E tx \in Txs : Pop(tx) \/ Spawn(tx) \/ Take(tx) \/ ExpireCheckpoint(tx)
  BY <1>1, <1>5, <1>10, PopOrder, TaskOrder, ExpireOrder
<1>11. CASE \E gone, forgotten, unread \in SUBSET Txs : CrashAndRestart(gone, forgotten, unread)
  <2>1. PICK gone, forgotten, unread \in SUBSET Txs : CrashAndRestart(gone, forgotten, unread)
    BY <1>11
  <2>2. unread = {}
    BY <2>1 DEF CrashAndRestart, Fault
  <2>3. ~LongOutage
    BY <1>2, <2>1 DEF CrashAndRestart
  <2>. QED  BY <1>5, <2>1, <2>2, <2>3, CrashOrder
<1>12. ~(\E p \in Procs : ProcFails(p)) /\ ~XReadLost /\ ~TimerFails
  BY DEF ProcFails, XReadLost, TimerFails, Fault
<1>. QED
  BY <1>1, <1>6, <1>7, <1>8, <1>9, <1>10, <1>11, <1>12 DEF Next, Consume, Environment

LEMMA InitCrash == Init => CrashInv
  BY ProcFacts
  DEF Init, ProcInit, CrashInv, InOrder, ClaimedInOrder, EntryOnItsWay, HandledIsSaved, Handled,
      Copying, Scheduled, ConsumerOn

\* CrashInv holds of every reachable state of a serial run: while the process may
\* die, what it has acknowledged is in the checkpoints it starts from again, and
\* a deadline keeps each of them, but for the transactions whose timeout was at
\* work when it died.
THEOREM SerialCrashes == SerialSpec => []CrashInv
<1>1. CrashInv /\ UNCHANGED vars => CrashInv'
  BY OrderStutter
  DEF CrashInv, Orderly, orderVars, vars, streamVars, procVars, redisVars, timerVars, pgVars,
      budgetVars
<1>2. IInv /\ RaceInv /\ SerialInv /\ CrashInv /\ [SerialNext]_vars => CrashInv'
  BY <1>1, NextCrash
<1>3. Init => CrashInv
  BY InitCrash
<1>. QED
  BY <1>2, <1>3, SerialIsSpec, EngineInvariant, EngineKeepsEvents, SerialStages, PTL
  DEF SerialSpec

LEMMA CrashDurable ==
    ASSUME ~LongOutage, IInv, RaceInv, CrashInv, faults = 0
    PROVE  AckedSurvivesCrashes
<1>1. CASE ~Orderly
  BY <1>1, RaceDurable DEF CrashInv, Undisturbed, AckedIsDurable, AckedSurvivesCrashes
<1>2. CASE Orderly
  <2>1. ASSUME NEW e \in Acknowledged PROVE Saved(e)
    BY <1>2, <2>1, ClaimedFacts DEF Acknowledged, CrashInv, InOrder, HandledIsSaved, Handled
  <2>. QED  BY <2>1
            DEF AckedSurvivesCrashes, Durable, Saved, Judged, Remembered, TaskHolds, Checkpointed
<1>. QED  BY <1>1, <1>2

\* The process dies and starts again, any number of times, and is each time back
\* before the checkpoints expire: with it goes what was delivered and not
\* acknowledged.  An acknowledged event is lost only if its timeout was popped
\* and had written nothing when the process died, and the process dies again.
THEOREM EngineSurvivesCrashes ==
    ASSUME ~LongOutage
    PROVE  SerialSpec => [](faults = 0 => AckedSurvivesCrashes)
<1>1. IInv /\ RaceInv /\ CrashInv => (faults = 0 => AckedSurvivesCrashes)
  BY CrashDurable
<1>. QED  BY <1>1, SerialCrashes, SerialIsSpec, EngineInvariant, EngineKeepsEvents, PTL

-----------------------------------------------------------------------------
(* Judged once only.                                                       *)

\* On an orderly stream a source has one event about a transaction.
LEMMA OneOfASource ==
    ASSUME IInv, InOrder, Orderly, NEW e \in claimed, NEW f \in claimed,
           e.tx = f.tx, e.source = f.source
    PROVE  e = f
<1>1. PICK j \in 1..cur : e = log[j]
  BY DEF InOrder, ClaimedInOrder
<1>2. PICK k \in 1..cur : f = log[k]
  BY DEF InOrder, ClaimedInOrder
<1>3. j \in DOMAIN log /\ k \in DOMAIN log
  BY LogFacts
<1>. QED  BY <1>1, <1>2, <1>3, ClaimedFacts DEF Orderly

\* The entry to claim is the first of its source.
LEMMA FirstOfItsSource ==
    ASSUME IInv, InOrder, Orderly, pc[Consumer] = "claim", NEW e \in claimed, e.tx = Entry.tx
    PROVE  e.source # Entry.source
<1>1. PICK j \in 1..cur : e = log[j] /\ j # cur
  BY DEF InOrder, ClaimedInOrder
<1>2. j \in DOMAIN log /\ cur \in DOMAIN log
  BY LogFacts, EntryFacts
<1>. QED  BY <1>1, <1>2, ClaimedFacts, EntryFacts DEF Orderly, Entry

\* An event of a window a process works on is one that was accepted.
LEMMA HeldIsClaimed ==
    ASSUME IInv, NEW p \in Procs, pc[p] \in Holding, NEW s \in SourcesSeen(win[p])
    PROVE  win[p][s] \in EventsOf(Tx(p), claimed) /\ win[p][s].source = s /\ s \in Source
  BY DEF IInv, Sound, HoldsGenuine, Genuine, Slots, SourcesSeen

\* Of the events of a transaction another step accepts none.
LEMMA SameStands ==
    ASSUME NEW tx, Same(tx), EventsOf(tx, claimed)' = EventsOf(tx, claimed), Stands(tx)
    PROVE  Stands(tx)'
<1>1. /\ By(tx)' = By(tx) /\ At(tx)' = At(tx)
      /\ outcome'[By(tx)] = outcome[By(tx)] /\ win'[By(tx)] = win[By(tx)]
      /\ windows'[tx] = windows[tx] /\ status'[tx] = status[tx]
      /\ By(tx) = Consumer => Entry' = Entry
  BY DEF Same, Untouched, StoresOf
<1>2. NeverEmpty(tx)'
  BY <1>1 DEF Stands, NeverEmpty
<1>3. ASSUME NEW e \in EventsOf(tx, claimed) PROVE Unjudged(e)' <=> Unjudged(e)
  BY <1>1 DEF EventsOf, Unjudged, Telling
<1>. QED  BY <1>1, <1>2, <1>3 DEF Stands

\* While no status is written, an event that was judged stays it.
LEMMA UsedStaysUsed ==
    ASSUME NEW tx, Stands(tx), NeverEmpty(tx)', status'[tx] = status[tx],
           EventsOf(tx, claimed)' = EventsOf(tx, claimed),
           At(tx)' \in Reporting => outcome'[By(tx)'] # "pending",
           \A e \in EventsOf(tx, claimed) : Unjudged(e)' => Unjudged(e)
    PROVE  Stands(tx)'
  BY DEF Stands

LEMMA AcceptStands ==
    ASSUME IInv, InOrder, Orderly, ~Overlap, ~Overlap', Accept, NEW tx, tx = Entry.tx, Stands(tx)
    PROVE  Stands(tx)'
<1>1. /\ tx \in Txs /\ Entry' = Entry /\ tx # Consumer /\ By(tx) = tx /\ At(tx) = "idle"
      /\ By(tx)' = Consumer /\ At(tx)' = "register"
  BY AcceptHere
<1>2. /\ pc[Consumer] = "claim" /\ claimed' = claimed \cup {Entry} /\ Entry \notin claimed
      /\ UNCHANGED <<windows, status>>
  BY Shapes DEF Accept, AlreadyClaimed, Claim, pgVars
<1>3. NeverEmpty(tx)'
  BY <1>1, <1>2 DEF Stands, NeverEmpty
<1>4. ASSUME NEW e \in EventsOf(tx, claimed), ~Unjudged(e) PROVE ~Unjudged(e)'
  BY <1>1, <1>2, <1>4 DEF EventsOf, Unjudged, Telling, Reporting, Cleaning
<1>5. status[tx] \notin Decisions
  <2>1. \A e \in EventsOf(tx, claimed) : e.source # Entry.source
    BY <1>2, FirstOfItsSource DEF EventsOf
  <2>2. Entry.source \in Source
    BY <1>2, EntryFacts
  <2>. QED  BY <2>1, <2>2 DEF Stands
<1>6. status'[tx] = "degraded" => \E e \in EventsOf(tx, claimed)' : ~Unjudged(e)'
  <2>1. EventsOf(tx, claimed) \subseteq EventsOf(tx, claimed)'
    BY <1>2 DEF EventsOf
  <2>. QED  BY <1>2, <1>4, <2>1 DEF Stands
<1>. QED  BY <1>1, <1>2, <1>3, <1>5, <1>6 DEF Stands, Reporting

\* A source of an orderly stream is registered by its only event.
LEMMA NeverARepeat ==
    ASSUME IInv, InOrder, Orderly, Register
    PROVE  ~AlreadyRegistered
<1>. SUFFICES ASSUME Entry.source \in sources[Entry.tx] PROVE FALSE
  BY DEF AlreadyRegistered
<1>1. pc[Consumer] = "register" /\ Entry \in claimed /\ Entry.tx \in Txs
  BY EntryFacts DEF Register
<1>2. PICK e \in EventsOf(Entry.tx, claimed) : e.source = Entry.source /\ ~Registering(e)
  BY <1>1 DEF IInv, SourcesBacked
<1>. QED  BY <1>1, <1>2, OneOfASource DEF EventsOf, Registering

LEMMA HandleStands ==
    ASSUME IInv, InOrder, Orderly, SerialInv, Undisturbed, ~Overlap', Handle,
           NEW tx, tx = Entry.tx, Stands(tx)
    PROVE  Stands(tx)'
<1>1. /\ tx \in Txs /\ tx # Consumer /\ Entry' = Entry /\ By(tx) = Consumer
      /\ At(tx) = pc[Consumer]
      /\ pc'[Consumer] \notin {"idle", "claim", "ack"} =>
           By(tx)' = Consumer /\ At(tx)' = pc'[Consumer]
      /\ pc'[Consumer] \in {"idle", "claim", "ack"} => By(tx)' = tx /\ At(tx)' = "idle"
      /\ Stage(tx)
  BY ConsumerWorks, ConsumerHere, ProcFacts DEF SerialInv, Handle
<1>2. UNCHANGED <<status, claimed>> /\ Entry \in Events
  BY EntryFacts DEF Handle, Register, OpenWindow, AddDeadline, StoreWindow, SaveWindow, Tally,
     pgVars, redisVars
<1>3. CASE Register
  <2>1. pc[Consumer] = "register" /\ pc'[Consumer] = "open" /\ windows' = windows
    BY <1>3, NeverARepeat, Shapes, ProcFacts DEF Register, Goto
  <2>2. NeverEmpty(tx)'
    BY <1>1, <2>1 DEF Stands, NeverEmpty
  <2>3. ASSUME NEW e \in EventsOf(tx, claimed), Unjudged(e)' PROVE Unjudged(e)
    BY <1>1, <2>1, <2>3 DEF EventsOf, Unjudged, Telling, Reporting, Cleaning
  <2>. QED  BY <1>1, <1>2, <2>1, <2>2, <2>3, UsedStaysUsed DEF Reporting
<1>4. CASE OpenWindow
  <2>1. /\ pc[Consumer] = "open" /\ pc'[Consumer] \in {"deadline", "store"}
        /\ windows'[tx] = Opened(tx)
    BY <1>1, <1>4, Shapes, ProcFacts DEF OpenWindow, Opened, Goto
  <2>2. NeverEmpty(tx)'
    BY <1>1, <2>1 DEF NeverEmpty
  <2>3. ASSUME NEW e \in EventsOf(tx, claimed), Unjudged(e)' PROVE Unjudged(e)
    <3>1. e \in claimed /\ e.tx = tx /\ e.source \in Source /\ e # NoEvent
      BY ClaimedFacts DEF EventsOf
    <3>2. CASE e = Entry
      BY <1>1, <2>1, <3>1, <3>2 DEF Unjudged
    <3>3. CASE e # Entry
      <4>1. windows'[tx] # NoWindow /\ windows'[tx][e.source] = e
        BY <1>1, <2>1, <2>3, <3>1, <3>3 DEF Unjudged
      <4>2. windows[tx] # NoWindow /\ windows[tx][e.source] = e
        BY <2>1, <3>1, <4>1 DEF Opened, EmptyWindow
      <4>. QED  BY <1>1, <2>1, <3>1, <4>2 DEF Unjudged, Telling, Reporting, Cleaning
    <3>. QED  BY <3>2, <3>3
  <2>. QED  BY <1>1, <1>2, <2>1, <2>2, <2>3, UsedStaysUsed DEF Reporting
<1>5. CASE AddDeadline
  <2>1. pc[Consumer] = "deadline" /\ pc'[Consumer] = "store" /\ windows' = windows
    BY <1>5, Shapes, ProcFacts DEF AddDeadline, Goto
  <2>2. NeverEmpty(tx)'
    BY <1>1, <2>1 DEF NeverEmpty
  <2>3. ASSUME NEW e \in EventsOf(tx, claimed), Unjudged(e)' PROVE Unjudged(e)
    BY <1>1, <2>1, <2>3 DEF EventsOf, Unjudged, Telling, Reporting, Cleaning, Copying
  <2>. QED  BY <1>1, <1>2, <2>1, <2>2, <2>3, UsedStaysUsed DEF Reporting
<1>6. CASE StoreWindow /\ pc[Consumer] = "store"
  <2>1. /\ pc'[Consumer] = "save"
        /\ windows[tx] # NoWindow /\ windows[tx] \in Slots(Events)
        /\ windows'[tx] = InsertEvent(windows[tx], Entry)
    BY <1>1, <1>6, Shapes, ProcFacts DEF StoreWindow, Goto, Stage, Filed
  <2>2. NeverEmpty(tx)'
    <3>1. SourcesSeen(windows'[tx]) # {}
      BY <1>2, <2>1, InsertSeen
    <3>. QED  BY <1>1, <2>1, <3>1 DEF NeverEmpty
  <2>3. ASSUME NEW e \in EventsOf(tx, claimed), Unjudged(e)' PROVE Unjudged(e)
    <3>1. e \in claimed /\ e.tx = tx /\ e.source \in Source
      BY ClaimedFacts DEF EventsOf
    <3>2. CASE e = Entry
      BY <1>1, <1>6, <3>1, <3>2 DEF Unjudged, Copying
    <3>3. CASE e # Entry
      <4>1. windows'[tx][e.source] = e
        BY <1>1, <2>1, <2>3, <3>1, <3>3 DEF Unjudged
      <4>2. windows[tx][e.source] = e
        BY <1>2, <2>1, <3>1, <3>3, <4>1, InsertEventFacts
      <4>. QED  BY <1>1, <1>6, <2>1, <3>1, <4>2 DEF Unjudged, Telling, Reporting, Cleaning
    <3>. QED  BY <3>2, <3>3
  <2>. QED  BY <1>1, <1>2, <2>1, <2>2, <2>3, UsedStaysUsed DEF Reporting
<1>7. CASE StoreWindow /\ pc[Consumer] = "restore"
  <2>1. pc'[Consumer] = "resave" /\ windows'[tx] = windows[tx]
    BY <1>1, <1>7, Shapes, ProcFacts DEF StoreWindow, Goto, Stage, Stored
  <2>2. NeverEmpty(tx)'
    BY <1>1, <1>7, <2>1 DEF Stands, NeverEmpty
  <2>3. ASSUME NEW e \in EventsOf(tx, claimed), Unjudged(e)' PROVE Unjudged(e)
    BY <1>1, <1>7, <2>1, <2>3 DEF EventsOf, Unjudged, Telling, Reporting, Cleaning, Copying
  <2>. QED  BY <1>1, <1>2, <2>1, <2>2, <2>3, UsedStaysUsed DEF Reporting
<1>8. CASE SaveWindow
  <2>1. /\ pc[Consumer] \in {"save", "resave"} /\ pc'[Consumer] \in {"upsert", "restore", "tally"}
        /\ windows' = windows
        /\ pc'[Consumer] = "upsert" => outcome'[Consumer] = Verdict(win[Consumer])
    BY <1>8, Shapes, ProcFacts DEF SaveWindow, Finalize, Goto
  <2>2. NeverEmpty(tx)'
    BY <1>1, <2>1 DEF Stands, NeverEmpty
  <2>3. ASSUME NEW e \in EventsOf(tx, claimed), Unjudged(e)' PROVE Unjudged(e)
    BY <1>1, <2>1, <2>3 DEF EventsOf, Unjudged, Telling, Reporting, Cleaning, Copying
  <2>4. Verdict(win[Consumer]) # "pending"
    BY DEF Verdict
  <2>. QED  BY <1>1, <1>2, <2>1, <2>2, <2>3, <2>4, UsedStaysUsed DEF Reporting
<1>9. CASE Tally
  <2>1. pc[Consumer] = "tally" /\ pc'[Consumer] = "ack" /\ windows' = windows
    BY <1>9, Shapes, ProcFacts DEF Tally, Goto
  <2>2. NeverEmpty(tx)'
    BY <1>1, <2>1 DEF Stands, NeverEmpty
  <2>3. ASSUME NEW e \in EventsOf(tx, claimed), Unjudged(e)' PROVE Unjudged(e)
    BY <1>1, <2>1, <2>3 DEF EventsOf, Unjudged, Telling, Reporting, Cleaning
  <2>. QED  BY <1>1, <1>2, <2>1, <2>2, <2>3, UsedStaysUsed DEF Reporting
<1>. QED
  BY <1>3, <1>4, <1>5, <1>6, <1>7, <1>8, <1>9 DEF Handle, StoreWindow

LEMMA TaskStands ==
    ASSUME IInv, RaceInv, SerialInv, Undisturbed, ~Overlap', NEW tx \in Txs,
           Spawn(tx) \/ Take(tx), Stands(tx)
    PROVE  Stands(tx)'
<1>1. /\ By(tx) = tx /\ At(tx) = pc[tx] /\ By(tx)' = tx /\ At(tx)' = pc'[tx]
      /\ tx # Consumer /\ Stage(tx)
  BY TaskWorks, WorksHere, ProcFacts DEF SerialInv
<1>2. UNCHANGED <<status, claimed>>
  BY DEF Spawn, Take, pgVars, redisVars
<1>3. CASE Spawn(tx)
  <2>1. pc[tx] = "idle" /\ pc'[tx] = "take" /\ windows' = windows
    BY <1>3, Shapes, ProcFacts DEF RaceInv, TimerOnce, Spawn, Goto
  <2>2. NeverEmpty(tx)'
    BY <1>1, <2>1 DEF Stands, NeverEmpty
  <2>3. ASSUME NEW e \in EventsOf(tx, claimed), Unjudged(e)' PROVE Unjudged(e)
    BY <1>1, <2>1, <2>3 DEF EventsOf, Unjudged, Telling, Reporting, Cleaning
  <2>. QED  BY <1>1, <1>2, <2>1, <2>2, <2>3, UsedStaysUsed DEF Reporting
<1>4. CASE Take(tx)
  <2>1. pc[tx] = "take" /\ windows'[tx] = NoWindow /\ ~(windows[tx] # NoWindow /\ Complete(windows[tx]))
    BY <1>1, <1>4, Shapes DEF Take, Stage, SameStores
  <2>2. \/ pc'[tx] = "idle"
        \/ /\ pc'[tx] = "upsert" /\ outcome'[tx] = "degraded"
           /\ windows[tx] # NoWindow /\ win'[tx] = windows[tx]
    BY <1>4, <2>1, Shapes, ProcFacts DEF Take, Goto, Return, Complete
  <2>3. NeverEmpty(tx)'
    BY <1>1, <2>1, <2>2 DEF Stands, NeverEmpty
  <2>4. ASSUME NEW e \in EventsOf(tx, claimed), Unjudged(e)' PROVE Unjudged(e)
    BY <1>1, <2>1, <2>2, <2>4 DEF EventsOf, Unjudged, Telling, Reporting, Cleaning
  <2>. QED  BY <1>1, <1>2, <2>2, <2>3, <2>4, UsedStaysUsed DEF Reporting
<1>. QED  BY <1>3, <1>4

\* A transaction whose decision is being written, and what it rests on.
LEMMA VerdictFor ==
    ASSUME IInv, RaceInv, SerialInv, TablesInv, Undisturbed, ~Overlap', NEW p \in Procs,
           UpsertTransaction(p), NEW tx, tx = Tx(p), Stands(tx)
    PROVE  /\ outcome[p] \in Final
           /\ p = Consumer =>
                outcome[p] \in Decisions /\ windows[tx] = win[p] /\ SourcesSeen(win[p]) = Source
           /\ p # Consumer => outcome[p] = "degraded" /\ SourcesSeen(win[p]) # {}
<1>1. /\ tx \in Txs /\ tx # Consumer /\ By(tx) = p /\ At(tx) = pc[p] /\ (p # Consumer => p = tx)
      /\ Stage(tx) /\ Tells(tx) /\ pc[p] = "upsert"
  BY TellsHere DEF Conclude, UpsertTransaction
<1>2. outcome[p] \in Statuses /\ outcome[p] \notin {"none", "pending"}
  BY <1>1, Shapes DEF IInv, Sound, DecisionJustified, Stands, Reporting
<1>3. CASE p = Consumer
  <2>1. windows[tx] = win[p] /\ Complete(windows[tx])
    BY <1>1, <1>2, <1>3 DEF Stage, Closing, Reporting
  <2>2. outcome[p] # "degraded"
    BY <1>1, <2>1 DEF IInv, Sound, DecisionJustified, Justified, Complete
  <2>3. outcome[p] \in Decisions
    BY <1>2, <2>2 DEF Statuses, Final, Decisions
  <2>4. SourcesSeen(win[p]) = Source
    BY <1>1, <2>3 DEF Tells, Judging, RowsWritten, Decisions, Reporting
  <2>. QED  BY <1>3, <2>1, <2>3, <2>4 DEF Decisions, Final
<1>4. CASE p # Consumer
  <2>1. outcome[p] = "degraded"
    BY <1>1, <1>4 DEF Stage, TimingOut, Reporting
  <2>2. SourcesSeen(win[p]) # {}
    BY <1>1, <1>4 DEF Stands, NeverEmpty
  <2>. QED  BY <1>4, <2>1, <2>2 DEF Final
<1>. QED  BY <1>3, <1>4

LEMMA ReportStands ==
    ASSUME IInv, RaceInv, SerialInv, TablesInv, Undisturbed, ~Overlap', NEW p \in Procs,
           Report(p), NEW tx, tx = Tx(p), Stands(tx)
    PROVE  Stands(tx)'
<1>1. /\ tx \in Txs /\ tx # Consumer /\ By(tx) = p /\ At(tx) = pc[p]
      /\ By(tx)' = p /\ At(tx)' = pc'[p] /\ (p # Consumer => p = tx) /\ claimed' = claimed
  BY TellsHere DEF Report, Conclude, UpsertTransaction, UpsertDetail, RecordMatchResult,
     CreateIncident, AddEscalation, redisVars
<1>2. /\ UNCHANGED <<windows, win, outcome>> /\ pc[p] \in Reporting /\ outcome[p] # "pending"
      /\ pc'[p] \in (Reporting \ {"upsert"}) \cup {"forget"}
  BY <1>1, ReportFacts DEF Stands
<1>3. NeverEmpty(tx)'
  BY <1>1, <1>2 DEF Stands, NeverEmpty, Reporting
<1>4. ASSUME NEW e \in EventsOf(tx, claimed) PROVE ~Unjudged(e)'
  BY <1>1, <1>2 DEF EventsOf, Unjudged, Telling, Reporting, Cleaning, Copying
<1>5. CASE UpsertTransaction(p)
  <2>1. pc[p] \in Holding /\ status'[tx] = outcome[p]
    BY <1>1, <1>5, Shapes DEF UpsertTransaction, Holding, Reporting
  <2>2. \A s \in SourcesSeen(win[p]) :
           win[p][s] \in EventsOf(tx, claimed) /\ win[p][s].source = s
    BY <2>1, HeldIsClaimed
  <2>3. status'[tx] = "degraded" => \E e \in EventsOf(tx, claimed) : ~Unjudged(e)'
    BY <1>4, <1>5, <2>1, <2>2, VerdictFor DEF Decisions
  <2>4. status'[tx] \in Decisions => \A s \in Source : \E e \in EventsOf(tx, claimed) : e.source = s
    BY <1>5, <2>1, <2>2, VerdictFor DEF Decisions
  <2>. QED  BY <1>1, <1>2, <1>3, <1>4, <2>3, <2>4 DEF Stands
<1>6. CASE ~UpsertTransaction(p)
  <2>1. status' = status
    BY <1>6 DEF Report, UpsertDetail, RecordMatchResult, CreateIncident, AddEscalation, pgVars
  <2>. QED  BY <1>1, <1>2, <1>3, <1>4, <2>1, UsedStaysUsed
<1>. QED  BY <1>5, <1>6

LEMMA CleanUpStands ==
    ASSUME IInv, RaceInv, SerialInv, TablesInv, Undisturbed, ~Overlap', NEW p \in Procs,
           CleanUp(p), NEW tx, tx = Tx(p), Stands(tx)
    PROVE  Stands(tx)'
<1>1. /\ tx \in Txs /\ tx # Consumer /\ By(tx) = p /\ At(tx) = pc[p] /\ Stage(tx)
      /\ By(tx)' = p /\ At(tx)' = pc'[p] /\ (p # Consumer => p = tx)
      /\ UNCHANGED <<claimed, status>>
  BY TellsHere DEF CleanUp, Conclude, ForgetWindow, DeleteWindow, RemoveDeadline, CleanupSources,
     pgVars, redisVars
<1>2. pc'[p] \in {"delete", "undeadline", "unregister", "tally", "idle"}
  BY <1>1, Shapes
  DEF CleanUp, ForgetWindow, DeleteWindow, RemoveDeadline, CleanupSources, Return, Goto
<1>3. windows'[tx] = NoWindow
  BY <1>1, Shapes
  DEF CleanUp, ForgetWindow, DeleteWindow, RemoveDeadline, CleanupSources, Stage, Cleaning
<1>4. NeverEmpty(tx)'
  BY <1>1, <1>2, <1>3 DEF NeverEmpty
<1>5. ASSUME NEW e \in EventsOf(tx, claimed) PROVE ~Unjudged(e)'
  BY <1>1, <1>2, <1>3 DEF EventsOf, Unjudged, Copying
<1>. QED  BY <1>1, <1>2, <1>4, <1>5, UsedStaysUsed DEF Reporting

LEMMA AcceptedElsewhere ==
    ASSUME IInv, SerialInv, SerialNext, Undisturbed', NEW tx \in Txs, Same(tx)
    PROVE  EventsOf(tx, claimed)' = EventsOf(tx, claimed)
<1>1. Next /\ ~Overlap /\ ~Overlap' /\ Undisturbed
  BY Calm DEF SerialInv, SerialNext
<1>2. CASE Accept
  <2>1. tx # Entry.tx
    <3>. SUFFICES ASSUME tx = Entry.tx PROVE FALSE
      OBVIOUS
    <3>. QED  BY <1>1, <1>2, AcceptHere DEF Same
  <2>. QED  BY <1>2, <2>1 DEF Accept, Claim, EventsOf
<1>3. CASE ~Accept
  <2>1. CASE Consume
    BY <1>3, <2>1
    DEF Consume, Accept, XRead, NextEntry, Claim, Register, OpenWindow, AddDeadline, StoreWindow,
        SaveWindow, Tally, Ack, redisVars, EventsOf
  <2>2. CASE \E p \in Procs : Conclude(p)
    BY <2>2 DEF Conclude, UpsertTransaction, UpsertDetail, RecordMatchResult, CreateIncident,
       AddEscalation, ForgetWindow, DeleteWindow, RemoveDeadline, CleanupSources, redisVars, EventsOf
  <2>3. CASE (\E due \in SUBSET Txs : Scan(due)) \/ (\E q \in Txs : Pop(q) \/ Spawn(q) \/ Take(q))
    BY <2>3 DEF Scan, Pop, Spawn, Take, redisVars, EventsOf
  <2>4. CASE Environment
    BY <2>4 DEF Environment, ProcFails, XReadLost, TimerFails, CrashAndRestart, ExpireCheckpoint,
       ExpireSources, redisVars, EventsOf
  <2>. QED  BY <1>1, <2>1, <2>2, <2>3, <2>4 DEF Next
<1>. QED  BY <1>2, <1>3

\* On an orderly stream the consumer has handled in order what it has claimed.
LEMMA CalmOrder ==
    ASSUME CrashInv, Undisturbed, Orderly
    PROVE  InOrder
  BY DEF CrashInv, Undisturbed

LEMMA NextStands ==
    ASSUME IInv, RaceInv, SerialInv, TablesInv, CrashInv, StandInv, SerialNext
    PROVE  StandInv'
<1>1. Next /\ ~Overlap /\ ~Overlap' /\ (Undisturbed' => Undisturbed) /\ (Orderly' <=> Orderly)
  BY Calm, Onward DEF SerialInv, SerialNext, Orderly
<1>. SUFFICES ASSUME Undisturbed', Orderly, NEW tx \in Txs
              PROVE  Stands(tx)'
  BY <1>1 DEF StandInv
<1>2. Undisturbed /\ InOrder /\ Stands(tx)
  BY <1>1, CalmOrder DEF StandInv
<1>3. CASE Same(tx)
  BY <1>2, <1>3, AcceptedElsewhere, SameStands
<1>4. CASE About(tx)
  BY <1>1, <1>2, <1>4, AcceptStands, HandleStands, TaskStands, ReportStands, CleanUpStands DEF About
<1>. QED  BY <1>3, <1>4, OneTransaction

LEMMA InitStands == Init => StandInv
<1>. SUFFICES ASSUME Init, NEW tx \in Txs PROVE Stands(tx)
  BY DEF StandInv
<1>1. At(tx) = "idle" /\ status[tx] = "none" /\ windows[tx] = NoWindow
  BY ProcFacts DEF Init, ProcInit, ConsumerOn, By, At
<1>. QED  BY <1>1 DEF Stands, NeverEmpty, Reporting, Decisions

\* StandInv holds of every reachable state of a serial run: each accepted event
\* is in work, in one open window, in one timeout, or has been judged.
THEOREM SerialStands == ASSUME ExpectedSources >= 3 PROVE SerialSpec => []StandInv
<1>1. StandInv /\ UNCHANGED vars => StandInv'
  BY DEF StandInv, Undisturbed, Orderly, Stands, NeverEmpty, Unjudged, Telling, By, At, ConsumerOn,
     Entry, EventsOf, vars, streamVars, procVars, redisVars, pgVars, budgetVars
<1>2. IInv /\ RaceInv /\ SerialInv /\ TablesInv /\ CrashInv /\ StandInv /\ [SerialNext]_vars
      => StandInv'
  BY <1>1, NextStands
<1>3. Init => StandInv
  BY InitStands
<1>. QED
  BY <1>2, <1>3, SerialIsSpec, EngineInvariant, EngineKeepsEvents, SerialStages, SerialTables,
     SerialCrashes, PTL
  DEF SerialSpec

\* A decision is written on events that were not judged, so over none: a
\* complete window uses up what an earlier decision would have used.
LEMMA DecidedOnce ==
    ASSUME IInv, RaceInv, SerialInv, TablesInv, CrashInv, StandInv, Undisturbed, Orderly,
           ~Overlap', NEW p \in Procs, UpsertTransaction(p), NEW tx, tx = Tx(p),
           status[tx] \in Final
    PROVE  status'[tx] = status[tx]
<1>1. /\ tx \in Txs /\ tx # Consumer /\ By(tx) = p /\ At(tx) = "upsert" /\ (p # Consumer => p = tx)
      /\ pc[p] \in Holding /\ status'[tx] = outcome[p]
  BY TellsHere, Shapes DEF Conclude, UpsertTransaction, Holding, Reporting
<1>2. Stands(tx) /\ InOrder
  BY <1>1, CalmOrder DEF StandInv
<1>3. \A s \in SourcesSeen(win[p]) : win[p][s] \in EventsOf(tx, claimed) /\ win[p][s].source = s
  BY <1>1, HeldIsClaimed
<1>4. CASE p = Consumer
  <2>1. windows[tx] = win[p] /\ SourcesSeen(win[p]) = Source
    BY <1>2, <1>4, VerdictFor
  <2>2. windows[tx] # NoWindow /\ ~Telling(tx)
    BY <1>1, <2>1, Shapes, WindowsAreNotNoWindow DEF Telling, Reporting, Cleaning
  <2>3. ASSUME NEW e \in EventsOf(tx, claimed) PROVE Unjudged(e)
    <3>1. e \in claimed /\ e.tx = tx /\ e.source \in Source
      BY ClaimedFacts DEF EventsOf
    <3>2. e = win[p][e.source]
      BY <1>2, <1>3, <2>1, <3>1, OneOfASource DEF EventsOf
    <3>. QED  BY <2>1, <2>2, <3>1, <3>2 DEF Unjudged
  <2>4. EventsOf(tx, claimed) # {}
    BY <1>3, <2>1 DEF Source
  <2>. QED  BY <1>2, <2>3, <2>4 DEF Stands, Final, Decisions
<1>5. CASE p # Consumer
  <2>1. outcome[p] = "degraded" /\ SourcesSeen(win[p]) # {}
    BY <1>2, <1>5, VerdictFor
  <2>2. PICK s \in SourcesSeen(win[p]) : TRUE
    BY <2>1
  <2>3. win[p][s] \in EventsOf(tx, claimed) /\ Unjudged(win[p][s])
    BY <1>1, <1>3, <1>5, <2>2 DEF EventsOf, Unjudged
  <2>. QED  BY <1>1, <1>2, <2>1, <2>3 DEF Stands, Final, Decisions
<1>. QED  BY <1>4, <1>5

\* While no call fails, the process lives and no source sends a second event
\* about a transaction, a decision is final: the last event and the timeout of
\* a transaction never both decide it, and what is late changes nothing.
THEOREM EngineDecisionsStand ==
    ASSUME ExpectedSources >= 3
    PROVE  SerialSpec => DecisionsStand
<1>1. ASSUME IInv, RaceInv, SerialInv, TablesInv, CrashInv, StandInv, SerialNext, Undisturbed',
             Orderly, NEW tx \in Txs, status[tx] \in Final
      PROVE  status'[tx] = status[tx]
  <2>1. Next /\ ~Overlap' /\ Undisturbed
    BY <1>1, Calm DEF SerialNext
  <2>2. CASE Same(tx)
    BY <2>2 DEF Same, StoresOf
  <2>3. CASE \E p \in Procs : tx = Tx(p) /\ UpsertTransaction(p)
    BY <1>1, <2>1, <2>3, DecidedOnce
  <2>4. CASE About(tx) /\ ~\E p \in Procs : tx = Tx(p) /\ UpsertTransaction(p)
    BY <2>4
    DEF About, Accept, Handle, Report, CleanUp, Claim, Register, OpenWindow, AddDeadline,
        StoreWindow, SaveWindow, Tally, UpsertDetail, RecordMatchResult, CreateIncident,
        AddEscalation, ForgetWindow, DeleteWindow, RemoveDeadline, CleanupSources, Spawn, Take,
        pgVars
  <2>. QED  BY <1>1, <2>2, <2>3, <2>4, OneTransaction
<1>2. IInv /\ RaceInv /\ SerialInv /\ TablesInv /\ CrashInv /\ StandInv /\ [SerialNext]_vars
      => [Undisturbed' /\ Orderly =>
            \A tx \in Txs : status[tx] \in Final => status'[tx] = status[tx]]_vars
  BY <1>1
<1>. QED
  BY <1>2, SerialIsSpec, EngineInvariant, EngineKeepsEvents, SerialStages, SerialTables,
     SerialCrashes, SerialStands, PTL
  DEF SerialSpec, DecisionsStand

=============================================================================
