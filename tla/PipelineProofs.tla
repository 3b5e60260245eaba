---------------------------- MODULE PipelineProofs ----------------------------
(***************************************************************************)
(* An event reaches the matcher's work once and is taken for a retry of no *)
(* other, for any requests, keys, failures, crashes and batches.  The      *)
(* ingestor's own invariant carries over: the matcher only reads what it   *)
(* queued.                                                                 *)
(***************************************************************************)
EXTENDS Pipeline, IngestorProofs

LEMMA StreamFacts ==
    ASSUME PipelineIInv
    PROVE  /\ stream \in Seq(Messages)
           /\ \A i \in 1..Len(stream) : stream[i].event \in Events
           /\ read \in Nat /\ read <= Len(stream)
           /\ handled \cup lost \subseteq 1..read
           /\ \A j \in handled \cup lost : j \in 1..Len(stream)
<1>1. stream \in Seq(Messages) /\ read \in 0..Len(stream) /\ handled \cup lost \subseteq 1..read
  BY DEF PipelineIInv, IInv, TypeOK, KeysExplained
<1>2. \A i \in 1..Len(stream) : stream[i] \in Messages
  BY <1>1
<1>. QED  BY <1>1, <1>2 DEF Messages

-----------------------------------------------------------------------------
(* The ingestor's part.                                                    *)

\* The matcher leaves the ingestor's state alone; a failure or a crash of its
\* own only makes the ingestor promise less.
LEMMA MatcherStepKeeps ==
    ASSUME IInv, UNCHANGED <<pc, answer, idem, stored, stream>>, BudgetsTyped',
           redisFaults' + crashes' = 0 => redisFaults + crashes = 0
    PROVE  IInv'
<1>1. TypeOK'
  BY DEF IInv, TypeOK, BudgetsTyped
<1>2. HeldByWorker'
  BY DEF IInv, HeldByWorker, Working
<1>3. \A r \in Requests : Progress(r)'
  BY DEF IInv, Progress, InStream
<1>4. Remembered' /\ AcceptedIsQueued' /\ QueuedIsStored'
  BY DEF IInv, Remembered, AcceptedIsQueued, QueuedIsStored, InStream
<1>. QED  BY <1>1, <1>2, <1>3, <1>4 DEF IInv

LEMMA ClaimKeepsIngestor ==
    ASSUME PipelineIInv, Claim
    PROVE  IInv'
<1>1. BudgetsTyped /\ IInv
  BY DEF PipelineIInv, IInv, TypeOK, BudgetsTyped
<1>2. NoFault \/ RedisFault
  BY DEF Claim
<1>3. BudgetsTyped' /\ (redisFaults' + crashes' = 0 => redisFaults + crashes = 0)
  BY <1>1, <1>2 DEF BudgetsTyped, NoFault, RedisFault
<1>. QED  BY <1>1, <1>3, MatcherStepKeeps DEF Claim

LEMMA ReadLostKeepsIngestor ==
    ASSUME PipelineIInv, ReadLost
    PROVE  IInv'
<1>1. BudgetsTyped /\ IInv
  BY DEF PipelineIInv, IInv, TypeOK, BudgetsTyped
<1>2. BudgetsTyped' /\ (redisFaults' + crashes' = 0 => redisFaults + crashes = 0)
  BY <1>1 DEF ReadLost, RedisFault, BudgetsTyped
<1>. QED  BY <1>1, <1>2, MatcherStepKeeps DEF ReadLost

LEMMA MatcherCrashKeepsIngestor ==
    ASSUME PipelineIInv, MatcherCrash
    PROVE  IInv'
<1>1. BudgetsTyped /\ IInv
  BY DEF PipelineIInv, IInv, TypeOK, BudgetsTyped
<1>2. BudgetsTyped' /\ (redisFaults' + crashes' = 0 => redisFaults + crashes = 0)
  BY <1>1 DEF MatcherCrash, BudgetsTyped
<1>. QED  BY <1>1, <1>2, MatcherStepKeeps DEF MatcherCrash

-----------------------------------------------------------------------------
(* The matcher's part: a longer stream changes nothing of what was read.   *)

LEMMA IngestorStepKeeps ==
    ASSUME PipelineIInv, [Next]_vars, UNCHANGED matcherVars
    PROVE  KeysExplained' /\ HandledOnce' /\ ReadIsHandled'
<1>1. stream' \in Seq(Messages) /\ Len(stream) <= Len(stream')
  BY NextKeeps, StreamGrows DEF PipelineIInv, IInv, Kept, TypeOK
<1>2. \A i \in 1..Len(stream) : stream'[i] = stream[i]
  BY NextKeeps, StreamGrows DEF PipelineIInv, IInv, Kept, TypeOK
<1>3. UNCHANGED <<read, dedup, handled, lost, lapses>>
  BY DEF matcherVars
<1>4. \A j \in handled \cup lost : stream'[j] = stream[j]
  BY <1>2, StreamFacts
<1>5. \A i \in 1..read : stream'[i] = stream[i]
  BY <1>2, StreamFacts
<1>6. KeysExplained'
  BY <1>1, <1>3, <1>4, StreamFacts DEF PipelineIInv, KeysExplained, DedupKey
<1>7. HandledOnce'
  BY <1>3, <1>4 DEF PipelineIInv, HandledOnce, SameEvent
<1>8. ReadIsHandled'
  BY <1>3, <1>5, StreamFacts DEF PipelineIInv, ReadIsHandled, SameEvent
<1>. QED  BY <1>6, <1>7, <1>8

\* A claim that finds the key leaves it to the entry the key stands for; one
\* that does not is the first with its event until a key lapses.
LEMMA ClaimKeeps ==
    ASSUME PipelineIInv, Claim
    PROVE  KeysExplained' /\ HandledOnce' /\ ReadIsHandled'
<1>. DEFINE next == read + 1
<1>1. /\ next \in 1..Len(stream) /\ read' = next /\ read \in Nat
      /\ UNCHANGED <<stream, lapses>>
      /\ stream[next].event \in Events
  BY StreamFacts DEF Claim, NextRead
<1>2. Entry = stream[next] /\ DedupKey(Entry) = EventId[stream[next].event]
  BY DEF Entry, DedupKey
<1>3. \A j \in handled \cup lost :
        DedupKey(stream[j]) = DedupKey(Entry) => SameEvent(next, j)
  BY <1>1, <1>2, StreamFacts, PipelineAssumption DEF DedupKey, SameEvent
<1>4. /\ handled \subseteq handled' /\ lost \subseteq lost'
      /\ handled' \cup lost' \subseteq 1..next
      /\ \E j \in handled' \cup lost' : SameEvent(next, j)
  <2>1. CASE DedupKey(Entry) \in dedup /\ UNCHANGED <<dedup, handled, lost>>
    <3>1. PICK j \in handled \cup lost : DedupKey(stream[j]) = DedupKey(Entry)
      BY <2>1 DEF PipelineIInv, KeysExplained
    <3>. QED  BY <1>1, <1>3, <2>1, <3>1, StreamFacts
  <2>2. CASE next \in handled' \cup lost' /\ (handled' \cup lost') \ {next} = (handled \cup lost) \ {next}
             /\ handled \subseteq handled' /\ lost \subseteq lost'
    BY <1>1, <2>2, StreamFacts DEF SameEvent
  <2>. QED  BY <2>1, <2>2, <1>1 DEF Claim
<1>5. ReadIsHandled'
  <2>1. \A i \in 1..read : \E j \in 1..i : SameEvent(i, j) /\ j \in handled' \cup lost'
    BY <1>4 DEF PipelineIInv, ReadIsHandled
  <2>2. \E j \in 1..next : SameEvent(next, j) /\ j \in handled' \cup lost'
    BY <1>4
  <2>3. \A i \in 1..next : i \in 1..read \/ i = next
    BY <1>1
  <2>4. \A i \in 1..next : \E j \in 1..i : SameEvent(i, j) /\ j \in handled' \cup lost'
    BY <2>1, <2>2, <2>3
  <2>. QED  BY <1>1, <2>4 DEF ReadIsHandled, SameEvent
<1>6. /\ \A key \in dedup' : \E j \in handled' \cup lost' : DedupKey(stream[j]) = key
      /\ lapses = 0 => \A j \in handled' : DedupKey(stream[j]) \in dedup'
  <2>1. /\ \A key \in dedup : \E j \in handled \cup lost : DedupKey(stream[j]) = key
        /\ lapses = 0 => \A j \in handled : DedupKey(stream[j]) \in dedup
    BY DEF PipelineIInv, KeysExplained
  <2>2. CASE DedupKey(Entry) \notin dedup /\ dedup' = dedup \cup {DedupKey(Entry)}
             /\ handled' = handled \cup {next} /\ lost' = lost
    BY <1>2, <2>1, <2>2
  <2>3. CASE UNCHANGED <<dedup, handled, lost>>
    BY <2>1, <2>3
  <2>4. CASE dedup' \in {dedup, dedup \cup {DedupKey(Entry)}} /\ lost' = lost \cup {next}
             /\ handled' = handled
    BY <1>2, <2>1, <2>4
  <2>. QED  BY <2>2, <2>3, <2>4 DEF Claim
<1>7. KeysExplained'
  <2>1. \A j : DedupKey(stream'[j]) = DedupKey(stream[j])
    BY <1>1
  <2>2. /\ \A key \in dedup' : \E j \in handled' \cup lost' : DedupKey(stream'[j]) = key
        /\ lapses' = 0 => \A j \in handled' : DedupKey(stream'[j]) \in dedup'
    BY <1>1, <1>6, <2>1
  <2>3. read' \in 0..Len(stream') /\ lapses' \in Nat /\ handled' \cup lost' \subseteq 1..read'
    BY <1>1, <1>4 DEF PipelineIInv, KeysExplained
  <2>. QED  BY <2>2, <2>3 DEF KeysExplained, DedupKey
<1>8. HandledOnce'
  <2>1. SUFFICES ASSUME lapses = 0, NEW i \in handled', NEW j \in handled', SameEvent(i, j)
                 PROVE  i = j
    BY <1>1 DEF HandledOnce, SameEvent
  <2>2. CASE handled' = handled
    BY <2>1, <2>2 DEF PipelineIInv, HandledOnce
  <2>3. CASE DedupKey(Entry) \notin dedup /\ handled' = handled \cup {next}
    <3>1. \A k \in handled : ~SameEvent(next, k) /\ ~SameEvent(k, next)
      BY <1>2, <2>1, <2>3 DEF PipelineIInv, KeysExplained, SameEvent, DedupKey
    <3>. QED  BY <2>1, <2>3, <3>1 DEF PipelineIInv, HandledOnce
  <2>. QED  BY <2>2, <2>3 DEF Claim
<1>. QED  BY <1>5, <1>7, <1>8

\* The entries of a batch that is lost are accounted for, a key that may have
\* been set for the first of them too.
LEMMA LoseBatchKeeps ==
    ASSUME PipelineIInv, LoseBatch, UNCHANGED <<stream, handled, lapses>>,
           dedup' \in {dedup, dedup \cup {DedupKey(Entry)}}
    PROVE  KeysExplained' /\ HandledOnce' /\ ReadIsHandled'
<1>1. PICK n \in 1..BatchSize : /\ read + n <= Len(stream)
                                /\ read' = read + n
                                /\ lost' = lost \cup (read + 1)..(read + n)
  BY DEF LoseBatch
<1>2. /\ n \in Nat /\ n >= 1 /\ read \in Nat
      /\ UNCHANGED <<stream, handled, lapses>>
      /\ dedup' \in {dedup, dedup \cup {DedupKey(Entry)}}
      /\ read + 1 \in lost' /\ Entry = stream[read + 1]
  BY <1>1, StreamFacts, PipelineAssumption DEF Entry
<1>3. HandledOnce'
  BY <1>2 DEF PipelineIInv, HandledOnce, SameEvent
<1>4. ReadIsHandled'
  <2>1. \A i \in 1..read : \E j \in 1..i : SameEvent(i, j) /\ j \in handled' \cup lost'
    BY <1>1, <1>2 DEF PipelineIInv, ReadIsHandled
  <2>2. \A i \in (read + 1)..(read + n) : i \in 1..i /\ SameEvent(i, i) /\ i \in lost'
    BY <1>1, <1>2 DEF SameEvent
  <2>3. \A i \in 1..(read + n) : i \in 1..read \/ i \in (read + 1)..(read + n)
    BY <1>2
  <2>4. \A i \in 1..(read + n) : \E j \in 1..i : SameEvent(i, j) /\ j \in handled' \cup lost'
    BY <2>1, <2>2, <2>3
  <2>. QED  BY <1>1, <1>2, <2>4 DEF ReadIsHandled, SameEvent
<1>5. KeysExplained'
  <2>1. /\ \A key \in dedup : \E j \in handled \cup lost : DedupKey(stream[j]) = key
        /\ lapses = 0 => \A j \in handled : DedupKey(stream[j]) \in dedup
        /\ lapses \in Nat
    BY DEF PipelineIInv, KeysExplained
  <2>2. /\ \A key \in dedup' : \E j \in handled \cup lost' : DedupKey(stream[j]) = key
        /\ lapses = 0 => \A j \in handled : DedupKey(stream[j]) \in dedup'
    BY <1>1, <1>2, <2>1
  <2>3. read' \in 0..Len(stream) /\ handled \cup lost' \subseteq 1..read'
    BY <1>1, <1>2, StreamFacts
  <2>. QED  BY <1>2, <2>1, <2>2, <2>3 DEF KeysExplained, DedupKey
<1>. QED  BY <1>3, <1>4, <1>5

LEMMA LapseKeeps ==
    ASSUME PipelineIInv, NEW key, Lapse(key)
    PROVE  KeysExplained' /\ HandledOnce' /\ ReadIsHandled'
<1>1. /\ UNCHANGED <<stream, read, handled, lost>>
      /\ dedup' \subseteq dedup /\ lapses' = lapses + 1 /\ lapses \in Nat
  BY DEF Lapse, ingestVars, vars, PipelineIInv, KeysExplained
<1>2. lapses' \in Nat /\ lapses' # 0
  BY <1>1
<1>. QED  BY <1>1, <1>2
          DEF PipelineIInv, KeysExplained, HandledOnce, ReadIsHandled, SameEvent, DedupKey

-----------------------------------------------------------------------------
(* The theorems.                                                           *)

LEMMA PipelineInitHolds == PipelineInit => PipelineIInv
<1>. SUFFICES ASSUME PipelineInit
              PROVE  PipelineIInv
  OBVIOUS
<1>1. IInv /\ stream = <<>>
  BY InitHolds DEF PipelineInit, Init
<1>. QED  BY <1>1 DEF PipelineInit, PipelineIInv, KeysExplained, HandledOnce, ReadIsHandled

LEMMA PipelineNextHolds == PipelineIInv /\ [PipelineNext]_allVars => PipelineIInv'
<1>. SUFFICES ASSUME PipelineIInv, [PipelineNext]_allVars
              PROVE  PipelineIInv'
  OBVIOUS
<1>1. CASE Next /\ UNCHANGED matcherVars
  BY <1>1, NextHolds, IngestorStepKeeps DEF PipelineIInv
<1>2. CASE UNCHANGED allVars
  <2>1. UNCHANGED vars /\ UNCHANGED matcherVars
    BY <1>2 DEF allVars, ingestVars
  <2>. QED  BY <2>1, NextHolds, IngestorStepKeeps DEF PipelineIInv
<1>3. CASE Claim
  BY <1>3, ClaimKeeps, ClaimKeepsIngestor DEF PipelineIInv
<1>4. CASE MatcherCrash
  BY <1>4, LoseBatchKeeps, MatcherCrashKeepsIngestor DEF PipelineIInv, MatcherCrash
<1>5. CASE \E e \in Events : Lapse(EventId[e])
  <2>1. UNCHANGED vars
    BY <1>5 DEF Lapse, ingestVars
  <2>. QED  BY <1>5, <2>1, NextHolds, LapseKeeps DEF PipelineIInv
<1>6. CASE ReadLost
  BY <1>6, LoseBatchKeeps, ReadLostKeepsIngestor DEF PipelineIInv, ReadLost
<1>. QED  BY <1>1, <1>2, <1>3, <1>4, <1>5, <1>6 DEF PipelineNext

\* The invariant of the whole way holds for any clients, failures, crashes
\* and expiries.
THEOREM PipelineInvariant == PipelineSpec => []PipelineIInv
  BY PipelineInitHolds, PipelineNextHolds, PTL DEF PipelineSpec

\* However often an event was queued, the matcher works on it once.
THEOREM PipelineHandlesOnce == PipelineSpec => []HandledOnce
<1>1. PipelineIInv => HandledOnce
  BY DEF PipelineIInv
<1>. QED  BY <1>1, PipelineInvariant, PTL

\* What the matcher skips as a retry is one of an event it has had.
THEOREM PipelineSkipsNothing == PipelineSpec => []ReadIsHandled
<1>1. PipelineIInv => ReadIsHandled
  BY DEF PipelineIInv
<1>. QED  BY <1>1, PipelineInvariant, PTL

=============================================================================
