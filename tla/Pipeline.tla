------------------------------- MODULE Pipeline -------------------------------
(***************************************************************************)
(* From a client to the matcher: the ingestor, the stream it fills and the *)
(* claim with which the matcher's consumer starts on an entry.             *)
(*                                                                         *)
(* The ingestor queues an event at least once: a retry after a lost answer *)
(* or with another key queues it again.  The consumer reads every entry at *)
(* most once, and takes an event it has claimed before for a retry.        *)
(***************************************************************************)
EXTENDS Ingestor

CONSTANTS EventId,   \* the event_id of an event, which the matcher dedups by
          BatchSize, \* XREADGROUP COUNT
          MaxLapses  \* bound: dedup keys whose TTL runs out

\* Producers draw a fresh UUID for each event.  The matcher relies on it: the
\* table of events tells one event_id of two sources apart, its key does not.
ASSUME PipelineAssumption ==
    /\ \A e, f \in Events : EventId[e] = EventId[f] => e = f
    /\ BatchSize \in Nat \ {0}
    /\ MaxLapses \in Nat

VARIABLES read,    \* entries of the stream the consumer is done with
          dedup,   \* Redis: dedup:event:<event_id>
          handled, \* the entries handle_event went on with
          lost,    \* the entries a failure or a crash took from it
          lapses

ingestVars  == vars
matcherVars == <<read, dedup, handled, lost, lapses>>
allVars     == <<ingestVars, matcherVars>>

PipelineInit ==
    /\ Init
    /\ read = 0
    /\ dedup = {}
    /\ handled = {}
    /\ lost = {}
    /\ lapses = 0

Entry == stream[read + 1]

\* Mutant: the id the ingestor drew, not the one the producer did.
DedupKeyInternal(entry) == entry.id

DedupKey(entry) == EventId[entry.event]

\* Mutant: XREAD from "$", which skips what came since the last read.
NextReadNewest == Len(stream)

NextRead == read + 1

\* The claim of handle_event.  When it fails the key may be set all the same;
\* the entry is not acknowledged, and ">" does not deliver it again.
Claim ==
    /\ read < Len(stream)
    /\ read' = NextRead
    /\ \/ /\ DedupKey(Entry) \notin dedup
          /\ dedup' = dedup \cup {DedupKey(Entry)}
          /\ handled' = handled \cup {read + 1}
          /\ NoFault
          /\ UNCHANGED lost
       \/ /\ DedupKey(Entry) \in dedup
          /\ NoFault
          /\ UNCHANGED <<dedup, handled, lost>>
       \/ /\ dedup' \in {dedup, dedup \cup {DedupKey(Entry)}}
          /\ lost' = lost \cup {read + 1}
          /\ RedisFault
          /\ UNCHANGED handled
    /\ UNCHANGED <<pc, answer, idem, stored, stream, lapses>>

\* A batch is delivered and nothing of it is handled.
LoseBatch ==
    \E n \in 1..BatchSize :
        /\ read + n <= Len(stream)
        /\ read' = read + n
        /\ lost' = lost \cup (read + 1)..(read + n)

\* XREADGROUP moves the group on and its answer is lost: the consumer logs the
\* error and reads on behind the batch it never saw.
ReadLost ==
    /\ LoseBatch
    /\ RedisFault
    /\ UNCHANGED <<pc, answer, idem, stored, stream, dedup, handled, lapses>>

\* The matcher dies with a batch delivered.  Another consumer reads on behind
\* it; the first entry of the rest may have been claimed already.
MatcherCrash ==
    /\ crashes < MaxCrashes
    /\ crashes' = crashes + 1
    /\ LoseBatch
    /\ dedup' \in {dedup, dedup \cup {DedupKey(Entry)}}
    /\ UNCHANGED <<pc, answer, idem, stored, stream, pgFaults, redisFaults, expiries,
                   handled, lapses>>

\* SET ... PX: a claim is forgotten after ten minutes.
Lapse(key) ==
    /\ lapses < MaxLapses
    /\ lapses' = lapses + 1
    /\ key \in dedup
    /\ dedup' = dedup \ {key}
    /\ UNCHANGED <<ingestVars, read, handled, lost>>

PipelineNext ==
    \/ Next /\ UNCHANGED matcherVars
    \/ Claim
    \/ ReadLost
    \/ MatcherCrash
    \/ \E e \in Events : Lapse(EventId[e])

PipelineSpec == PipelineInit /\ [][PipelineNext]_allVars

\* The consumer's loop reads on for ever.  No client has to come back.
PipelineFairSpec == PipelineSpec /\ WF_allVars(Claim)

-----------------------------------------------------------------------------
(* Properties.                                                             *)

SameEvent(i, j) == stream[i].event = stream[j].event

\* README.md: idempotent processing.  The matcher works on an event once,
\* however often clients retry it, under one key or several, and whatever
\* fails, as long as the retries come within the ten minutes of its key.
HandledOnce ==
    lapses = 0 => \A i, j \in handled : SameEvent(i, j) => i = j

\* No event is taken for a retry of another: each entry the consumer has read
\* was handled, or an earlier one with the same event was, unless a failure or
\* a crash took that one.
ReadIsHandled ==
    \A i \in 1..read : \E j \in 1..i : SameEvent(i, j) /\ j \in handled \cup lost

\* A 202 comes true: the event of the message it quotes gets to the matcher,
\* which works on it unless a failure or a crash takes it there.
Promised(e) == \E r \in Requests : answer[r] \in Requests /\ EventOf[answer[r]] = e

PromiseKept ==
    \A e \in Events : Promised(e) ~> \E i \in handled \cup lost : stream[i].event = e

-----------------------------------------------------------------------------
(* The inductive invariant, on top of the ingestor's.                      *)

\* A key stands for an entry that was read, and until one lapses every event
\* that was handled has its key.
KeysExplained ==
    /\ read \in 0..Len(stream)
    /\ lapses \in Nat
    /\ handled \cup lost \subseteq 1..read
    /\ \A key \in dedup : \E j \in handled \cup lost : DedupKey(stream[j]) = key
    /\ lapses = 0 => \A j \in handled : DedupKey(stream[j]) \in dedup

PipelineIInv == IInv /\ KeysExplained /\ HandledOnce /\ ReadIsHandled

=============================================================================
