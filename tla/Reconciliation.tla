---------------------------- MODULE Reconciliation ----------------------------
(***************************************************************************)
(* The pure part of the matcher (src/matcher/src/model.rs): a window       *)
(* collects at most one event per source for one transaction; the verdict  *)
(* and the per-source rows are functions of the window alone.              *)
(*                                                                         *)
(* An event is a record [id, tx, source, amount, fee, currency].  A window *)
(* is a total function from Source: an event, or NoEvent for a source that *)
(* the HashMap of the code has no key for.                                 *)
(***************************************************************************)
EXTENDS Integers, Sequences, FiniteSets

CONSTANTS NoEvent,  \* Option::None
          I64Max    \* the largest i64

ASSUME I64MaxAssumption == I64Max \in Nat

Source == {"merchant", "gateway", "bank"}

-----------------------------------------------------------------------------
(* Windows.                                                                *)

EmptyWindow == [s \in Source |-> NoEvent]

\* Mutant: the slot of the first source is used for every event.
InsertEventMisfiled(w, e) == [w EXCEPT !["merchant"] = e]

\* Mutant: only the event that opens the window is kept.
InsertEventOnce(w, e) == IF w = EmptyWindow THEN [w EXCEPT ![e.source] = e] ELSE w

InsertEvent(w, e) == [w EXCEPT ![e.source] = e]

SourcesSeen(w) == {s \in Source : w[s] # NoEvent}

IsComplete(w, expected) == Cardinality(SourcesSeen(w)) >= expected

-----------------------------------------------------------------------------
(* Amounts are i64 and the release build wraps on overflow.                *)

I64Sub(a, b) ==
    LET d == a - b
    IN  IF d > I64Max THEN d - 2 * (I64Max + 1)
        ELSE IF d < -I64Max - 1 THEN d + 2 * (I64Max + 1)
        ELSE d

\* Mutant: the gateway's fee is not deducted.
ExpectedBankAmountGross(g) == g.amount

ExpectedBankAmount(g) == I64Sub(g.amount, g.fee)

-----------------------------------------------------------------------------
(* The three comparisons.  One of them is FALSE when a side is missing.    *)

BothSeen(w, s, t) == w[s] # NoEvent /\ w[t] # NoEvent

CurrencyMismatch(w) ==
    \E s, t \in Source : BothSeen(w, s, t) /\ w[s].currency # w[t].currency

\* Mutant: only a gateway that got less is noticed.
AmountShort(w) ==
    BothSeen(w, "merchant", "gateway") /\ w["gateway"].amount < w["merchant"].amount

AmountMismatch(w) ==
    BothSeen(w, "merchant", "gateway") /\ w["gateway"].amount # w["merchant"].amount

FeeMismatch(w) ==
    BothSeen(w, "gateway", "bank") /\ w["bank"].amount # ExpectedBankAmount(w["gateway"])

\* The incidents of check_invariants, in the order it pushes them: a currency
\* mismatch is reported alone, and an incomplete window reports nothing.
MismatchIncidents(w) ==
    IF SourcesSeen(w) # Source THEN <<>>
    ELSE IF CurrencyMismatch(w) THEN <<"currency_mismatch">>
    ELSE IF AmountMismatch(w) /\ FeeMismatch(w) THEN <<"amount_mismatch", "fee_mismatch">>
    ELSE IF AmountMismatch(w) THEN <<"amount_mismatch">>
    ELSE IF FeeMismatch(w) THEN <<"fee_mismatch">>
    ELSE <<>>

\* check_invariants: Matched needs all three sources and no incident.
Verdict(w) ==
    IF SourcesSeen(w) = Source /\ MismatchIncidents(w) = <<>>
    THEN "matched" ELSE "mismatch"

-----------------------------------------------------------------------------
(* build_details: one row per source seen.                                 *)

\* The source a row is compared with, and the amount that source implies.
Counterpart(s) == IF s = "gateway" THEN "merchant" ELSE "gateway"

ExpectedAmount(w, s) ==
    IF s = "bank" THEN ExpectedBankAmount(w["gateway"]) ELSE w[Counterpart(s)].amount

\* Mutant: unwrap_or(true) for a counterpart that is missing.
RowMatchesUnlessRefuted(w, s) ==
    BothSeen(w, s, Counterpart(s)) => w[s].amount = ExpectedAmount(w, s)

RowMatches(w, s) ==
    BothSeen(w, s, Counterpart(s)) /\ w[s].amount = ExpectedAmount(w, s)

\* Mutant: the gateway's row ignores the fee check.
RowReasonWithoutFee(w, s) ==
    IF CurrencyMismatch(w) THEN "currency mismatch"
    ELSE CASE s = "merchant" /\ AmountMismatch(w) -> "merchant amount mismatch"
           [] s = "gateway" /\ AmountMismatch(w) -> "gateway consistency mismatch"
           [] s = "bank" /\ FeeMismatch(w) -> "bank amount mismatch"
           [] OTHER -> "none"

RowReason(w, s) ==
    IF CurrencyMismatch(w) THEN "currency mismatch"
    ELSE CASE s = "merchant" /\ AmountMismatch(w) -> "merchant amount mismatch"
           [] s = "gateway" /\ (AmountMismatch(w) \/ FeeMismatch(w)) ->
                "gateway consistency mismatch"
           [] s = "bank" /\ FeeMismatch(w) -> "bank amount mismatch"
           [] OTHER -> "none"

BuildDetails(w) ==
    [s \in SourcesSeen(w) |->
        [is_matched |-> RowMatches(w, s), reason |-> RowReason(w, s)]]

RowReasons == {"none", "currency mismatch", "merchant amount mismatch",
               "gateway consistency mismatch", "bank amount mismatch"}

Row == [is_matched : BOOLEAN, reason : RowReasons]

IncidentKinds == {"amount_mismatch", "fee_mismatch", "currency_mismatch",
                  "missing_source", "duplicate"}

\* overall_status once a transaction is decided.
Final == {"matched", "mismatch", "degraded"}

Statuses == Final \cup {"none", "pending"}

\* INSERT ... ON CONFLICT DO UPDATE of one reconciliation_details row.
PutRow(d, s, row) == [t \in DOMAIN d \cup {s} |-> IF t = s THEN row ELSE d[t]]

-----------------------------------------------------------------------------
(* What a decision may rest on, given the events accepted so far.          *)

Slots(evs) == [Source -> evs \cup {NoEvent}]

EventsOf(tx, evs) == {e \in evs : e.tx = tx}

\* A window of tx made only of accepted events, each in its source's slot.
Genuine(w, tx, evs) ==
    /\ w \in Slots(EventsOf(tx, evs))
    /\ \A s \in SourcesSeen(w) : w[s].source = s

\* Some event of the window is the second one its source sent for tx.
HasDouble(w, tx, evs) ==
    \E s \in SourcesSeen(w) :
        \E e \in EventsOf(tx, evs) : e.source = s /\ e # w[s]

\* st may be written for tx on the strength of w.
Justified(st, w, tx, evs, expected) ==
    /\ Genuine(w, tx, evs)
    /\ st \in {"matched", "mismatch"} => IsComplete(w, expected) /\ st = Verdict(w)
    /\ st = "degraded" => ~IsComplete(w, expected)
    /\ st = "pending" => HasDouble(w, tx, evs)

Raises(w, kind) == \E i \in DOMAIN MismatchIncidents(w) : MismatchIncidents(w)[i] = kind

\* An incident of this kind may be reported for tx on the strength of w.
Evidence(kind, w, tx, evs, expected) ==
    /\ Genuine(w, tx, evs)
    /\ kind \in {"currency_mismatch", "amount_mismatch", "fee_mismatch"} => Raises(w, kind)
    /\ kind = "missing_source" => ~IsComplete(w, expected)
    /\ kind = "duplicate" => HasDouble(w, tx, evs)

=============================================================================
