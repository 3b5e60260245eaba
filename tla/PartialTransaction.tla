-------------------------- MODULE PartialTransaction --------------------------
(***************************************************************************)
(* One reconciliation window filled source by source, in any order, with   *)
(* events the ingestor validated.  After every event the window could be   *)
(* judged (finalize_window when it is complete, handle_timeout before), so *)
(* the state of the window stands for every input of check_invariants and  *)
(* build_details.                                                          *)
(***************************************************************************)
EXTENDS Reconciliation

CONSTANT Currencies

VARIABLE window

\* What validateEvent lets through: no negative amount or fee, and no fee
\* from a merchant.
ValidEvents ==
    {e \in [source : Source, amount : 0..I64Max, fee : 0..I64Max, currency : Currencies] :
        e.source = "merchant" => e.fee = 0}

ASSUME NoEventAssumption == NoEvent \notin ValidEvents

Init == window = EmptyWindow

\* handle_event adds the event of a source it has not registered before.
Receive(e) ==
    /\ e.source \notin SourcesSeen(window)
    /\ window' = InsertEvent(window, e)

Next == \E e \in ValidEvents : Receive(e)

Spec == Init /\ [][Next]_window

-----------------------------------------------------------------------------
\* Each slot of a window is empty or holds a valid event of its own source.
TypeOK ==
    /\ window \in Slots(ValidEvents)
    /\ \A s \in SourcesSeen(window) : window[s].source = s

Complete == SourcesSeen(window) = Source

\* The books of a complete window balance, in unbounded arithmetic: one
\* currency, the gateway took what the merchant reported, and the bank
\* received it less the gateway's fee.
BooksBalance ==
    /\ \A s, t \in Source : window[s].currency = window[t].currency
    /\ window["merchant"].amount = window["gateway"].amount
    /\ window["gateway"].amount = window["bank"].amount + window["gateway"].fee

\* A transaction is reported matched exactly when it is complete and its
\* books balance: no wrap-around of i64, and no early return of
\* check_invariants, lets a difference pass or invents one.
MatchedIffBooksBalance ==
    Verdict(window) = "matched" <=> Complete /\ BooksBalance

\* The two independent computations agree: check_invariants opens an incident
\* for a complete window exactly when build_details writes a reason on some
\* row, and it blames the sources the incident is about.
RowsExplainVerdict ==
    LET Flagged == {s \in SourcesSeen(window) : BuildDetails(window)[s].reason # "none"}
    IN  Complete =>
          /\ Verdict(window) = "mismatch" <=> Flagged # {}
          /\ Raises(window, "currency_mismatch") => Flagged = Source
          /\ Raises(window, "amount_mismatch") => {"merchant", "gateway"} \subseteq Flagged
          /\ Raises(window, "fee_mismatch") => {"gateway", "bank"} \subseteq Flagged

\* A later event never takes back what a row already says: a row found
\* matched stays matched and a row given a reason keeps one, so the rows of
\* a degraded transaction stand when the late event is added to them.
RowsNeverRecant ==
    [][\A s \in SourcesSeen(window) :
          LET old == BuildDetails(window)[s]
              new == BuildDetails(window')[s]
          IN  /\ old.is_matched => new.is_matched
              /\ old.reason # "none" => new.reason # "none"]_window

=============================================================================
