----------------------- MODULE PartialTransactionProofs -----------------------
(***************************************************************************)
(* For every width of the integers and every set of currencies: the        *)
(* verdict on a window is exact, and rows and incidents agree.             *)
(***************************************************************************)
EXTENDS PartialTransaction, TLAPS

\* The subtractions of the matcher never wrap on validated amounts.
LEMMA SubIsExact ==
    ASSUME NEW a \in 0..I64Max, NEW b \in 0..I64Max
    PROVE  I64Sub(a, b) = a - b
  BY I64MaxAssumption DEF I64Sub

LEMMA ValidEventFields ==
    ASSUME NEW e \in ValidEvents
    PROVE  /\ e.source \in Source
           /\ e.amount \in 0..I64Max
           /\ e.fee \in 0..I64Max
           /\ e.currency \in Currencies
           /\ e # NoEvent
  BY NoEventAssumption DEF ValidEvents

\* Every slot of a window holds nothing or a valid event of its source.
THEOREM WindowTyped == Spec => []TypeOK
<1>1. Init => TypeOK
  BY DEF Init, TypeOK, EmptyWindow, Slots, SourcesSeen
<1>2. TypeOK /\ [Next]_window => TypeOK'
  <2> SUFFICES ASSUME TypeOK, [Next]_window PROVE TypeOK'
    OBVIOUS
  <2>1. CASE UNCHANGED window
    BY <2>1 DEF TypeOK, Slots, SourcesSeen
  <2>2. ASSUME NEW e \in ValidEvents, Receive(e) PROVE TypeOK'
    <3>1. e.source \in Source
      BY ValidEventFields
    <3>2. window' = [window EXCEPT ![e.source] = e]
      BY <2>2 DEF Receive, InsertEvent
    <3>3. window' \in Slots(ValidEvents)
      BY <3>1, <3>2 DEF TypeOK, Slots
    <3>4. ASSUME NEW s \in SourcesSeen(window') PROVE window'[s].source = s
      BY <3>1, <3>2, <3>4 DEF TypeOK, SourcesSeen, Slots
    <3>. QED  BY <3>3, <3>4 DEF TypeOK, SourcesSeen
  <2>. QED  BY <2>1, <2>2 DEF Next
<1>. QED  BY <1>1, <1>2, PTL DEF Spec

\* What the three comparisons say about a complete window of valid events.
LEMMA CompleteWindow ==
    ASSUME TypeOK, Complete
    PROVE  /\ \A s \in Source : window[s] \in ValidEvents /\ window[s] # NoEvent
           /\ CurrencyMismatch(window)
                <=> \E s, t \in Source : window[s].currency # window[t].currency
           /\ AmountMismatch(window)
                <=> window["gateway"].amount # window["merchant"].amount
           /\ FeeMismatch(window)
                <=> window["bank"].amount # window["gateway"].amount - window["gateway"].fee
<1>1. ASSUME NEW s \in Source PROVE window[s] \in ValidEvents /\ window[s] # NoEvent
  <2>1. window[s] # NoEvent
    BY DEF Complete, SourcesSeen
  <2>. QED  BY <2>1 DEF TypeOK, Slots
<1>2. {"merchant", "gateway", "bank"} \subseteq Source
  BY DEF Source
<1>3. ExpectedBankAmount(window["gateway"]) = window["gateway"].amount - window["gateway"].fee
  BY <1>1, <1>2, SubIsExact, ValidEventFields DEF ExpectedBankAmount
<1>. QED
  BY <1>1, <1>2, <1>3 DEF CurrencyMismatch, AmountMismatch, FeeMismatch, BothSeen

\* A transaction is matched exactly when it is complete and its books balance
\* in unbounded arithmetic (check_invariants).
THEOREM VerdictExact == Spec => []MatchedIffBooksBalance
<1>1. TypeOK => MatchedIffBooksBalance
  <2> SUFFICES ASSUME TypeOK PROVE MatchedIffBooksBalance
    OBVIOUS
  <2>1. CASE ~Complete
    BY <2>1 DEF MatchedIffBooksBalance, Complete, Verdict
  <2>2. CASE Complete
    <3>1. MismatchIncidents(window) = <<>>
            <=> ~CurrencyMismatch(window) /\ ~AmountMismatch(window) /\ ~FeeMismatch(window)
      BY <2>2 DEF MismatchIncidents, Complete
    <3>2. /\ window["merchant"].amount \in Int
          /\ window["gateway"].amount \in Int
          /\ window["gateway"].fee \in Int
          /\ window["bank"].amount \in Int
      BY <2>2, CompleteWindow, ValidEventFields, I64MaxAssumption DEF Source
    <3>3. BooksBalance
            <=> ~CurrencyMismatch(window) /\ ~AmountMismatch(window) /\ ~FeeMismatch(window)
      BY <2>2, <3>2, CompleteWindow DEF BooksBalance
    <3>. QED  BY <2>2, <3>1, <3>3 DEF MatchedIffBooksBalance, Verdict, Complete
  <2>. QED  BY <2>1, <2>2
<1>. QED  BY <1>1, WindowTyped, PTL

\* check_invariants opens an incident for a complete window exactly when
\* build_details gives a row a reason, and on the sources concerned.
THEOREM RowsAndIncidentsAgree == Spec => []RowsExplainVerdict
<1>1. TypeOK => RowsExplainVerdict
  <2> SUFFICES ASSUME TypeOK, Complete PROVE RowsExplainVerdict
    BY DEF RowsExplainVerdict
  <2> DEFINE Cur == CurrencyMismatch(window)
             Amt == AmountMismatch(window)
             Fee == FeeMismatch(window)
             Flagged == {s \in SourcesSeen(window) : BuildDetails(window)[s].reason # "none"}
             Found == MismatchIncidents(window)
  <2>1. SourcesSeen(window) = Source
    BY DEF Complete
  <2>2. \A s \in Source : BuildDetails(window)[s].reason = RowReason(window, s)
    BY <2>1 DEF BuildDetails
  <2>3. /\ RowReason(window, "merchant") # "none" <=> Cur \/ Amt
        /\ RowReason(window, "gateway") # "none" <=> Cur \/ Amt \/ Fee
        /\ RowReason(window, "bank") # "none" <=> Cur \/ Fee
    BY DEF RowReason
  <2>4. /\ "merchant" \in Flagged <=> Cur \/ Amt
        /\ "gateway" \in Flagged <=> Cur \/ Amt \/ Fee
        /\ "bank" \in Flagged <=> Cur \/ Fee
        /\ Flagged \subseteq Source
    BY <2>1, <2>2, <2>3 DEF Source
  <2>5. /\ Cur => Found = <<"currency_mismatch">>
        /\ ~Cur /\ Amt /\ Fee => Found = <<"amount_mismatch", "fee_mismatch">>
        /\ ~Cur /\ Amt /\ ~Fee => Found = <<"amount_mismatch">>
        /\ ~Cur /\ ~Amt /\ Fee => Found = <<"fee_mismatch">>
        /\ ~Cur /\ ~Amt /\ ~Fee => Found = <<>>
    BY <2>1 DEF MismatchIncidents
  <2>6. /\ Raises(window, "currency_mismatch") => Cur
        /\ Raises(window, "amount_mismatch") => ~Cur /\ Amt
        /\ Raises(window, "fee_mismatch") => ~Cur /\ Fee
    <3>. HIDE DEF Cur, Amt, Fee, Found
    <3>1. \A kind : Raises(window, kind) <=> \E i \in DOMAIN Found : Found[i] = kind
      BY DEF Raises, Found
    <3>. QED  BY <2>5, <3>1
  <2>7. Found = <<>> <=> ~Cur /\ ~Amt /\ ~Fee
    BY <2>5
  <2>8. Verdict(window) = "mismatch" <=> Cur \/ Amt \/ Fee
    BY <2>1, <2>7 DEF Verdict
  <2>. HIDE DEF Cur, Amt, Fee, Flagged, Found
  <2>9. /\ Verdict(window) = "mismatch" <=> Flagged # {}
        /\ Raises(window, "currency_mismatch") => Flagged = Source
        /\ Raises(window, "amount_mismatch") => {"merchant", "gateway"} \subseteq Flagged
        /\ Raises(window, "fee_mismatch") => {"gateway", "bank"} \subseteq Flagged
    BY <2>4, <2>6, <2>8 DEF Source
  <2>. QED  BY <2>9 DEF RowsExplainVerdict, Flagged
<1>. QED  BY <1>1, WindowTyped, PTL

\* An event added to a window changes no slot that was filled.
LEMMA ReceiveKeepsSlots ==
    ASSUME TypeOK, NEW e \in ValidEvents, Receive(e)
    PROVE  \A s \in SourcesSeen(window) : s \in SourcesSeen(window') /\ window'[s] = window[s]
  BY ValidEventFields DEF TypeOK, Slots, Receive, InsertEvent, SourcesSeen

\* A row found matched stays matched and a row with a reason keeps one when
\* the next source's event is added (build_details on a growing window).
THEOREM RowsStand == Spec => RowsNeverRecant
<1> DEFINE Keeps == \A s \in SourcesSeen(window) :
             LET old == BuildDetails(window)[s]
                 new == BuildDetails(window')[s]
             IN  /\ old.is_matched => new.is_matched
                 /\ old.reason # "none" => new.reason # "none"
<1>1. TypeOK /\ [Next]_window => [Keeps]_window
  <2> SUFFICES ASSUME TypeOK, NEW e \in ValidEvents, Receive(e), NEW s \in SourcesSeen(window)
               PROVE  /\ BuildDetails(window)[s].is_matched => BuildDetails(window')[s].is_matched
                      /\ BuildDetails(window)[s].reason # "none"
                           => BuildDetails(window')[s].reason # "none"
    BY DEF Next
  <2>1. \A t \in SourcesSeen(window) : t \in SourcesSeen(window') /\ window'[t] = window[t]
    BY ReceiveKeepsSlots
  <2>2. \A t \in SourcesSeen(window) : window'[t] # NoEvent
    BY <2>1 DEF SourcesSeen
  <2>3. /\ BuildDetails(window)[s].is_matched = RowMatches(window, s)
        /\ BuildDetails(window')[s].is_matched = RowMatches(window', s)
        /\ BuildDetails(window)[s].reason = RowReason(window, s)
        /\ BuildDetails(window')[s].reason = RowReason(window', s)
    BY <2>1 DEF BuildDetails
  <2>4. \A t, u \in Source : BothSeen(window, t, u) =>
          BothSeen(window', t, u) /\ window'[t] = window[t] /\ window'[u] = window[u]
    BY <2>1, <2>2 DEF BothSeen, SourcesSeen
  <2>5. s \in Source /\ Counterpart(s) \in Source /\ {"merchant", "gateway", "bank"} \subseteq Source
    BY DEF Counterpart, Source, SourcesSeen
  <2>6. RowMatches(window, s) => RowMatches(window', s)
    <3>1. s = "bank" => Counterpart(s) = "merchant" \/ Counterpart(s) = "gateway"
      BY DEF Counterpart
    <3>. QED  BY <2>4, <2>5, <3>1 DEF RowMatches, ExpectedAmount, Counterpart
  <2>7. /\ CurrencyMismatch(window) => CurrencyMismatch(window')
        /\ AmountMismatch(window) => AmountMismatch(window')
        /\ FeeMismatch(window) => FeeMismatch(window')
    BY <2>4, <2>5 DEF CurrencyMismatch, AmountMismatch, FeeMismatch
  <2>8. RowReason(window, s) # "none" => RowReason(window', s) # "none"
    BY <2>7 DEF RowReason
  <2>. QED  BY <2>3, <2>6, <2>8
<1>. QED  BY <1>1, WindowTyped, PTL DEF Spec, RowsNeverRecant

=============================================================================
