------------------------------ MODULE Emulators -------------------------------
(***************************************************************************)
(* The load the platform is run with: the scenario director publishes      *)
(* transactions, and an emulator per source turns each one it hears into   *)
(* the event that source would report, with noise: not sent, sent twice,   *)
(* or with a wrong amount or fee.  An emulator works on one transaction    *)
(* after the other, so its posts lag behind the scenario at will.          *)
(*                                                                         *)
(* Pub/sub and HTTP deliver at most once.  The random draws are free here; *)
(* that the merchant's and the gateway's are read off the clock, and so    *)
(* nearly equal within one transaction, is left out.  Products of an amount *)
(* and a rate stay below 2^53, up to which float64 has every whole number. *)
(***************************************************************************)
EXTENDS Reconciliation

CONSTANTS Txs,
          Amounts,       \* what the scenario draws from
          RateUnit,      \* what the rates count: 1/RateUnit of a percent
          GatewayFeePct, \* SCENARIO_GATEWAY_FEE_PCT, BANK_FEE_PCT
          BankFeePct,
          Currency,
          NoTx,          \* a transaction not yet published
          MaxNoise       \* bound: losses, repetitions and wrong fields

\* A fee, wrong by half as much again, and an amount fit an i64.  The rates are
\* float64s from 0 to 100 percent: each is a whole number of 1/RateUnit when
\* that is a large enough power of two (2^55 for 0.5 and 0.2).
ASSUME EmulatorsAssumption ==
    /\ Amounts \subseteq 0..I64Max
    /\ \A amount \in Amounts : 15 * amount <= 10 * I64Max
    /\ RateUnit \in Nat \ {0}
    /\ GatewayFeePct \in 0..(100 * RateUnit)
    /\ BankFeePct \in 0..(100 * RateUnit)
    /\ MaxNoise \in Nat
    /\ NoTx \notin [amount : Int, gateway_fee : Int, bank_fee : Int]
    /\ NoEvent \notin [id : Txs \X Source \X {1, 2}, tx : Txs, source : Source,
                        amount : Int, fee : Int, currency : {Currency}]

VARIABLES canonical, \* the transactions of the scenario
          inbox,     \* messages each emulator's channel holds
          held,      \* the event an emulator is about to post
          copies,    \* the posts it still makes of it
          delivered, \* the events that reached the ingestor
          noise

vars == <<canonical, inbox, held, copies, delivered, noise>>

Init ==
    /\ canonical = [tx \in Txs |-> NoTx]
    /\ inbox = [s \in Source |-> <<>>]
    /\ held = [s \in Source |-> NoEvent]
    /\ copies = [s \in Source |-> 0]
    /\ delivered = {}
    /\ noise = 0

MakeNoise(n) ==
    /\ noise + n <= MaxNoise
    /\ noise' = noise + n

-----------------------------------------------------------------------------
(* The scenario director.                                                  *)

\* What int64(float64(amount) * pct / 100) may be: the share without its
\* fraction, or the next whole number when the product or the quotient is
\* rounded up to it.  A share that is whole is exact.
Shares(amount, pct) ==
    {f \in 0..amount : /\ (f - 1) * (100 * RateUnit) < amount * pct
                       /\ amount * pct < (f + 1) * (100 * RateUnit)}

\* The transactions the scenario may make of an amount.
GenerateTransaction(amount) ==
    [amount : {amount},
     gateway_fee : Shares(amount, GatewayFeePct),
     bank_fee : Shares(amount, BankFeePct)]

\* PUBLISH reaches the emulators that are subscribed and whose channel has
\* room.
Publish(tx) ==
    /\ canonical[tx] = NoTx
    /\ \E amount \in Amounts : \E t \in GenerateTransaction(amount) :
         canonical' = [canonical EXCEPT ![tx] = t]
    /\ \E deaf \in SUBSET Source :
         /\ inbox' = [s \in Source |-> IF s \in deaf THEN inbox[s] ELSE Append(inbox[s], tx)]
         /\ MakeNoise(Cardinality(deaf))
    /\ UNCHANGED <<held, copies, delivered>>

-----------------------------------------------------------------------------
(* The emulators.                                                          *)

Event(s, tx, n, amount, fee) ==
    [id |-> <<tx, s, n>>, tx |-> tx, source |-> s, amount |-> amount, fee |-> fee,
     currency |-> Currency]

\* Mutant: the merchant reports the fee it is charged.
MerchantEventWithFee(tx, n) ==
    Event("merchant", tx, n, canonical[tx].amount, canonical[tx].gateway_fee)

MerchantEvent(tx, n) == Event("merchant", tx, n, canonical[tx].amount, 0)

GatewayEvent(tx, n) ==
    Event("gateway", tx, n, canonical[tx].amount, canonical[tx].gateway_fee)

\* Mutant: the bank is paid the full amount.
BankEventGross(tx, n) ==
    Event("bank", tx, n, canonical[tx].amount, canonical[tx].bank_fee)

\* What the gateway passes on, never less than nothing.
BankEvent(tx, n) ==
    LET net == canonical[tx].amount - canonical[tx].gateway_fee
    IN  Event("bank", tx, n, IF net < 0 THEN 0 ELSE net, canonical[tx].bank_fee)

Honest(s, tx, n) == CASE s = "merchant" -> MerchantEvent(tx, n)
                      [] s = "gateway"  -> GatewayEvent(tx, n)
                      [] s = "bank"     -> BankEvent(tx, n)

\* int64(x * factor) for every factor in [lo/10, hi/10), the end included, to
\* which the product may be rounded up.
Scaled(x, lo, hi) == ((lo * x) \div 10)..((hi * x) \div 10)

MutateAmount(amount) == Scaled(amount, 9, 11)

MutateFee(fee) == Scaled(fee, 5, 15)

Reporting(e, amount, fee) == [e EXCEPT !.amount = amount, !.fee = fee]

\* What applyNoise may make of an event it does not drop; the merchant's
\* leaves the fee alone.
ApplyNoise(e) ==
    {Reporting(e, a, f) :
        a \in {e.amount} \cup MutateAmount(e.amount),
        f \in {e.fee} \cup (IF e.source = "merchant" THEN {} ELSE MutateFee(e.fee))}

Differs(e, f) == (IF e.amount # f.amount THEN 1 ELSE 0) + (IF e.fee # f.fee THEN 1 ELSE 0)

\* The emulator takes the next transaction and builds its event; n copies of
\* it will be posted.
Prepare(s) ==
    /\ held[s] = NoEvent
    /\ inbox[s] # <<>>
    /\ inbox' = [inbox EXCEPT ![s] = Tail(@)]
    /\ LET honest == Honest(s, Head(inbox[s]), 1)
       IN  \/ /\ MakeNoise(1)
              /\ UNCHANGED <<held, copies>>
           \/ \E e \in ApplyNoise(honest), n \in 1..2 :
                /\ MakeNoise(Differs(e, honest) + n - 1)
                /\ held' = [held EXCEPT ![s] = e]
                /\ copies' = [copies EXCEPT ![s] = n]
    /\ UNCHANGED <<canonical, delivered>>

\* Mutant: the duplicate is built from the transaction again.
NextCopyRebuilt(e) == Honest(e.source, e.tx, 2)

\* The duplicate differs in its event id only.
NextCopy(e) == [e EXCEPT !.id = <<e.tx, e.source, 2>>]

\* An HTTP post that fails is logged; the duplicate follows all the same.
SendToIngestor(s) ==
    /\ held[s] # NoEvent
    /\ \/ delivered' = delivered \cup {held[s]} /\ MakeNoise(0)
       \/ delivered' = delivered /\ MakeNoise(1)
    /\ held' = [held EXCEPT ![s] = IF copies[s] = 2 THEN NextCopy(@) ELSE NoEvent]
    /\ copies' = [copies EXCEPT ![s] = @ - 1]
    /\ UNCHANGED <<canonical, inbox>>

Next == \/ \E tx \in Txs : Publish(tx)
        \/ \E s \in Source : Prepare(s) \/ SendToIngestor(s)

Spec == Init /\ [][Next]_vars

-----------------------------------------------------------------------------
(* Properties.                                                             *)

Valid(e) ==
    /\ e.amount \in 0..I64Max
    /\ e.fee \in 0..I64Max
    /\ e.source = "merchant" => e.fee = 0

\* The shapes; and every event an emulator holds or posts is one the
\* ingestor's validateEvent lets through.
TypeOK ==
    /\ \A tx \in Txs : canonical[tx] # NoTx => canonical[tx].amount \in Amounts
    /\ inbox \in [Source -> Seq(Txs)]
    /\ \A s \in Source : held[s] # NoEvent => held[s].source = s /\ Valid(held[s])
    /\ \A s \in Source : copies[s] \in 0..2 /\ (copies[s] = 0 <=> held[s] = NoEvent)
    /\ \A e \in delivered : e.source \in Source /\ Valid(e)
    /\ noise \in 0..MaxNoise

\* A source never contradicts itself: whatever is lost or late, the events it
\* delivers for one transaction differ in their ids only, so that it does not
\* matter which of them the matcher takes for the duplicate.
CopiesAgree ==
    \A e, f \in delivered :
        e.tx = f.tx /\ e.source = f.source => [e EXCEPT !.id = f.id] = f

\* The complete windows the matcher may form of what was delivered.
Windows(tx) ==
    {w \in [Source -> EventsOf(tx, delivered)] : \A s \in Source : w[s].source = s}

\* The bank's fee is in no comparison of the matcher.
Lies(w, s) ==
    LET honest == Honest(s, w[s].tx, 1)
    IN  \/ w[s].amount # honest.amount
        \/ s = "gateway" /\ w[s].fee # honest.fee

Liars(w) == {s \in Source : Lies(w, s)}

\* No false alarm: emulators and matcher have the same notion of who owes whom
\* what, so a transaction reported without a wrong amount or gateway fee is
\* matched, rounding of the fees included.
HonestBooksMatch ==
    \A tx \in Txs : \A w \in Windows(tx) : Liars(w) = {} => Verdict(w) = "matched"

\* A wrong report is found when it is the only one of its transaction, and the
\* incident blames a pair of sources the wrong one belongs to.
OneLieIsFound ==
    \A tx \in Txs : \A w \in Windows(tx) : Cardinality(Liars(w)) = 1 =>
        /\ Verdict(w) = "mismatch"
        /\ Liars(w) = {"merchant"} => ~Raises(w, "fee_mismatch")
        /\ Liars(w) = {"bank"} => ~Raises(w, "amount_mismatch")

-----------------------------------------------------------------------------
(* The inductive invariant: an emulator builds one report of a transaction *)
(* and whatever it posts for it is that report.                            *)

Posts == [id : Txs \X Source \X {1, 2}, tx : Txs, source : Source,
          amount : 0..I64Max, fee : 0..I64Max, currency : {Currency}]

Transactions == UNION {GenerateTransaction(amount) : amount \in Amounts}

Shape ==
    /\ canonical \in [Txs -> Transactions \cup {NoTx}]
    /\ inbox \in [Source -> Seq(Txs)]
    /\ held \in [Source -> Posts \cup {NoEvent}]
    /\ copies \in [Source -> 0..2]
    /\ delivered \subseteq Posts
    /\ noise \in 0..MaxNoise

Reports(e, s, tx) == e # NoEvent /\ e.source = s /\ e.tx = tx

SameReport(e, f) == e.amount = f.amount /\ e.fee = f.fee

\* A message waits once, and before anything is made of it.
WaitsOnce(s) ==
    \A i \in DOMAIN inbox[s] :
        /\ canonical[inbox[s][i]] # NoTx
        /\ \A j \in DOMAIN inbox[s] : inbox[s][i] = inbox[s][j] => i = j
        /\ ~Reports(held[s], s, inbox[s][i])
        /\ \A e \in delivered : ~Reports(e, s, inbox[s][i])

HoldsOne(s) ==
    /\ copies[s] = 0 <=> held[s] = NoEvent
    /\ held[s] # NoEvent =>
         /\ held[s].source = s
         /\ Valid(held[s])
         /\ canonical[held[s].tx] # NoTx
         /\ \A e \in delivered : Reports(e, s, held[s].tx) => SameReport(e, held[s])

Delivers ==
    \A e \in delivered :
        /\ Valid(e)
        /\ canonical[e.tx] # NoTx
        /\ \A f \in delivered : Reports(f, e.source, e.tx) => SameReport(e, f)

IInv == Shape /\ Delivers /\ \A s \in Source : WaitsOnce(s) /\ HoldsOne(s)

=============================================================================
