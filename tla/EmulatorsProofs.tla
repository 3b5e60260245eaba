---------------------------- MODULE EmulatorsProofs ----------------------------
(***************************************************************************)
(* For any transactions, amounts, fee rates and noise: what a source       *)
(* reports of a transaction is one report, honest reports are matched, and *)
(* a single wrong one is found and blamed on the right pair.               *)
(***************************************************************************)
EXTENDS Emulators, FiniteSetTheorems, TLAPS

-----------------------------------------------------------------------------
(* Amounts and fees.                                                       *)

\* Every rounding of a share is one of Shares: a share of at most the whole is
\* no more than the whole, and none is less than nothing.
LEMMA SharesComplete ==
    ASSUME NEW x \in Nat, NEW pct \in 0..(100 * RateUnit), NEW f \in Int,
           (f - 1) * (100 * RateUnit) < x * pct,
           x * pct < (f + 1) * (100 * RateUnit)
    PROVE  f \in Shares(x, pct)
<1>. DEFINE whole == 100 * RateUnit
<1>1. whole \in Nat /\ whole > 0 /\ pct \in 0..whole
  BY EmulatorsAssumption
<1>. HIDE DEF whole
<1>2. x * pct \in 0..(x * whole)
  BY <1>1
<1>3. ASSUME f > x PROVE FALSE
  <2>1. (f - 1) * whole >= x * whole
    BY <1>1, <1>3
  <2>. QED  BY <1>1, <1>2, <2>1 DEF whole
<1>4. ASSUME f < 0 PROVE FALSE
  <2>1. (f + 1) * whole <= 0
    BY <1>1, <1>4
  <2>. QED  BY <1>1, <1>2, <2>1 DEF whole
<1>. QED  BY <1>3, <1>4 DEF Shares

\* A factor of at most hi/10 makes nothing larger than hi/10 of it.
LEMMA ScaledBounds ==
    ASSUME NEW x \in Nat, NEW lo \in {5, 9}, NEW hi \in {11, 15}, NEW n \in Nat,
           15 * x <= 10 * n
    PROVE  Scaled(x, lo, hi) \subseteq 0..n
<1>1. (lo * x) \div 10 \in Nat
  OBVIOUS
<1>2. (hi * x) \div 10 <= n
  OBVIOUS
<1>. QED  BY <1>1, <1>2 DEF Scaled

LEMMA SourceFinite == IsFiniteSet(Source)
<1>1. IsFiniteSet({"merchant"}) /\ IsFiniteSet({"gateway"}) /\ IsFiniteSet({"bank"})
  BY FS_Singleton
<1>2. IsFiniteSet({"merchant"} \cup {"gateway"})
  BY <1>1, FS_Union
<1>3. IsFiniteSet(({"merchant"} \cup {"gateway"}) \cup {"bank"})
  BY <1>1, <1>2, FS_Union
<1>4. ({"merchant"} \cup {"gateway"}) \cup {"bank"} = Source
  BY DEF Source
<1>. QED  BY <1>3, <1>4

LEMMA TransactionFacts ==
    ASSUME NEW amount \in Amounts, NEW t \in GenerateTransaction(amount)
    PROVE  /\ t # NoTx
           /\ t.amount = amount
           /\ t.amount \in 0..I64Max
           /\ t.gateway_fee \in 0..amount
           /\ t.bank_fee \in 0..amount
<1>1. amount \in Nat /\ amount \in 0..I64Max
  BY EmulatorsAssumption, I64MaxAssumption
<1>2. t \in [amount : {amount}, gateway_fee : 0..amount, bank_fee : 0..amount]
  BY DEF GenerateTransaction, Shares
<1>3. t \in [amount : Int, gateway_fee : Int, bank_fee : Int]
  BY <1>1, <1>2
<1>. QED  BY <1>1, <1>2, <1>3, EmulatorsAssumption

\* What the scenario published.
LEMMA PublishedFacts ==
    ASSUME Shape, NEW tx \in Txs, canonical[tx] # NoTx
    PROVE  /\ canonical[tx].amount \in Amounts
           /\ canonical[tx].amount \in 0..I64Max
           /\ canonical[tx].gateway_fee \in 0..canonical[tx].amount
           /\ canonical[tx].bank_fee \in 0..canonical[tx].amount
<1>1. PICK amount \in Amounts : canonical[tx] \in GenerateTransaction(amount)
  BY DEF Shape, Transactions
<1>. QED  BY <1>1, TransactionFacts

LEMMA HonestFacts ==
    ASSUME Shape, NEW tx \in Txs, canonical[tx] # NoTx, NEW s \in Source, NEW n \in {1, 2}
    PROVE  /\ Honest(s, tx, n) \in Posts
           /\ Honest(s, tx, n).source = s /\ Honest(s, tx, n).tx = tx
           /\ 15 * Honest(s, tx, n).amount <= 10 * I64Max
           /\ 15 * Honest(s, tx, n).fee <= 10 * I64Max
           /\ s = "merchant" => /\ Honest(s, tx, n).amount = canonical[tx].amount
                                /\ Honest(s, tx, n).fee = 0
           /\ s = "gateway" => /\ Honest(s, tx, n).amount = canonical[tx].amount
                               /\ Honest(s, tx, n).fee = canonical[tx].gateway_fee
           /\ s = "bank" =>
                Honest(s, tx, n).amount = canonical[tx].amount - canonical[tx].gateway_fee
<1>. DEFINE c == canonical[tx]
<1>1. /\ c.amount \in 0..I64Max /\ 15 * c.amount <= 10 * I64Max
      /\ c.gateway_fee \in 0..c.amount /\ c.bank_fee \in 0..c.amount
      /\ I64Max \in Nat
  BY PublishedFacts, EmulatorsAssumption, I64MaxAssumption
<1>2. <<tx, s, n>> \in Txs \X Source \X {1, 2}
  OBVIOUS
<1>3. c.amount - c.gateway_fee \in 0..I64Max
  BY <1>1
<1>4. CASE s = "merchant"
  <2>1. Honest(s, tx, n) = Event("merchant", tx, n, c.amount, 0)
    BY <1>4 DEF Honest, MerchantEvent
  <2>. QED  BY <1>1, <1>2, <1>4, <2>1 DEF Event, Posts
<1>5. CASE s = "gateway"
  <2>1. Honest(s, tx, n) = Event("gateway", tx, n, c.amount, c.gateway_fee)
    BY <1>5 DEF Honest, GatewayEvent
  <2>. QED  BY <1>1, <1>2, <1>5, <2>1 DEF Event, Posts
<1>6. CASE s = "bank"
  <2>1. Honest(s, tx, n) = Event("bank", tx, n, c.amount - c.gateway_fee, c.bank_fee)
    BY <1>1, <1>3, <1>6 DEF Honest, BankEvent
  <2>. QED  BY <1>1, <1>2, <1>3, <1>6, <2>1 DEF Event, Posts
<1>. QED  BY <1>4, <1>5, <1>6 DEF Source

LEMMA NoiseShape ==
    ASSUME NEW h, NEW e, e \in ApplyNoise(h)
    PROVE  \E a, f : /\ a \in {h.amount} \cup MutateAmount(h.amount)
                     /\ f \in {h.fee} \cup (IF h.source = "merchant" THEN {} ELSE MutateFee(h.fee))
                     /\ e = Reporting(h, a, f)
  BY DEF ApplyNoise

\* Noise keeps an event one that the ingestor lets through.
LEMMA NoiseFacts ==
    ASSUME Shape, NEW tx \in Txs, canonical[tx] # NoTx, NEW s \in Source,
           NEW e \in ApplyNoise(Honest(s, tx, 1))
    PROVE  e \in Posts /\ e.source = s /\ e.tx = tx /\ Valid(e)
<1>. DEFINE h == Honest(s, tx, 1)
<1>1. /\ h \in Posts /\ h.source = s /\ h.tx = tx
      /\ 15 * h.amount <= 10 * I64Max /\ 15 * h.fee <= 10 * I64Max
      /\ s = "merchant" => h.fee = 0
  BY HonestFacts
<1>1a. e \in ApplyNoise(h)
  OBVIOUS
<1>. HIDE DEF h
<1>2. h.amount \in 0..I64Max /\ h.fee \in 0..I64Max /\ I64Max \in Nat
  BY <1>1, I64MaxAssumption DEF Posts
<1>3. MutateAmount(h.amount) \subseteq 0..I64Max
  BY <1>1, <1>2, ScaledBounds DEF MutateAmount
<1>4. MutateFee(h.fee) \subseteq 0..I64Max
  BY <1>1, <1>2, ScaledBounds DEF MutateFee
<1>5. PICK a, f : /\ a \in {h.amount} \cup MutateAmount(h.amount)
                  /\ f \in {h.fee} \cup (IF h.source = "merchant" THEN {} ELSE MutateFee(h.fee))
                  /\ e = Reporting(h, a, f)
  BY <1>1a, NoiseShape
<1>6. a \in 0..I64Max /\ f \in 0..I64Max /\ (s = "merchant" => f = 0)
  BY <1>1, <1>2, <1>3, <1>4, <1>5
<1>7. e \in Posts /\ e.source = s /\ e.tx = tx /\ e.amount = a /\ e.fee = f
  BY <1>1, <1>5, <1>6 DEF Posts, Reporting
<1>. QED  BY <1>6, <1>7 DEF Valid

LEMMA PostFacts ==
    ASSUME NEW e \in Posts
    PROVE  /\ e # NoEvent /\ e.tx \in Txs /\ e.source \in Source /\ e.currency = Currency
           /\ e.amount \in 0..I64Max /\ e.fee \in 0..I64Max
           /\ NextCopy(e) \in Posts /\ SameReport(NextCopy(e), e)
           /\ NextCopy(e).source = e.source /\ NextCopy(e).tx = e.tx
<1>1. e \in [id : Txs \X Source \X {1, 2}, tx : Txs, source : Source,
             amount : Int, fee : Int, currency : {Currency}]
  BY I64MaxAssumption DEF Posts
<1>2. <<e.tx, e.source, 2>> \in Txs \X Source \X {1, 2}
  BY DEF Posts
<1>. QED  BY <1>1, <1>2, EmulatorsAssumption DEF Posts, NextCopy, SameReport

-----------------------------------------------------------------------------
(* The invariant.                                                          *)

LEMMA InitHolds ==
    ASSUME Init
    PROVE  IInv
  BY EmulatorsAssumption
  DEF Init, IInv, Shape, Delivers, WaitsOnce, HoldsOne

LEMMA PublishKeeps ==
    ASSUME IInv, NEW tx \in Txs, Publish(tx)
    PROVE  IInv'
<1>. USE DEF IInv
<1>1. PICK amount \in Amounts :
        \E t \in GenerateTransaction(amount) : canonical' = [canonical EXCEPT ![tx] = t]
  BY DEF Publish
<1>1a. PICK t \in GenerateTransaction(amount) : canonical' = [canonical EXCEPT ![tx] = t]
  BY <1>1
<1>2. PICK deaf \in SUBSET Source :
        inbox' = [s \in Source |-> IF s \in deaf THEN inbox[s] ELSE Append(inbox[s], tx)]
  BY DEF Publish
<1>3. UNCHANGED <<held, copies, delivered>> /\ canonical[tx] = NoTx
  BY DEF Publish
<1>4. noise' \in 0..MaxNoise
  <2>1. PICK d \in SUBSET Source : MakeNoise(Cardinality(d))
    BY DEF Publish
  <2>2. Cardinality(d) \in Nat
    BY FS_Subset, FS_CardinalityType, SourceFinite
  <2>. QED  BY <2>1, <2>2, EmulatorsAssumption DEF MakeNoise, Shape
<1>5. Shape'
  <2>1. inbox' \in [Source -> Seq(Txs)]
    BY <1>2 DEF Shape
  <2>2. canonical' \in [Txs -> Transactions \cup {NoTx}]
    <3>1. t \in Transactions
      BY DEF Transactions
    <3>. QED  BY <1>1a, <3>1 DEF Shape
  <2>. QED  BY <1>3, <1>4, <2>1, <2>2 DEF Shape
<1>6. \A x \in Txs : canonical[x] # NoTx => canonical'[x] # NoTx
  BY <1>1a, <1>3 DEF Shape
<1>7. canonical'[tx] # NoTx
  BY <1>1a, TransactionFacts DEF Shape
<1>8. Delivers'
  BY <1>3, <1>6 DEF Delivers, Shape, Posts, Reports, SameReport, Valid
<1>9. ASSUME NEW s \in Source PROVE HoldsOne(s)'
  BY <1>3, <1>6 DEF HoldsOne, Shape, Posts, Reports, SameReport, Valid
<1>10. ASSUME NEW s \in Source PROVE WaitsOnce(s)'
  <2>. DEFINE old == inbox[s]
  <2>1. old \in Seq(Txs) /\ WaitsOnce(s) /\ HoldsOne(s)
    BY DEF Shape
  <2>2. \A i \in DOMAIN old : old[i] \in Txs /\ old[i] # tx /\ canonical'[old[i]] # NoTx
    BY <1>3, <1>6, <2>1 DEF WaitsOnce
  <2>3. ~Reports(held[s], s, tx) /\ \A e \in delivered : ~Reports(e, s, tx)
    BY <1>3, <2>1 DEF HoldsOne, Delivers, Reports
  <2>4. CASE s \in deaf
    <3>1. inbox'[s] = old
      BY <1>2, <2>4
    <3>. QED  BY <1>3, <2>1, <2>2, <3>1 DEF WaitsOnce, Reports
  <2>5. CASE s \notin deaf
    <3>1. inbox'[s] = Append(old, tx)
      BY <1>2, <2>5
    <3>2. \A i \in DOMAIN inbox'[s] :
             \/ i \in DOMAIN old /\ inbox'[s][i] = old[i]
             \/ i = Len(old) + 1 /\ inbox'[s][i] = tx
      BY <2>1, <3>1
    <3>. QED  BY <1>3, <1>7, <2>1, <2>2, <2>3, <3>2 DEF WaitsOnce, Reports
  <2>. QED  BY <2>4, <2>5
<1>. QED  BY <1>5, <1>8, <1>9, <1>10

LEMMA PrepareKeeps ==
    ASSUME IInv, NEW s \in Source, Prepare(s)
    PROVE  IInv'
<1>. USE DEF IInv
<1>. DEFINE q  == inbox[s]
            tx == Head(inbox[s])
<1>1. /\ held[s] = NoEvent /\ q # <<>> /\ q \in Seq(Txs)
      /\ inbox' = [inbox EXCEPT ![s] = Tail(q)]
      /\ UNCHANGED <<canonical, delivered>>
  BY DEF Prepare, Shape
<1>2. tx \in Txs /\ tx = q[1] /\ Tail(q) \in Seq(Txs) /\ 1 \in DOMAIN q
      /\ \A i \in DOMAIN Tail(q) : i + 1 \in DOMAIN q /\ i + 1 # 1 /\ Tail(q)[i] = q[i + 1]
  BY <1>1
<1>3. canonical[tx] # NoTx /\ \A e \in delivered : ~Reports(e, s, tx)
  BY <1>2 DEF WaitsOnce
<1>4. \A i \in DOMAIN Tail(q) :
        /\ canonical[Tail(q)[i]] # NoTx
        /\ \A j \in DOMAIN Tail(q) : Tail(q)[i] = Tail(q)[j] => i = j
        /\ Tail(q)[i] # tx
        /\ \A e \in delivered : ~Reports(e, s, Tail(q)[i])
  <2>1. TAKE i \in DOMAIN Tail(q)
  <2>2. i \in Int /\ WaitsOnce(s)
    BY <1>1
  <2>3. \A j \in DOMAIN Tail(q) : j \in Int
    BY <1>1
  <2>. QED  BY <1>2, <2>2, <2>3 DEF WaitsOnce
<1>5. inbox' \in [Source -> Seq(Txs)] /\ inbox'[s] = Tail(q)
      /\ \A r \in Source \ {s} : inbox'[r] = inbox[r]
  BY <1>1, <1>2 DEF Shape
<1>6. Delivers'
  BY <1>1 DEF Delivers, Reports, SameReport, Valid
<1>7. ASSUME UNCHANGED <<held, copies>>, MakeNoise(1)
      PROVE  IInv'
  <2>1. Shape'
    BY <1>1, <1>5, <1>7, EmulatorsAssumption DEF Shape, MakeNoise
  <2>2. ASSUME NEW r \in Source PROVE HoldsOne(r)'
    BY <1>1, <1>7 DEF HoldsOne, Reports, SameReport, Valid
  <2>3. ASSUME NEW r \in Source PROVE WaitsOnce(r)'
    <3>1. CASE r = s
      BY <1>1, <1>4, <1>5, <1>7, <3>1 DEF WaitsOnce, Reports
    <3>2. CASE r # s
      BY <1>1, <1>5, <1>7, <3>2 DEF WaitsOnce, Reports
    <3>. QED  BY <3>1, <3>2
  <2>. QED  BY <1>6, <2>1, <2>2, <2>3
<1>8. ASSUME NEW e \in ApplyNoise(Honest(s, tx, 1)), NEW n \in 1..2,
             MakeNoise(Differs(e, Honest(s, tx, 1)) + n - 1),
             held' = [held EXCEPT ![s] = e],
             copies' = [copies EXCEPT ![s] = n]
      PROVE  IInv'
  <2>1. e \in Posts /\ e.source = s /\ e.tx = tx /\ Valid(e) /\ e # NoEvent
    BY <1>2, <1>3, NoiseFacts, PostFacts
  <2>2. noise' \in 0..MaxNoise
    <3>1. Differs(e, Honest(s, tx, 1)) \in 0..2
      BY DEF Differs
    <3>. HIDE DEF tx
    <3>. QED  BY <1>8, <3>1, EmulatorsAssumption DEF MakeNoise, Shape
  <2>3. Shape'
    BY <1>1, <1>5, <1>8, <2>1, <2>2 DEF Shape
  <2>4. /\ held'[s] = e /\ copies'[s] = n
        /\ \A r \in Source \ {s} : held'[r] = held[r] /\ copies'[r] = copies[r]
    BY <1>8 DEF Shape
  <2>5. ASSUME NEW r \in Source PROVE HoldsOne(r)'
    <3>1. CASE r = s
      BY <1>1, <1>3, <2>1, <2>4, <3>1 DEF HoldsOne, Valid
    <3>2. CASE r # s
      BY <1>1, <2>4, <3>2 DEF HoldsOne, Reports, SameReport, Valid
    <3>. QED  BY <3>1, <3>2
  <2>6. ASSUME NEW r \in Source PROVE WaitsOnce(r)'
    <3>1. CASE r = s
      BY <1>1, <1>4, <1>5, <2>1, <2>4, <3>1 DEF WaitsOnce, Reports
    <3>2. CASE r # s
      BY <1>1, <1>5, <2>4, <3>2 DEF WaitsOnce, Reports
    <3>. QED  BY <3>1, <3>2
  <2>. QED  BY <1>6, <2>3, <2>5, <2>6
<1>. QED  BY <1>7, <1>8 DEF Prepare

LEMMA SendKeeps ==
    ASSUME IInv, NEW s \in Source, SendToIngestor(s)
    PROVE  IInv'
<1>. USE DEF IInv
<1>. DEFINE e == held[s]
<1>1. /\ e # NoEvent /\ e \in Posts /\ e.source = s /\ Valid(e) /\ canonical[e.tx] # NoTx
      /\ copies[s] \in 1..2
      /\ \A f \in delivered : Reports(f, s, e.tx) => SameReport(f, e)
  BY DEF SendToIngestor, HoldsOne, Shape
<1>2. /\ held' = [held EXCEPT ![s] = IF copies[s] = 2 THEN NextCopy(e) ELSE NoEvent]
      /\ copies' = [copies EXCEPT ![s] = @ - 1]
      /\ UNCHANGED <<canonical, inbox>>
      /\ delivered' = delivered \cup {e} \/ delivered' = delivered
  BY DEF SendToIngestor
<1>3. noise' \in 0..MaxNoise
  BY EmulatorsAssumption DEF SendToIngestor, MakeNoise, Shape
<1>4. /\ NextCopy(e) \in Posts /\ NextCopy(e) # NoEvent /\ SameReport(NextCopy(e), e)
      /\ NextCopy(e).source = s /\ NextCopy(e).tx = e.tx
  BY <1>1, PostFacts
<1>. HIDE DEF e
<1>5. Shape'
  BY <1>1, <1>2, <1>3, <1>4 DEF Shape
<1>6. \A f \in delivered' : f \in delivered \/ f = e
  BY <1>2
<1>7. Delivers'
  <2>1. SUFFICES ASSUME NEW f \in delivered'
                 PROVE  /\ Valid(f) /\ canonical[f.tx] # NoTx
                        /\ \A g \in delivered' : Reports(g, f.source, f.tx) => SameReport(f, g)
    BY <1>2 DEF Delivers, Reports, SameReport, Valid
  <2>2. CASE f \in delivered
    <3>1. e.source = f.source /\ e.tx = f.tx => SameReport(f, e)
      BY <1>1, <2>2, PostFacts DEF Reports, Shape
    <3>. QED  BY <1>6, <2>2, <3>1 DEF Delivers, Reports
  <2>3. CASE f = e
    BY <1>1, <1>6, <2>3 DEF Reports, SameReport
  <2>. QED  BY <1>6, <2>1, <2>2, <2>3
<1>8. /\ \A r \in Source \ {s} : held'[r] = held[r] /\ copies'[r] = copies[r]
      /\ copies'[s] = copies[s] - 1
      /\ held'[s] = IF copies[s] = 2 THEN NextCopy(e) ELSE NoEvent
  BY <1>2 DEF Shape
<1>9. ASSUME NEW r \in Source PROVE HoldsOne(r)'
  <2>1. CASE r # s
    BY <1>1, <1>2, <1>6, <1>8, <2>1 DEF HoldsOne, Reports, SameReport, Valid
  <2>2. CASE r = s /\ copies[s] = 2
    <3>1. held'[s] = NextCopy(e) /\ copies'[s] = 1
      BY <1>8, <2>2
    <3>2. Valid(NextCopy(e))
      BY <1>1, <1>4 DEF Valid, SameReport
    <3>. QED  BY <1>1, <1>2, <1>4, <1>6, <2>2, <3>1, <3>2 DEF HoldsOne, Reports, SameReport, Valid
  <2>3. CASE r = s /\ copies[s] = 1
    BY <1>8, <2>3 DEF HoldsOne
  <2>. QED  BY <1>1, <2>1, <2>2, <2>3
<1>10. ASSUME NEW r \in Source PROVE WaitsOnce(r)'
  <2>1. CASE r # s
    BY <1>1, <1>2, <1>6, <1>8, <2>1 DEF WaitsOnce, Reports
  <2>2. CASE r = s
    <3>1. \A i \in DOMAIN inbox[s] : inbox[s][i] # e.tx
      BY <1>1 DEF WaitsOnce, Reports, e
    <3>2. WaitsOnce(s)
      OBVIOUS
    <3>. QED  BY <1>2, <1>4, <1>6, <1>8, <2>2, <3>1, <3>2 DEF WaitsOnce, Reports
  <2>. QED  BY <2>1, <2>2
<1>. QED  BY <1>5, <1>7, <1>9, <1>10

\* The inductive invariant: a source makes one report of a transaction, and
\* all it holds, still has to send or has sent of it is that report.
THEOREM EmulatorsInvariant == Spec => []IInv
<1>1. Init => IInv
  BY InitHolds
<1>2. IInv /\ [Next]_vars => IInv'
  <2>. SUFFICES ASSUME IInv, [Next]_vars PROVE IInv'
    OBVIOUS
  <2>1. CASE \E tx \in Txs : Publish(tx)
    BY <2>1, PublishKeeps
  <2>2. CASE \E s \in Source : Prepare(s)
    BY <2>2, PrepareKeeps
  <2>3. CASE \E s \in Source : SendToIngestor(s)
    BY <2>3, SendKeeps
  <2>4. CASE UNCHANGED vars
    BY <2>4 DEF vars, IInv, Shape, Delivers, WaitsOnce, HoldsOne, Reports, SameReport, Valid
  <2>. QED  BY <2>1, <2>2, <2>3, <2>4 DEF Next
<1>. QED  BY <1>1, <1>2, PTL DEF Spec

-----------------------------------------------------------------------------
(* What the invariant gives.                                               *)

\* The shapes hold, and every event an emulator holds or posts is one that the
\* ingestor's validateEvent lets through, however wrong the noise makes it.
THEOREM EmulatorsTyped == Spec => []TypeOK
<1>1. IInv => TypeOK
  <2>. SUFFICES ASSUME IInv PROVE TypeOK
    OBVIOUS
  <2>1. \A tx \in Txs : canonical[tx] # NoTx => canonical[tx].amount \in Amounts
    BY PublishedFacts DEF IInv
  <2>2. \A s \in Source : copies[s] \in 0..2
    BY DEF IInv, Shape
  <2>3. \A e \in delivered : e.source \in Source
    BY DEF IInv, Shape, Posts
  <2>. QED  BY <2>1, <2>2, <2>3 DEF IInv, Shape, Delivers, HoldsOne, TypeOK
<1>. QED  BY <1>1, EmulatorsInvariant, PTL

\* A source never contradicts itself: the events it delivers for a transaction
\* differ in their ids only, whatever was lost, late or repeated.
THEOREM EmulatorsCopiesAgree == Spec => []CopiesAgree
<1>1. IInv => CopiesAgree
  <2>. SUFFICES ASSUME IInv, NEW e \in delivered, NEW f \in delivered,
                       e.tx = f.tx, e.source = f.source
                PROVE  [e EXCEPT !.id = f.id] = f
    BY DEF CopiesAgree
  <2>1. e \in Posts /\ f \in Posts /\ f # NoEvent
    BY PostFacts DEF IInv, Shape
  <2>2. e.amount = f.amount /\ e.fee = f.fee
    BY <2>1 DEF IInv, Delivers, Reports, SameReport
  <2>. QED  BY <2>1, <2>2 DEF Posts
<1>. QED  BY <1>1, EmulatorsInvariant, PTL

\* What a complete window of delivered events is made of.
LEMMA WindowFacts ==
    ASSUME IInv, NEW tx \in Txs, NEW w \in Windows(tx)
    PROVE  /\ canonical[tx] # NoTx
           /\ \A s \in Source : /\ w[s] \in Posts /\ w[s].tx = tx /\ w[s].source = s
                                /\ w[s].currency = Currency
                                /\ w[s].amount \in 0..I64Max /\ w[s].fee \in 0..I64Max
<1>1. \A s \in Source : w[s] \in delivered /\ w[s].tx = tx /\ w[s].source = s
  BY DEF Windows, EventsOf
<1>2. "merchant" \in Source
  BY DEF Source
<1>3. canonical[tx] # NoTx
  BY <1>1, <1>2 DEF IInv, Delivers
<1>. QED  BY <1>1, <1>3, PostFacts DEF IInv, Shape

\* What an honest window looks like, in the matcher's terms.
LEMMA LieFacts ==
    ASSUME IInv, NEW tx \in Txs, NEW w \in Windows(tx)
    PROVE  /\ Lies(w, "merchant") <=> w["merchant"].amount # canonical[tx].amount
           /\ Lies(w, "gateway") <=> \/ w["gateway"].amount # canonical[tx].amount
                                    \/ w["gateway"].fee # canonical[tx].gateway_fee
           /\ Lies(w, "bank") <=>
                w["bank"].amount # canonical[tx].amount - canonical[tx].gateway_fee
<1>1. /\ canonical[tx] # NoTx /\ Shape
      /\ \A s \in Source : w[s].tx = tx
  BY WindowFacts DEF IInv
<1>2. "merchant" \in Source /\ "gateway" \in Source /\ "bank" \in Source
  BY DEF Source
<1>. QED  BY <1>1, <1>2, HonestFacts DEF Lies

\* What the matcher makes of it.
LEMMA VerdictFacts ==
    ASSUME IInv, NEW tx \in Txs, NEW w \in Windows(tx)
    PROVE  /\ Verdict(w) = "matched" <=>
                /\ w["gateway"].amount = w["merchant"].amount
                /\ w["bank"].amount = w["gateway"].amount - w["gateway"].fee
           /\ Verdict(w) = "matched" \/ Verdict(w) = "mismatch"
           /\ w["gateway"].amount = w["merchant"].amount => ~Raises(w, "amount_mismatch")
           /\ w["bank"].amount = w["gateway"].amount - w["gateway"].fee =>
                ~Raises(w, "fee_mismatch")
<1>1. \A s \in Source : /\ w[s] # NoEvent /\ w[s].currency = Currency
                        /\ w[s].amount \in 0..I64Max /\ w[s].fee \in 0..I64Max
  BY WindowFacts, PostFacts
<1>2. "merchant" \in Source /\ "gateway" \in Source /\ "bank" \in Source
  BY DEF Source
<1>3. SourcesSeen(w) = Source /\ ~CurrencyMismatch(w)
  BY <1>1 DEF SourcesSeen, CurrencyMismatch
<1>4. ExpectedBankAmount(w["gateway"]) = w["gateway"].amount - w["gateway"].fee
  BY <1>1, <1>2, I64MaxAssumption DEF ExpectedBankAmount, I64Sub
<1>5. /\ AmountMismatch(w) <=> w["gateway"].amount # w["merchant"].amount
      /\ FeeMismatch(w) <=> w["bank"].amount # w["gateway"].amount - w["gateway"].fee
  BY <1>1, <1>2, <1>4 DEF AmountMismatch, FeeMismatch, BothSeen
<1>. HIDE DEF Source
<1>6. CASE AmountMismatch(w) /\ FeeMismatch(w)
  <2>1. MismatchIncidents(w) = <<"amount_mismatch", "fee_mismatch">>
    BY <1>3, <1>6 DEF MismatchIncidents
  <2>. QED  BY <1>3, <1>5, <1>6, <2>1 DEF Verdict
<1>7. CASE AmountMismatch(w) /\ ~FeeMismatch(w)
  <2>1. MismatchIncidents(w) = <<"amount_mismatch">>
    BY <1>3, <1>7 DEF MismatchIncidents
  <2>. QED  BY <1>3, <1>5, <1>7, <2>1 DEF Verdict, Raises
<1>8. CASE ~AmountMismatch(w) /\ FeeMismatch(w)
  <2>1. MismatchIncidents(w) = <<"fee_mismatch">>
    BY <1>3, <1>8 DEF MismatchIncidents
  <2>. QED  BY <1>3, <1>5, <1>8, <2>1 DEF Verdict, Raises
<1>9. CASE ~AmountMismatch(w) /\ ~FeeMismatch(w)
  <2>1. MismatchIncidents(w) = <<>>
    BY <1>3, <1>9 DEF MismatchIncidents
  <2>. QED  BY <1>3, <1>5, <1>9, <2>1 DEF Verdict, Raises
<1>. QED  BY <1>6, <1>7, <1>8, <1>9

\* No false alarm: a transaction reported without a wrong amount or gateway fee
\* is matched, for any amounts and float rates from 0 to 100 percent, whichever
\* way the fees were rounded.
THEOREM EmulatorsHonestMatch == Spec => []HonestBooksMatch
<1>1. IInv => HonestBooksMatch
  <2>. SUFFICES ASSUME IInv, NEW tx \in Txs, NEW w \in Windows(tx), Liars(w) = {}
                PROVE  Verdict(w) = "matched"
    BY DEF HonestBooksMatch
  <2>1. ~Lies(w, "merchant") /\ ~Lies(w, "gateway") /\ ~Lies(w, "bank")
    BY DEF Liars, Source
  <2>. QED  BY <2>1, LieFacts, VerdictFacts
<1>. QED  BY <1>1, EmulatorsInvariant, PTL

\* A wrong report is found when it is the only one of its transaction, and the
\* incident blames a pair of sources that it belongs to.
THEOREM EmulatorsOneLie == Spec => []OneLieIsFound
<1>1. IInv => OneLieIsFound
  <2>. SUFFICES ASSUME IInv, NEW tx \in Txs, NEW w \in Windows(tx),
                       Cardinality(Liars(w)) = 1
                PROVE  /\ Verdict(w) = "mismatch"
                       /\ Liars(w) = {"merchant"} => ~Raises(w, "fee_mismatch")
                       /\ Liars(w) = {"bank"} => ~Raises(w, "amount_mismatch")
    BY DEF OneLieIsFound
  <2>1. PICK s : Liars(w) = {s}
    <3>1. IsFiniteSet(Liars(w))
      BY SourceFinite, FS_Subset DEF Liars
    <3>. QED  BY <3>1, FS_Singleton
  <2>2. s \in {"merchant", "gateway", "bank"}
        /\ \A r \in {"merchant", "gateway", "bank"} : Lies(w, r) <=> r = s
    BY <2>1 DEF Liars, Source
  <2>3. /\ canonical[tx].amount \in Int /\ canonical[tx].gateway_fee \in Int
        /\ \A r \in {"merchant", "gateway", "bank"} : w[r].amount \in Int /\ w[r].fee \in Int
    BY WindowFacts, PublishedFacts, I64MaxAssumption DEF IInv, Source
  <2>4. CASE s = "merchant"
    BY <2>1, <2>2, <2>3, <2>4, LieFacts, VerdictFacts
  <2>5. CASE s = "gateway"
    BY <2>1, <2>2, <2>3, <2>5, LieFacts, VerdictFacts
  <2>6. CASE s = "bank"
    BY <2>1, <2>2, <2>3, <2>6, LieFacts, VerdictFacts
  <2>. QED  BY <2>2, <2>4, <2>5, <2>6
<1>. QED  BY <1>1, EmulatorsInvariant, PTL

=============================================================================
