------------------------- MODULE InvoiceOfferProofs -------------------------
(***************************************************************************)
(* What the payment route offers to browsers: however payment requests     *)
(* interleave, no two unexpired payments of one invoice are on offer, none *)
(* outlives the invoice, and a second one follows the expiry of the first. *)
(***************************************************************************)
EXTENDS InvoicePaymentProofs

-----------------------------------------------------------------------------
(* How one step may change a request: it starts by reading the prepared    *)
(* payment of an invoice, learns that Horizon does not show it, or builds  *)
(* a new one; the other program counters carry no payment to be offered.   *)
Carrying == {"exists", "fresh", "prepare"}

ReadStep(r) ==
    \E i \in Invoice :
      /\ inv[i].prep # NoTx
      /\ req'[r].pc = "exists" /\ req'[r].tx = inv[i].prep
BuildStep(r) ==
    /\ req[r].pc = "build" /\ req'[r].inv = req[r].inv
    /\ req'[r].pc = "prepare" /\ req'[r].at = now
    /\ req'[r].inv \in Invoice /\ Issued(req'[r].inv)
    /\ req'[r].tx = InvoicePaymentTx(req'[r].inv)

RequestStep(r) ==
    \/ req'[r] = req[r]
    \/ req'[r].pc \notin Carrying
    \/ req[r].pc = "exists" /\ req'[r].pc = "fresh" /\ req'[r].tx = req[r].tx
    \/ ReadStep(r)
    \/ BuildStep(r) /\ UNCHANGED <<now, inv, offered, seq, closed, ledger>>

LEMMA RequestSteps ==
  ASSUME TypeInv, [Next]_vars, NEW r \in Request
  PROVE  RequestStep(r)
<1> USE DEF TypeInv
<1>1. ASSUME NEW q \in Request, NEW i \in Invoice, PayRead(q, i)
      PROVE  RequestStep(r)
  BY <1>1 DEF PayRead, Types, Idle, RequestStep, ReadStep, Carrying
<1>2. ASSUME NEW q \in Request, NEW i \in Invoice, NEW tx \in KnownTx, VerifyRead(q, i, tx)
      PROVE  RequestStep(r)
  BY <1>2 DEF VerifyRead, Types, Idle, RequestStep, Carrying
<1>3. ASSUME NEW q \in Request, Finish(q)
      PROVE  RequestStep(r)
  BY <1>3 DEF Finish, Types, Idle, RequestStep, Carrying
<1>4. ASSUME NEW q \in Request, NEW pc \in Pc \ Carrying, Goto(q, pc)
      PROVE  RequestStep(r)
  BY <1>4 DEF Goto, Types, RequestRow, RequestStep
<1>5. ASSUME NEW q \in Request, PayExists(q)
      PROVE  RequestStep(r)
  BY <1>5 DEF PayExists, Goto, Types, RequestRow, RequestStep, Carrying
<1>6. ASSUME NEW q \in Request, PayBuild(q)
      PROVE  RequestStep(r)
  <2>1. CASE Finish(q)
    BY <1>3, <2>1
  <2>2. CASE req' = [req EXCEPT ![q].pc = "prepare", ![q].at = now,
                                ![q].tx = InvoicePaymentTx(req[q].inv)]
    <3>1. CASE r # q
      BY <2>2, <3>1 DEF Types, RequestStep
    <3>2. CASE r = q
      <4>1. /\ req'[q].pc = "prepare" /\ req'[q].at = now /\ req'[q].inv = req[q].inv
            /\ req'[q].tx = InvoicePaymentTx(req[q].inv)
        BY <2>2 DEF Types, RequestRow
      <4>2. req[q].inv \in Invoice /\ Issued(req[q].inv)
        BY <1>6 DEF PayBuild, HandlesInvoice, Issued
      <4> QED
        BY <1>6, <3>2, <4>1, <4>2 DEF PayBuild, RequestStep, BuildStep
    <3> QED
      BY <3>1, <3>2
  <2> QED
    BY <1>6, <2>1, <2>2 DEF PayBuild, Types, RequestRow
<1>7. ASSUME NEW q \in Request, VerifyLoad(q)
      PROVE  RequestStep(r)
  <2>1. CASE Finish(q)
    BY <1>3, <2>1
  <2>2. ASSUME NEW e \in ledger, NEW pc \in {"confirm", "record"},
               req' = [req EXCEPT ![q].pc = pc, ![q].at = e.at]
        PROVE  RequestStep(r)
    BY <2>2 DEF Types, RequestRow, RequestStep, Carrying
  <2> QED
    BY <1>7, <2>1, <2>2 DEF VerifyLoad
<1>8. ASSUME UNCHANGED req
      PROVE  RequestStep(r)
  BY <1>8 DEF RequestStep
<1>9. {"build", "paid", "expire"} \subseteq Pc \ Carrying
  BY DEF Pc, Carrying
<1> QED
  BY <1>1, <1>2, <1>3, <1>4, <1>5, <1>6, <1>7, <1>8, <1>9, NextCases
  DEF Handle, Abort, PayFresh, PayPrepare, PayPaid, VerifyRecord, VerifyExpire,
      VerifyConfirm, CreateInvoice, Broadcast, PayManually, LedgerClose, HorizonIngest,
      Tick, vars

(* A payment is stored by the request that built it, once the one stored   *)
(* before has expired.                                                     *)
Stores(r) ==
    /\ req[r].pc = "prepare"
    /\ ~StillPrepared(req[r].inv, req[r].at) /\ ValidExpiry(req[r].tx, req[r].at)
    /\ inv' = [inv EXCEPT ![req[r].inv].prep = req[r].tx]
    /\ offered' = offered \cup {req[r].tx}
    /\ UNCHANGED <<now, seq, closed, ledger>>

(* What the route may offer is stored or was offered before: the payment   *)
(* of a row, and the payment a request has read from its row.              *)
PrepOffered ==
    \A i \in Invoice : inv[i].prep # NoTx => inv[i].prep \in offered /\ inv[i].prep.memo = i
ReadOffered ==
    \A r \in Request : req[r].pc \in {"exists", "fresh"} => req[r].tx \in offered

LEMMA OfferSteps ==
  ASSUME TypeInv, [Next]_vars, PrepOffered, ReadOffered
  PROVE  offered' = offered \/ \E r \in Request : Stores(r)
<1> USE DEF TypeInv
<1>1. ASSUME NEW r \in Request, PayFresh(r)
      PROVE  offered' = offered
  BY <1>1 DEF PayFresh, ReadOffered
<1>2. ASSUME NEW r \in Request, PayPrepare(r)
      PROVE  offered' = offered \/ Stores(r)
  <2>1. req[r].inv \in Invoice
    BY <1>2 DEF PayPrepare, HandlesInvoice
  <2> QED
    BY <1>2, <2>1 DEF PayPrepare, PrepOffered, StillPrepared, Stores
<1> QED
  BY <1>1, <1>2, NextCases
  DEF Handle, Abort, PayRead, PayExists, PayBuild, PayPaid, VerifyRead, VerifyLoad,
      VerifyRecord, VerifyExpire, VerifyConfirm, CreateInvoice, Broadcast, PayManually,
      LedgerClose, HorizonIngest, Tick, vars

-----------------------------------------------------------------------------
(* The inductive invariant of the offers: everything built or offered ends *)
(* with its invoice at the latest, and what is offered and unexpired is    *)
(* what the row holds.                                                     *)
Fits(t) == Issued(t.memo) /\ t.maxTime <= inv[t.memo].due

BuiltFits ==
    \A r \in Request : req[r].pc = "prepare" =>
      req[r].tx.memo = req[r].inv /\ Fits(req[r].tx) /\ req[r].at <= now
OfferedFits == \A t \in offered : Fits(t)
OfferedIsStored == \A t \in offered : t.maxTime > now => inv[t.memo].prep = t

OfferInv == PrepOffered /\ ReadOffered /\ BuiltFits /\ OfferedFits /\ OfferedIsStored

(* Fits after the step, of a transaction that the step may choose.         *)
FitsNext(t) == inv'[t.memo].status # "absent" /\ t.maxTime <= inv'[t.memo].due

LEMMA FitsStable ==
  ASSUME TypeInv, [Next]_vars, NEW t \in Tx, Fits(t)
  PROVE  FitsNext(t)
BY Stable DEF Fits, FitsNext, Tx, Issued

LEMMA BuiltFitsStep ==
  ASSUME TypeInv, OfferInv, [Next]_vars
  PROVE  BuiltFits'
<1> USE DEF TypeInv
<1> SUFFICES ASSUME NEW r \in Request, req'[r].pc = "prepare"
             PROVE  req'[r].tx.memo = req'[r].inv /\ FitsNext(req'[r].tx) /\ req'[r].at <= now'
  BY DEF BuiltFits, Fits, FitsNext, Issued
<1>1. CASE req'[r] = req[r]
  <2>1. req[r].tx \in Tx /\ req[r].at \in Nat
    BY <1>1 DEF HandlesInvoice, Types, RequestRow
  <2>2. FitsNext(req[r].tx)
    BY <1>1, <2>1, FitsStable DEF OfferInv, BuiltFits
  <2>3. req'[r].tx.memo = req'[r].inv /\ req'[r].at <= now'
    BY <1>1, <2>1, Stable DEF OfferInv, BuiltFits
  <2> QED
    BY <1>1, <2>2, <2>3
<1>2. CASE BuildStep(r) /\ UNCHANGED <<now, inv>>
  <2>1. PICK i \in Invoice : i = req'[r].inv /\ Issued(i)
    BY <1>2 DEF BuildStep
  <2>2. inv[i].due \in Nat /\ now \in Nat
    BY DEF Types, InvoiceRow
  <2>3. /\ InvoicePaymentTx(i).memo = i
        /\ InvoicePaymentTx(i).maxTime = Earliest(now + Validity, inv[i].due)
    BY DEF InvoicePaymentTx
  <2>4. InvoicePaymentTx(i).maxTime <= inv[i].due
    BY <2>2, <2>3, ParameterAssumption DEF Earliest
  <2> QED
    BY <1>2, <2>1, <2>2, <2>3, <2>4 DEF BuildStep, FitsNext, Issued
<1> QED
  BY <1>1, <1>2, RequestSteps DEF RequestStep, ReadStep, Carrying

LEMMA OfferedStep ==
  ASSUME TypeInv, OfferInv, [Next]_vars, NEW t \in offered'
  PROVE  FitsNext(t) /\ (t.maxTime > now' => inv'[t.memo].prep = t)
<1> USE DEF TypeInv
<1>1. CASE t \in offered
  <2>1. t \in Tx /\ t.memo \in Invoice /\ t.maxTime \in Nat
    BY <1>1 DEF Types, Tx
  <2>2. FitsNext(t) /\ Issued(t.memo)
    BY <1>1, <2>1, FitsStable DEF OfferInv, OfferedFits, Fits
  <2>3. ASSUME t.maxTime > now' PROVE inv'[t.memo].prep = t
    <3>1. now \in Nat /\ now' \in Nat /\ now <= now'
      BY Stable
    <3>2. inv[t.memo].prep = t
      BY <1>1, <2>1, <2>3, <3>1 DEF OfferInv, OfferedIsStored
    <3>3. inv[t.memo] \in InvoiceRow
      BY <2>1 DEF Types
    <3>4. ~PrepareStep(t.memo)
      <4> SUFFICES ASSUME PrepareStep(t.memo) PROVE FALSE
        OBVIOUS
      <4>1. PICK r \in Request : req[r].pc = "prepare" /\ ~StillPrepared(t.memo, req[r].at)
        BY DEF PrepareStep
      <4>2. req[r].at <= now /\ req[r].at \in Nat
        BY <4>1 DEF OfferInv, BuiltFits, Types, RequestRow
      <4> QED
        BY <2>1, <2>3, <3>1, <3>2, <4>1, <4>2, NoTxAssumption DEF StillPrepared
    <3>5. RowStep(t.memo)
      BY <2>1, RowSteps
    <3> QED
      BY <2>2, <3>2, <3>3, <3>4, <3>5
      DEF RowStep, IssueStep, ExpireStep, ConfirmStep, Issued, InvoiceRow
  <2> QED
    BY <2>2, <2>3
<1>2. CASE t \notin offered
  <2>1. PICK r \in Request : Stores(r) /\ t = req[r].tx
    BY <1>2, OfferSteps DEF OfferInv, Stores
  <2>2. t \in Tx /\ req[r].inv \in Invoice /\ t.memo = req[r].inv /\ Fits(t)
    BY <2>1 DEF Stores, OfferInv, BuiltFits, HandlesInvoice
  <2>3. inv'[t.memo].prep = t
    BY <2>1, <2>2 DEF Stores, Types, InvoiceRow
  <2> QED
    BY <2>2, <2>3, FitsStable
<1> QED
  BY <1>1, <1>2

LEMMA OfferStep == TypeInv /\ OfferInv /\ [Next]_vars => OfferInv'
<1> SUFFICES ASSUME TypeInv, OfferInv, [Next]_vars PROVE OfferInv'
  OBVIOUS
<1> USE DEF TypeInv
<1>1. offered \subseteq offered'
  BY OfferSteps DEF OfferInv, Stores
<1>2. PrepOffered'
  <2> SUFFICES ASSUME NEW i \in Invoice, inv'[i].prep # NoTx
               PROVE  inv'[i].prep \in offered' /\ inv'[i].prep.memo = i
    BY DEF PrepOffered
  <2>1. inv[i] \in InvoiceRow
    BY DEF Types
  <2>2. CASE inv'[i].prep = inv[i].prep
    BY <1>1, <2>2 DEF OfferInv, PrepOffered
  <2>3. CASE PrepareStep(i)
    BY <2>1, <2>3 DEF PrepareStep, InvoiceRow, OfferInv, BuiltFits
  <2>4. CASE IssueStep(i)
    BY <2>4 DEF IssueStep, Absent
  <2>5. ExpireStep(i) \/ ConfirmStep(i) => inv'[i].prep = inv[i].prep
    BY <2>1 DEF ExpireStep, ConfirmStep, InvoiceRow
  <2> QED
    BY <2>2, <2>3, <2>4, <2>5, RowSteps DEF RowStep
<1>3. ReadOffered'
  BY <1>1, RequestSteps
  DEF RequestStep, ReadStep, BuildStep, Carrying, OfferInv, ReadOffered, PrepOffered
<1>4. BuiltFits'
  BY BuiltFitsStep
<1>5. OfferedFits' /\ OfferedIsStored'
  BY OfferedStep DEF OfferedFits, OfferedIsStored, Fits, FitsNext, Issued
<1> QED
  BY <1>2, <1>3, <1>4, <1>5 DEF OfferInv

LEMMA OfferInit == Init => OfferInv
BY DEF Init, OfferInv, PrepOffered, ReadOffered, BuiltFits, OfferedFits, OfferedIsStored,
       Absent, Idle

(* A debtor never holds two different unexpired payments of one invoice:   *)
(* both would be the payment of its row.                                   *)
THEOREM OneUnexpiredOffer == Spec => []OneUnexpiredXdr
<1>1. OfferInv => OneUnexpiredXdr
  BY DEF OfferInv, OfferedIsStored, OneUnexpiredXdr
<1> QED
  BY TypeInit, TypeStep, OfferInit, OfferStep, <1>1, PTL DEF Spec

-----------------------------------------------------------------------------
(* What reaches the ledger: a payment some wallet was offered, or one made *)
(* elsewhere, which no time bound of the app's payments can be taken for.  *)
Entries == closed \cup ledger

LEMMA EntrySteps ==
  ASSUME TypeInv, [Next]_vars, NEW e \in Entries'
  PROVE  \/ e \in Entries
         \/ /\ e \in Entry /\ e.at = now
            /\ UNCHANGED <<now, inv, offered, signed>>
            /\ \/ e.tx \in signed /\ now <= e.tx.maxTime
               \/ e.tx.maxTime = MaxTime + 1 /\ Issued(e.tx.memo)
<1> USE DEF TypeInv
<1>1. ASSUME NEW tx \in signed, NEW ok \in BOOLEAN, LedgerClose(tx, ok), e \notin Entries
      PROVE  /\ e \in Entry /\ e.at = now /\ e.tx \in signed /\ now <= e.tx.maxTime
             /\ UNCHANGED <<now, inv, offered, signed>>
  BY <1>1 DEF LedgerClose, Entries, Types, Entry
<1>2. ASSUME NEW d \in Debtor, NEW i \in Invoice, NEW exact \in Manual, NEW ok \in BOOLEAN,
             PayManually(d, i, exact, ok), e \notin Entries
      PROVE  /\ e \in Entry /\ e.at = now /\ e.tx.maxTime = MaxTime + 1
             /\ Issued(e.tx.memo)
             /\ UNCHANGED <<now, inv, offered, signed>>
  <2>1. /\ ManualTx(d, i, exact) \in Tx /\ ManualTx(d, i, exact).maxTime = MaxTime + 1
        /\ ManualTx(d, i, exact).memo = i
    BY ParameterAssumption DEF ManualTx, Tx, Types
  <2> QED
    BY <1>2, <2>1 DEF PayManually, LedgerClose, Entries, Types, Entry, Issued
<1>3. ASSUME NEW f \in closed, HorizonIngest(f)
      PROVE  Entries' = Entries
  BY <1>3 DEF HorizonIngest, Entries
<1> QED
  BY <1>1, <1>2, <1>3, NextCases
  DEF CreateInvoice, PayRead, VerifyRead, Abort, Handle, PayExists, PayFresh, PayBuild,
      PayPrepare, PayPaid, VerifyLoad, VerifyRecord, VerifyExpire, VerifyConfirm,
      Broadcast, Tick, vars, Entries

LEMMA SignedSteps ==
  ASSUME [Next]_vars
  PROVE  signed \subseteq signed' /\ signed' \subseteq signed \cup offered
BY NextCases
DEF CreateInvoice, PayRead, VerifyRead, Abort, Handle, PayExists, PayFresh, PayBuild,
    PayPrepare, PayPaid, VerifyLoad, VerifyRecord, VerifyExpire, VerifyConfirm,
    Broadcast, PayManually, LedgerClose, HorizonIngest, Tick, vars

SignedOffered == signed \subseteq offered
IssuedInTime ==
    \A i \in Invoice : Issued(i) => inv[i].created <= now /\ inv[i].due <= MaxTime
EntriesInTime ==
    \A e \in Entries :
      \/ e.tx \in signed /\ InWindow(e.tx.memo, e.at)
      \/ e.tx.maxTime > MaxTime

LedgerInv == SignedOffered /\ IssuedInTime /\ EntriesInTime

LEMMA LedgerStep ==
  TypeInv /\ OfferInv /\ LedgerInv /\ [Next]_vars => LedgerInv'
<1> SUFFICES ASSUME TypeInv, OfferInv, LedgerInv, [Next]_vars PROVE LedgerInv'
  OBVIOUS
<1> USE DEF TypeInv
<1>1. SignedOffered'
  BY SignedSteps, OfferSteps DEF OfferInv, Stores, LedgerInv, SignedOffered
<1>2. IssuedInTime'
  <2> SUFFICES ASSUME NEW i \in Invoice, inv'[i].status # "absent"
               PROVE  inv'[i].created <= now' /\ inv'[i].due <= MaxTime
    BY DEF IssuedInTime, Issued
  <2>1. now \in Nat /\ now' \in Nat /\ now <= now' /\ inv[i] \in InvoiceRow
    BY Stable DEF Types
  <2>2. CASE IssueStep(i)
    BY <2>1, <2>2, ParameterAssumption DEF IssueStep, Absent
  <2>3. CASE Issued(i)
    BY <2>1, <2>3, Stable DEF LedgerInv, IssuedInTime, InvoiceRow
  <2> QED
    BY <2>2, <2>3, RowSteps DEF RowStep, PrepareStep, ExpireStep, ConfirmStep, Issued
<1>3. EntriesInTime'
  <2> SUFFICES ASSUME NEW e \in Entries'
               PROVE  \/ e.tx \in signed' /\ InWindow(e.tx.memo, e.at)'
                      \/ e.tx.maxTime > MaxTime
    BY DEF EntriesInTime
  <2>1. CASE e \in Entries
    <3>1. e.tx.memo \in Invoice
      BY <2>1 DEF Entries, Types, Entry, Tx
    <3>2. e.tx \in signed => Issued(e.tx.memo)
      BY DEF LedgerInv, SignedOffered, OfferInv, OfferedFits, Fits
    <3> QED
      BY <2>1, <3>1, <3>2, SignedSteps, Stable DEF LedgerInv, EntriesInTime, InWindow
  <2>2. CASE /\ e \in Entry /\ e.at = now /\ UNCHANGED <<now, inv, offered, signed>>
             /\ e.tx \in signed /\ now <= e.tx.maxTime
    <3>1. e.tx.memo \in Invoice /\ e.tx.maxTime \in Nat /\ now \in Nat
      BY <2>2 DEF Types, Entry, Tx
    <3>2. inv[e.tx.memo].due \in Nat /\ inv[e.tx.memo].created \in Nat
      BY <3>1 DEF Types, InvoiceRow
    <3>3. Issued(e.tx.memo) /\ e.tx.maxTime <= inv[e.tx.memo].due
      BY <2>2 DEF LedgerInv, SignedOffered, OfferInv, OfferedFits, Fits
    <3>4. inv[e.tx.memo].created <= now
      BY <3>1, <3>3 DEF LedgerInv, IssuedInTime
    <3> QED
      BY <2>2, <3>1, <3>2, <3>3, <3>4 DEF InWindow
  <2> QED
    BY <2>1, <2>2, EntrySteps, ParameterAssumption
<1> QED
  BY <1>1, <1>2, <1>3 DEF LedgerInv

LEMMA LedgerInit == Init => LedgerInv
BY DEF Init, LedgerInv, SignedOffered, IssuedInTime, EntriesInTime, Entries, Issued, Absent

(* A payment the route offered never reaches the ledger outside the life   *)
(* of its invoice.                                                         *)
THEOREM OffersAreNeverLate == Spec => []PreparedNeverLate
<1>1. TypeInv /\ OfferInv /\ LedgerInv => PreparedNeverLate
  <2> SUFFICES ASSUME TypeInv, OfferInv, LedgerInv, NEW e \in Entries, e.tx \in offered
               PROVE  InWindow(e.tx.memo, e.at)
    BY DEF PreparedNeverLate, Entries
  <2>1. e.tx.memo \in Invoice /\ e.tx.maxTime \in Nat
    BY DEF TypeInv, Types, Tx
  <2>2. inv[e.tx.memo].due \in Nat /\ e.tx.maxTime <= inv[e.tx.memo].due
    BY <2>1 DEF TypeInv, Types, InvoiceRow, OfferInv, OfferedFits, Fits
  <2>3. inv[e.tx.memo].due <= MaxTime
    BY <2>1 DEF OfferInv, OfferedFits, Fits, LedgerInv, IssuedInTime
  <2> QED
    BY <2>1, <2>2, <2>3, ParameterAssumption DEF LedgerInv, EntriesInTime
<1> QED
  BY TypeInit, TypeStep, OfferInit, OfferStep, LedgerInit, LedgerStep, <1>1, PTL DEF Spec

-----------------------------------------------------------------------------
(* The order of the payments of one invoice.  A sequence number is used by *)
(* the builds that saw it, so the payment with the higher one was built    *)
(* later: either it was stored when the other had expired, or the other    *)
(* finds it unexpired in the row and is dropped.                           *)
BySequence(t) == t.payer = DebtorOf[t.memo] /\ t.seq <= seq[t.payer] + 1

OfferedBySequence == \A t \in offered : BySequence(t)
BuiltBySequence == \A r \in Request : req[r].pc = "prepare" => BySequence(req[r].tx)

(* The row holds the payment that expires last.                            *)
StoredIsLatest ==
    \A t \in offered :
      inv[t.memo].prep # NoTx /\ t.maxTime <= inv[t.memo].prep.maxTime

(* Builds with a later sequence number are later builds.                   *)
BuildOrder ==
    \A r, q \in Request :
      (/\ req[r].pc = "prepare" /\ req[q].pc = "prepare"
       /\ req[r].inv = req[q].inv /\ req[r].tx.seq < req[q].tx.seq)
      => req[r].at <= req[q].at

(* A build overtaken by a stored one will find it unexpired.               *)
Overtaken ==
    \A r \in Request, t \in offered :
      (req[r].pc = "prepare" /\ t.memo = req[r].inv /\ req[r].tx.seq < t.seq)
      => req[r].at < inv[req[r].inv].prep.maxTime

OfferOrder ==
    \A t1, t2 \in offered :
      (t1.memo = t2.memo /\ t1.seq < t2.seq) => t1.maxTime <= now
EntryOrder ==
    \A e \in Entries, t \in offered :
      (e.tx \in offered /\ t.memo = e.tx.memo /\ t.seq < e.tx.seq) => t.maxTime <= e.at

SequenceInv ==
    /\ OfferedBySequence /\ BuiltBySequence /\ StoredIsLatest
    /\ BuildOrder /\ Overtaken /\ OfferOrder /\ EntryOrder

LEMMA SequenceGrows ==
  ASSUME TypeInv, [Next]_vars, NEW d \in Debtor
  PROVE  seq[d] \in Nat /\ seq'[d] \in Nat /\ seq[d] <= seq'[d]
<1>1. seq[d] \in Nat
  BY DEF TypeInv, Types
<1>2. seq'[d] = seq[d] \/ seq'[d] = seq[d] + 1
  <2>1. ASSUME NEW e \in closed, HorizonIngest(e)
        PROVE  seq'[d] = seq[d] \/ seq'[d] = seq[d] + 1
    BY <2>1 DEF HorizonIngest, TypeInv, Types
  <2> QED
    BY <2>1, NextCases
    DEF CreateInvoice, PayRead, VerifyRead, Abort, Handle, PayExists, PayFresh, PayBuild,
        PayPrepare, PayPaid, VerifyLoad, VerifyRecord, VerifyExpire, VerifyConfirm,
        Broadcast, PayManually, LedgerClose, Tick, vars
<1> QED
  BY <1>1, <1>2

(* The stored payment is replaced only by one that expires later.          *)
LEMMA StoredGrows ==
  ASSUME TypeInv, OfferInv, [Next]_vars, NEW i \in Invoice, inv[i].prep # NoTx
  PROVE  /\ inv'[i].prep # NoTx
         /\ inv[i].prep.maxTime \in Nat /\ inv'[i].prep.maxTime \in Nat
         /\ inv[i].prep.maxTime <= inv'[i].prep.maxTime
<1> USE DEF TypeInv
<1>1. inv[i] \in InvoiceRow /\ inv[i].prep \in Tx /\ inv[i].prep.maxTime \in Nat
  BY DEF Types, InvoiceRow, Tx
<1>2. CASE inv'[i].prep = inv[i].prep
  BY <1>1, <1>2
<1>3. CASE PrepareStep(i)
  <2>1. PICK r \in Request :
          /\ req[r].pc = "prepare" /\ req[r].inv = i
          /\ ~StillPrepared(i, req[r].at) /\ ValidExpiry(req[r].tx, req[r].at)
          /\ inv'[i] = [inv[i] EXCEPT !.prep = req[r].tx]
    BY <1>3 DEF PrepareStep
  <2>2. req[r].tx \in Tx /\ req[r].tx.maxTime \in Nat /\ req[r].at \in Nat
    BY <2>1 DEF HandlesInvoice, Types, RequestRow, Tx
  <2>3. inv'[i].prep = req[r].tx
    BY <1>1, <2>1 DEF InvoiceRow
  <2> QED
    BY <1>1, <2>1, <2>2, <2>3, NoTxAssumption DEF StillPrepared, ValidExpiry
<1>4. ~IssueStep(i)
  BY DEF IssueStep, OfferInv, PrepOffered, OfferedFits, Fits, Issued
<1>5. ExpireStep(i) \/ ConfirmStep(i) => inv'[i].prep = inv[i].prep
  BY <1>1 DEF ExpireStep, ConfirmStep, InvoiceRow
<1> QED
  BY <1>2, <1>3, <1>4, <1>5, RowSteps DEF RowStep

(* What a step stores, with what is known of it.                           *)
LEMMA StoresFacts ==
  ASSUME TypeInv, OfferInv, NEW r \in Request, Stores(r)
  PROVE  /\ req[r].inv \in Invoice /\ req[r].tx \in Tx /\ req[r].tx.memo = req[r].inv
         /\ req[r].at \in Nat /\ req[r].at <= now /\ req[r].at < req[r].tx.maxTime
         /\ inv'[req[r].inv].prep = req[r].tx
         /\ req[r].tx.maxTime \in Nat /\ req[r].tx.seq \in Nat
<1> USE DEF TypeInv
<1>1. req[r].inv \in Invoice /\ req[r].tx \in Tx /\ req[r].at \in Nat
  BY DEF Stores, HandlesInvoice, Types, RequestRow
<1>2. req[r].tx.memo = req[r].inv /\ req[r].at <= now
  BY DEF Stores, OfferInv, BuiltFits
<1>3. inv'[req[r].inv].prep = req[r].tx
  BY <1>1 DEF Stores, Types, InvoiceRow
<1> QED
  BY <1>1, <1>2, <1>3 DEF Stores, ValidExpiry, Tx

(* No payment is stored when a later one is on offer already.              *)
LEMMA StoresLatest ==
  ASSUME TypeInv, OfferInv, SequenceInv, NEW r \in Request, Stores(r),
         NEW t \in offered, t.memo = req[r].tx.memo, req[r].tx.seq < t.seq
  PROVE  FALSE
<1>1. req[r].at < inv[req[r].inv].prep.maxTime /\ inv[req[r].inv].prep # NoTx
  BY StoresFacts DEF Stores, SequenceInv, Overtaken, StoredIsLatest
<1>2. req[r].inv \in Invoice /\ req[r].at \in Nat
  BY StoresFacts
<1>3. inv[req[r].inv].prep.maxTime \in Nat
  BY <1>1, <1>2 DEF TypeInv, Types, InvoiceRow, Tx
<1> QED
  BY <1>1, <1>2, <1>3 DEF Stores, StillPrepared

(* Requests that await prepare_invoice_payment after a step.               *)
LEMMA Builds ==
  ASSUME TypeInv, [Next]_vars, NEW r \in Request, req'[r].pc = "prepare"
  PROVE  /\ req'[r].inv \in Invoice /\ req'[r].tx \in Tx /\ req'[r].at \in Nat
         /\ req'[r].tx.seq \in Nat /\ DebtorOf[req'[r].inv] \in Debtor
         /\ \/ req'[r] = req[r]
            \/ BuildStep(r) /\ UNCHANGED <<now, inv, offered, seq, closed, ledger>>
<1>1. TypeInv'
  BY TypeStep
<1> QED
  BY <1>1, RequestSteps, ParameterAssumption
  DEF TypeInv, HandlesInvoice, Types, RequestRow, Tx, RequestStep, ReadStep, Carrying

LEMMA BuildFacts ==
  ASSUME NEW r \in Request, BuildStep(r)
  PROVE  /\ req'[r].tx.memo = req'[r].inv /\ req'[r].tx.payer = DebtorOf[req'[r].inv]
         /\ req'[r].tx.seq = seq[DebtorOf[req'[r].inv]] + 1
         /\ req'[r].at = now
BY DEF BuildStep, InvoicePaymentTx

LEMMA BySequenceStep ==
  ASSUME TypeInv, OfferInv, SequenceInv, [Next]_vars
  PROVE  OfferedBySequence' /\ BuiltBySequence'
<1> DEFINE After(t) == t.payer = DebtorOf[t.memo] /\ t.seq <= seq'[t.payer] + 1
<1>1. ASSUME NEW t \in Tx, BySequence(t)
      PROVE  After(t)
  <2>1. t.payer \in Debtor /\ t.seq \in Nat
    BY DEF Tx
  <2> QED
    BY <1>1, <2>1, SequenceGrows DEF BySequence
<1>2. ASSUME NEW t \in offered'
      PROVE  After(t)
  <2>1. CASE t \in offered
    BY <1>1, <2>1 DEF TypeInv, Types, SequenceInv, OfferedBySequence
  <2>2. ASSUME NEW r \in Request, Stores(r), t = req[r].tx
        PROVE  After(t)
    BY <1>1, <2>2, StoresFacts DEF Stores, SequenceInv, BuiltBySequence
  <2> QED
    BY <2>1, <2>2, OfferSteps DEF OfferInv, Stores
<1>3. ASSUME NEW r \in Request, req'[r].pc = "prepare"
      PROVE  After(req'[r].tx)
  <2>1. CASE req'[r] = req[r]
    BY <1>1, <1>3, <2>1, Builds DEF SequenceInv, BuiltBySequence
  <2>2. CASE BuildStep(r) /\ UNCHANGED <<now, inv, offered, seq, closed, ledger>>
    <3>1. seq[DebtorOf[req'[r].inv]] \in Nat
      BY <1>3, Builds DEF TypeInv, Types
    <3> QED
      BY <2>2, <3>1, BuildFacts
  <2> QED
    BY <1>3, <2>1, <2>2, Builds
<1> QED
  BY <1>2, <1>3 DEF OfferedBySequence, BuiltBySequence, BySequence

LEMMA StoredIsLatestStep ==
  ASSUME TypeInv, OfferInv, SequenceInv, [Next]_vars
  PROVE  StoredIsLatest'
<1> SUFFICES ASSUME NEW t \in offered'
             PROVE  inv'[t.memo].prep # NoTx /\ t.maxTime <= inv'[t.memo].prep.maxTime
  BY DEF StoredIsLatest
<1>1. CASE t \in offered
  <2>1. t.memo \in Invoice /\ t.maxTime \in Nat
    BY <1>1 DEF TypeInv, Types, Tx
  <2>2. inv[t.memo].prep # NoTx /\ t.maxTime <= inv[t.memo].prep.maxTime
    BY <1>1 DEF SequenceInv, StoredIsLatest
  <2> QED
    BY <2>1, <2>2, StoredGrows
<1>2. ASSUME NEW r \in Request, Stores(r), t = req[r].tx
      PROVE  inv'[t.memo].prep # NoTx /\ t.maxTime <= inv'[t.memo].prep.maxTime
  BY <1>2, StoresFacts, NoTxAssumption
<1> QED
  BY <1>1, <1>2, OfferSteps DEF OfferInv, Stores

LEMMA BuildOrderStep ==
  ASSUME TypeInv, OfferInv, SequenceInv, [Next]_vars
  PROVE  BuildOrder'
<1> SUFFICES ASSUME NEW r \in Request, NEW q \in Request,
                    req'[r].pc = "prepare", req'[q].pc = "prepare",
                    req'[r].inv = req'[q].inv, req'[r].tx.seq < req'[q].tx.seq
             PROVE  req'[r].at <= req'[q].at
  BY DEF BuildOrder
<1>1. CASE req'[r] = req[r] /\ req'[q] = req[q]
  BY <1>1 DEF SequenceInv, BuildOrder
<1>2. CASE req'[r] = req[r] /\ BuildStep(q)
  BY <1>2, BuildFacts DEF OfferInv, BuiltFits
<1>3. CASE BuildStep(r) /\ UNCHANGED <<now, inv, offered, seq, closed, ledger>>
  <2>1. req'[q].tx.payer = DebtorOf[req'[q].tx.memo]
        /\ req'[q].tx.seq <= seq'[req'[q].tx.payer] + 1
    BY BySequenceStep DEF BuiltBySequence, BySequence
  <2>2. BuiltFits'
    BY BuiltFitsStep
  <2>3. req'[q].tx.memo = req'[q].inv
    BY <2>2 DEF BuiltFits
  <2>4. seq[DebtorOf[req'[r].inv]] \in Nat /\ req'[q].tx.seq \in Nat
    BY Builds DEF TypeInv, Types
  <2> QED
    BY <1>3, <2>1, <2>3, <2>4, BuildFacts
<1> QED
  BY <1>1, <1>2, <1>3, Builds

LEMMA OvertakenStep ==
  ASSUME TypeInv, OfferInv, SequenceInv, [Next]_vars
  PROVE  Overtaken'
<1> SUFFICES ASSUME NEW r \in Request, NEW t \in offered', req'[r].pc = "prepare",
                    t.memo = req'[r].inv, req'[r].tx.seq < t.seq
             PROVE  req'[r].at < inv'[req'[r].inv].prep.maxTime
  BY DEF Overtaken
<1>1. CASE req'[r] = req[r] /\ t \in offered
  <2>1. req[r].inv \in Invoice /\ req[r].at \in Nat
    BY <1>1, Builds
  <2>2. inv[req[r].inv].prep # NoTx
    BY <1>1 DEF SequenceInv, StoredIsLatest
  <2>3. req[r].at < inv[req[r].inv].prep.maxTime
    BY <1>1 DEF SequenceInv, Overtaken
  <2> QED
    BY <1>1, <2>1, <2>2, <2>3, StoredGrows
<1>2. ASSUME req'[r] = req[r], NEW q \in Request, Stores(q), t = req[q].tx
      PROVE  req'[r].at < inv'[req'[r].inv].prep.maxTime
  <2>1. req[r].at <= req[q].at /\ req[r].at \in Nat
    BY <1>2, StoresFacts, Builds DEF SequenceInv, BuildOrder, Stores
  <2> QED
    BY <1>2, <2>1, StoresFacts
<1>3. CASE BuildStep(r) /\ UNCHANGED <<now, inv, offered, seq, closed, ledger>>
  <2>1. t.payer = DebtorOf[t.memo] /\ t.seq <= seq[t.payer] + 1
    BY <1>3 DEF SequenceInv, OfferedBySequence, BySequence
  <2>2. seq[DebtorOf[req'[r].inv]] \in Nat /\ t.seq \in Nat
    BY <1>3, Builds DEF TypeInv, Types, Tx
  <2> QED
    BY <1>3, <2>1, <2>2, BuildFacts
<1> QED
  BY <1>1, <1>2, <1>3, Builds, OfferSteps DEF OfferInv, Stores

LEMMA OfferOrderStep ==
  ASSUME TypeInv, OfferInv, SequenceInv, [Next]_vars
  PROVE  OfferOrder'
<1> SUFFICES ASSUME NEW t1 \in offered', NEW t2 \in offered',
                    t1.memo = t2.memo, t1.seq < t2.seq
             PROVE  t1.maxTime <= now'
  BY DEF OfferOrder
<1>1. now \in Nat /\ now' \in Nat /\ now <= now'
  BY Stable
<1>2. CASE t1 \in offered /\ t2 \in offered
  <2>1. t1.maxTime \in Nat
    BY <1>2 DEF TypeInv, Types, Tx
  <2> QED
    BY <1>1, <1>2, <2>1 DEF SequenceInv, OfferOrder
<1>3. ASSUME NEW r \in Request, Stores(r), t1 \in offered, t2 = req[r].tx
      PROVE  t1.maxTime <= now'
  <2>1. t1.maxTime \in Nat /\ t1.memo = req[r].inv
    BY <1>3, StoresFacts DEF TypeInv, Types, Tx
  <2>2. inv[req[r].inv].prep # NoTx /\ t1.maxTime <= inv[req[r].inv].prep.maxTime
    BY <1>3, <2>1 DEF SequenceInv, StoredIsLatest
  <2>3. inv[req[r].inv].prep.maxTime \in Nat /\ req[r].at \in Nat /\ req[r].at <= now
    BY <1>3, <2>2, StoresFacts DEF TypeInv, Types, InvoiceRow, Tx
  <2>4. inv[req[r].inv].prep.maxTime <= req[r].at
    BY <1>3, <2>2, <2>3 DEF Stores, StillPrepared
  <2> QED
    BY <1>1, <2>1, <2>2, <2>3, <2>4
<1>4. ASSUME NEW r \in Request, Stores(r), t1 = req[r].tx, t2 \in offered
      PROVE  FALSE
  BY <1>4, StoresLatest
<1>5. ASSUME NEW r \in Request, Stores(r), t1 = req[r].tx, t2 = req[r].tx
      PROVE  FALSE
  BY <1>5, StoresFacts
<1> QED
  BY <1>2, <1>3, <1>4, <1>5, OfferSteps DEF OfferInv, Stores

LEMMA EntryOrderStep ==
  ASSUME TypeInv, OfferInv, LedgerInv, SequenceInv, [Next]_vars
  PROVE  EntryOrder'
<1> SUFFICES ASSUME NEW e \in Entries', NEW t \in offered', e.tx \in offered',
                    t.memo = e.tx.memo, t.seq < e.tx.seq
             PROVE  t.maxTime <= e.at
  BY DEF EntryOrder
<1>1. CASE e \in Entries
  <2>1. e.tx.maxTime <= MaxTime
    <3>1. TypeInv' /\ OfferInv' /\ LedgerInv'
      BY TypeStep, OfferStep, LedgerStep
    <3>2. e.tx.memo \in Invoice /\ e.tx.maxTime \in Nat
      BY <3>1 DEF TypeInv, Types, Tx
    <3>3. inv'[e.tx.memo].due \in Nat /\ e.tx.maxTime <= inv'[e.tx.memo].due
      BY <3>1, <3>2 DEF TypeInv, Types, InvoiceRow, OfferInv, OfferedFits, Fits
    <3>4. inv'[e.tx.memo].due <= MaxTime
      BY <3>1, <3>2 DEF OfferInv, OfferedFits, Fits, LedgerInv, IssuedInTime, Issued
    <3> QED
      BY <3>2, <3>3, <3>4, ParameterAssumption
  <2>2. e.tx \in offered
    <3>1. e.tx.maxTime \in Nat
      BY <1>1 DEF TypeInv, Types, Entries, Entry, Tx
    <3> QED
      BY <1>1, <2>1, <3>1, ParameterAssumption
      DEF LedgerInv, EntriesInTime, SignedOffered
  <2>3. CASE t \in offered
    BY <1>1, <2>2, <2>3 DEF SequenceInv, EntryOrder
  <2>4. ASSUME NEW r \in Request, Stores(r), t = req[r].tx
        PROVE  FALSE
    BY <2>2, <2>4, StoresLatest
  <2> QED
    BY <2>3, <2>4, OfferSteps DEF OfferInv, Stores
<1>2. CASE e.at = now /\ UNCHANGED offered
  BY <1>2 DEF SequenceInv, OfferOrder
<1> QED
  BY <1>1, <1>2, EntrySteps

LEMMA SequenceStep ==
  TypeInv /\ OfferInv /\ LedgerInv /\ SequenceInv /\ [Next]_vars => SequenceInv'
BY BySequenceStep, StoredIsLatestStep, BuildOrderStep, OvertakenStep, OfferOrderStep,
   EntryOrderStep DEF SequenceInv

LEMMA SequenceInit == Init => SequenceInv
BY DEF Init, SequenceInv, OfferedBySequence, BuiltBySequence, StoredIsLatest, BuildOrder,
       Overtaken, OfferOrder, EntryOrder, Entries, Idle

(* Whatever the debtor's browsers retry, a second payment through the app  *)
(* reaches the ledger only after the first one has expired.                *)
THEOREM SecondPaymentFollowsExpiry == Spec => []SecondPaymentOnlyAfterExpiry
<1>1. SequenceInv => SecondPaymentOnlyAfterExpiry
  BY DEF SequenceInv, EntryOrder, Entries, SecondPaymentOnlyAfterExpiry
<1> QED
  BY TypeInit, TypeStep, OfferInit, OfferStep, LedgerInit, LedgerStep, SequenceInit,
     SequenceStep, <1>1, PTL DEF Spec

=============================================================================
