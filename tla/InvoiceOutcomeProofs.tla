------------------------ MODULE InvoiceOutcomeProofs ------------------------
(***************************************************************************)
(* The outcome of verifications: two verifications of a payment never      *)
(* disagree, and the tables, requests and ledger implement the abstract    *)
(* lifecycle of an invoice.                                                *)
(***************************************************************************)
EXTENDS InvoiceOfferProofs

-----------------------------------------------------------------------------
(* The ledger includes a transaction once: it uses up the next sequence    *)
(* number of its account, and at most one waits for Horizon per account.   *)
ClosedIsNext ==
    /\ \A e \in closed : e.tx.seq = seq[e.tx.payer] + 1
    /\ \A e, f \in closed : e.tx.payer = f.tx.payer => e = f
LedgerIsPast == \A e \in ledger : e.tx.seq <= seq[e.tx.payer]
LedgerOnce == \A e, f \in ledger : e.tx = f.tx => e = f

OnceInv == ClosedIsNext /\ LedgerIsPast /\ LedgerOnce

LEMMA OnceStep == TypeInv /\ OnceInv /\ [Next]_vars => OnceInv'
<1> SUFFICES ASSUME TypeInv, OnceInv, [Next]_vars PROVE OnceInv'
  OBVIOUS
<1> USE DEF TypeInv
<1>1. ASSUME NEW tx, NEW ok \in BOOLEAN, LedgerClose(tx, ok)
      PROVE  OnceInv'
  BY <1>1 DEF LedgerClose, OnceInv, ClosedIsNext, LedgerIsPast, LedgerOnce
<1>2. ASSUME NEW e \in closed, HorizonIngest(e)
      PROVE  OnceInv'
  <2>1. /\ \A f \in closed \cup ledger : f.tx.payer \in Debtor /\ f.tx.seq \in Nat
        /\ \A d \in Debtor : seq[d] \in Nat
    BY DEF Types, Entry, Tx
  <2>2. \A d \in Debtor : seq'[d] = IF d = e.tx.payer THEN seq[d] + 1 ELSE seq[d]
    BY <1>2, <2>1 DEF HorizonIngest, Types
  <2>3. ClosedIsNext'
    BY <1>2, <2>1, <2>2 DEF HorizonIngest, OnceInv, ClosedIsNext
  <2>4. LedgerIsPast'
    BY <1>2, <2>1, <2>2 DEF HorizonIngest, OnceInv, ClosedIsNext, LedgerIsPast
  <2>5. \A f \in ledger : f.tx # e.tx
    BY <2>1 DEF OnceInv, ClosedIsNext, LedgerIsPast
  <2>6. LedgerOnce'
    BY <1>2, <2>5 DEF HorizonIngest, OnceInv, LedgerOnce
  <2> QED
    BY <2>3, <2>4, <2>6 DEF OnceInv
<1>3. CASE UNCHANGED <<closed, ledger, seq>>
  BY <1>3 DEF OnceInv, ClosedIsNext, LedgerIsPast, LedgerOnce
<1> QED
  BY <1>1, <1>2, <1>3, NextCases
  DEF CreateInvoice, PayRead, VerifyRead, Abort, Handle, PayExists, PayFresh, PayBuild,
      PayPrepare, PayPaid, VerifyLoad, VerifyRecord, VerifyExpire, VerifyConfirm,
      Broadcast, PayManually, Tick, vars

LEMMA OnceInit == Init => OnceInv
BY DEF Init, OnceInv, ClosedIsNext, LedgerIsPast, LedgerOnce

-----------------------------------------------------------------------------
(* Paying once.  While Horizon is early and requests are prompt, a payment *)
(* that the network has included stays the payment of its row.  A request  *)
(* that has built another one did so before the bound of the first, so     *)
(* that prepare_invoice_payment will find the first unexpired and drop it. *)
(* It did because it began Slack before that bound: a request that begins  *)
(* once the payment is included reads its hash from the row, and is told   *)
(* that Horizon does not show it only while it is early.                   *)
PaidIsStored ==
    \A e \in Entries : e.tx \in offered => inv[e.tx.memo].prep = e.tx
BuiltBeforeBound ==
    \A r \in Request, e \in Entries :
      (e.tx \in offered /\ req[r].pc = "prepare" /\ req[r].inv = e.tx.memo)
      => req[r].at < e.tx.maxTime

Unaware(r, tx) == \/ req[r].pc \in {"fresh", "build"}
                  \/ req[r].pc = "exists" /\ req[r].tx # tx
BeganBefore ==
    \A r \in Request, e \in Entries :
      (e.tx \in offered /\ req[r].inv = e.tx.memo /\ Unaware(r, e.tx))
      => req[r].at + Slack < e.tx.maxTime
BeganInPast == \A r \in Request : req[r].pc \in {"exists", "fresh", "build"} => req[r].at <= now

SeenInv == PaidIsStored /\ BuiltBeforeBound /\ BeganBefore /\ BeganInPast

(* Nothing is shown that was not included before.                          *)
LEMMA LedgerFromEntries ==
  ASSUME [Next]_vars
  PROVE  ledger' \subseteq Entries
BY NextCases
DEF CreateInvoice, PayRead, VerifyRead, Abort, Handle, PayExists, PayFresh, PayBuild,
    PayPrepare, PayPaid, VerifyLoad, VerifyRecord, VerifyExpire, VerifyConfirm,
    Broadcast, PayManually, LedgerClose, HorizonIngest, Tick, vars, Entries

(* An entry after a step whose payment is on offer: an old one, whose      *)
(* payment was on offer before, or one that closes now and, Slack before   *)
(* its bound, is the unexpired payment of its row.                         *)
LEMMA OfferedEntrySteps ==
  ASSUME TypeInv, OfferInv, LedgerInv, [Next]_vars, SeenEarly',
         NEW e \in Entries', e.tx \in offered'
  PROVE  /\ e.tx.memo \in Invoice /\ e.tx.maxTime \in Nat /\ Issued(e.tx.memo)
         /\ \/ e \in Entries /\ e.tx \in offered
            \/ /\ UNCHANGED <<now, inv, offered>>
               /\ now < e.tx.maxTime /\ now + Slack < e.tx.maxTime
               /\ inv[e.tx.memo].prep = e.tx
<1>1. TypeInv' /\ OfferInv' /\ LedgerInv'
  BY TypeStep, OfferStep, LedgerStep
<1>2. e.tx.memo \in Invoice /\ e.tx.maxTime \in Nat /\ e.tx \in Tx
  BY <1>1 DEF TypeInv, Types, Tx
<1>3. e.tx.maxTime <= MaxTime
  <2>1. inv'[e.tx.memo].due \in Nat /\ e.tx.maxTime <= inv'[e.tx.memo].due
    BY <1>1, <1>2 DEF TypeInv, Types, InvoiceRow, OfferInv, OfferedFits, Fits
  <2>2. inv'[e.tx.memo].due <= MaxTime
    BY <1>1, <1>2 DEF OfferInv, OfferedFits, Fits, LedgerInv, IssuedInTime, Issued
  <2> QED
    BY <1>2, <2>1, <2>2, ParameterAssumption
<1>4. CASE e \in Entries
  <2>1. e.tx \in offered
    BY <1>2, <1>3, <1>4, ParameterAssumption DEF LedgerInv, EntriesInTime, SignedOffered
  <2> QED
    BY <1>2, <1>4, <2>1 DEF OfferInv, OfferedFits, Fits
<1>5. CASE e \notin Entries
  <2>1. UNCHANGED <<now, inv, offered, signed>> /\ e.tx \in signed
    BY <1>2, <1>3, <1>5, EntrySteps, ParameterAssumption
  <2>2. e \in closed'
    BY <1>5, LedgerFromEntries DEF Entries
  <2>3. now < e.tx.maxTime /\ now + Slack < e.tx.maxTime
    <3>1. now + Slack < e.tx.maxTime
      BY <2>1, <2>2 DEF SeenEarly
    <3> QED
      BY <1>2, <3>1, ParameterAssumption DEF TypeInv, Types
  <2>4. e.tx \in offered
    BY <2>1
  <2>5. now \in Nat /\ e.tx.maxTime > now
    BY <1>2, <2>3 DEF TypeInv, Types
  <2> QED
    BY <1>2, <2>1, <2>3, <2>4, <2>5 DEF OfferInv, OfferedIsStored, OfferedFits, Fits
<1> QED
  BY <1>4, <1>5

LEMMA SamePrep ==
  ASSUME TypeInv, [Next]_vars, NEW i \in Invoice, Issued(i), ~PrepareStep(i)
  PROVE  inv'[i].prep = inv[i].prep
<1>1. inv[i] \in InvoiceRow
  BY DEF TypeInv, Types
<1>2. ExpireStep(i) \/ ConfirmStep(i) => inv'[i].prep = inv[i].prep
  BY <1>1 DEF ExpireStep, ConfirmStep, InvoiceRow
<1> QED
  BY <1>2, RowSteps DEF RowStep, IssueStep

LEMMA PaidIsStoredStep ==
  ASSUME TypeInv, OfferInv, LedgerInv, SeenInv, [Next]_vars, SeenEarly'
  PROVE  PaidIsStored'
<1> SUFFICES ASSUME NEW e \in Entries', e.tx \in offered'
             PROVE  inv'[e.tx.memo].prep = e.tx
  BY DEF PaidIsStored
<1> DEFINE i == e.tx.memo
<1>1. i \in Invoice /\ Issued(i) /\ inv[i] \in InvoiceRow /\ e.tx.maxTime \in Nat
  BY OfferedEntrySteps DEF TypeInv, Types
<1>2. CASE e \in Entries /\ e.tx \in offered
  <2>1. inv[i].prep = e.tx /\ inv[i].prep # NoTx
    BY <1>1, <1>2, NoTxAssumption DEF SeenInv, PaidIsStored, TypeInv, Types
  <2>2. ~PrepareStep(i)
    <3> SUFFICES ASSUME PrepareStep(i) PROVE FALSE
      OBVIOUS
    <3>1. PICK r \in Request : /\ req[r].pc = "prepare" /\ req[r].inv = i
                               /\ ~StillPrepared(i, req[r].at)
      BY DEF PrepareStep
    <3>2. req[r].at < e.tx.maxTime /\ req[r].at \in Nat
      BY <1>2, <3>1 DEF SeenInv, BuiltBeforeBound, TypeInv, Types, RequestRow
    <3> QED
      BY <1>1, <2>1, <3>1, <3>2 DEF StillPrepared
  <2>3. inv'[i].prep = inv[i].prep
    BY <1>1, <2>2, SamePrep
  <2> QED
    BY <2>1, <2>3
<1>3. CASE UNCHANGED inv /\ inv[i].prep = e.tx
  BY <1>3
<1> QED
  BY <1>2, <1>3, OfferedEntrySteps

LEMMA BuiltBeforeBoundStep ==
  ASSUME TypeInv, OfferInv, LedgerInv, SeenInv, [Next]_vars, Prompt, SeenEarly'
  PROVE  BuiltBeforeBound'
<1> SUFFICES ASSUME NEW r \in Request, NEW e \in Entries', e.tx \in offered',
                    req'[r].pc = "prepare", req'[r].inv = e.tx.memo
             PROVE  req'[r].at < e.tx.maxTime
  BY DEF BuiltBeforeBound
<1>1. CASE e \in Entries /\ e.tx \in offered
  <2>1. CASE req'[r] = req[r]
    BY <1>1, <2>1 DEF SeenInv, BuiltBeforeBound
  <2>2. CASE BuildStep(r)
    <3>1. req[r].pc = "build" /\ req[r].inv = e.tx.memo
      BY <2>2 DEF BuildStep
    <3>2. req[r].at + Slack < e.tx.maxTime /\ now <= req[r].at + Slack
      BY <1>1, <3>1 DEF SeenInv, BeganBefore, Unaware, Prompt
    <3>3. now \in Nat /\ req[r].at \in Nat /\ Slack \in Nat /\ e.tx.maxTime \in Nat
      BY <1>1, OfferedEntrySteps, ParameterAssumption DEF TypeInv, Types, RequestRow
    <3> QED
      BY <2>2, <3>2, <3>3 DEF BuildStep
  <2> QED
    BY <2>1, <2>2, Builds
<1>2. CASE UNCHANGED now /\ now < e.tx.maxTime
  <2>1. req'[r].at <= now' /\ req'[r].at \in Nat /\ now' \in Nat /\ e.tx.maxTime \in Nat
    BY OfferStep, TypeStep, OfferedEntrySteps, Builds
    DEF OfferInv, BuiltFits, TypeInv, Types
  <2> QED
    BY <1>2, <2>1
<1> QED
  BY <1>1, <1>2, OfferedEntrySteps

(* How a payment request gets to its next step before it has built: it     *)
(* begins, is told that Horizon does not show the payment it has read, or  *)
(* finds that payment expired.                                             *)
Waiting == {"exists", "fresh", "build"}

BeginStep(r) ==
    /\ req'[r].at = now /\ UNCHANGED <<now, inv, offered, closed, ledger>>
    /\ req'[r].inv \in Invoice
    /\ req'[r].tx = inv[req'[r].inv].prep
    /\ req'[r].pc = IF inv[req'[r].inv].prep = NoTx THEN "build" ELSE "exists"
WaitStep(r) ==
    /\ req'[r].at = req[r].at /\ req'[r].inv = req[r].inv
    /\ UNCHANGED <<now, inv, closed, ledger>>
    /\ \/ req[r].pc = "exists" /\ ~OnLedger(req[r].tx)
       \/ req[r].pc = "fresh"

LEMMA WaitSteps ==
  ASSUME TypeInv, [Next]_vars, NEW r \in Request, req'[r].pc \in Waiting
  PROVE  req'[r] = req[r] \/ BeginStep(r) \/ WaitStep(r)
<1> USE DEF TypeInv
<1>1. ASSUME NEW q \in Request, NEW i \in Invoice, PayRead(q, i)
      PROVE  req'[r] = req[r] \/ BeginStep(r)
  BY <1>1 DEF PayRead, Types, Idle, BeginStep
<1>2. ASSUME NEW q \in Request, NEW i \in Invoice, NEW tx \in KnownTx, VerifyRead(q, i, tx)
      PROVE  req'[r] = req[r]
  BY <1>2 DEF VerifyRead, Types, Idle, Waiting
<1>3. ASSUME NEW q \in Request, Finish(q)
      PROVE  req'[r] = req[r]
  BY <1>3 DEF Finish, Types, Idle, Waiting
<1>4. ASSUME NEW q \in Request, PayExists(q)
      PROVE  req'[r] = req[r] \/ WaitStep(r)
  <2>1. CASE OnLedger(req[q].tx)
    BY <1>4, <2>1 DEF PayExists, Types, RequestRow, Waiting
  <2>2. CASE ~OnLedger(req[q].tx)
    BY <1>4, <2>2 DEF PayExists, Goto, Types, RequestRow, WaitStep
  <2> QED
    BY <2>1, <2>2
<1>5. ASSUME NEW q \in Request, PayFresh(q)
      PROVE  req'[r] = req[r] \/ WaitStep(r)
  BY <1>3, <1>5 DEF PayFresh, Goto, Types, RequestRow, WaitStep
<1>6. ASSUME NEW q \in Request, PayBuild(q)
      PROVE  req'[r] = req[r]
  BY <1>3, <1>6 DEF PayBuild, Types, RequestRow, Waiting
<1>7. ASSUME NEW q \in Request, VerifyLoad(q)
      PROVE  req'[r] = req[r]
  <2>1. ASSUME NEW e \in ledger, NEW pc \in {"confirm", "record"},
               req' = [req EXCEPT ![q].pc = pc, ![q].at = e.at]
        PROVE  req'[r] = req[r]
    BY <2>1 DEF Types, RequestRow, Waiting
  <2> QED
    BY <1>3, <1>7, <2>1 DEF VerifyLoad
<1>8. ASSUME NEW q \in Request, VerifyRecord(q)
      PROVE  req'[r] = req[r]
  BY <1>3, <1>8 DEF VerifyRecord, Goto, Types, RequestRow, Waiting
<1> QED
  BY <1>1, <1>2, <1>3, <1>4, <1>5, <1>6, <1>7, <1>8, NextCases
  DEF Handle, Abort, PayPrepare, PayPaid, VerifyExpire, VerifyConfirm, CreateInvoice,
      Broadcast, PayManually, LedgerClose, HorizonIngest, Tick, vars

LEMMA BeganInPastStep ==
  ASSUME TypeInv, SeenInv, [Next]_vars
  PROVE  BeganInPast'
<1> SUFFICES ASSUME NEW r \in Request, req'[r].pc \in Waiting
             PROVE  req'[r].at <= now'
  BY DEF BeganInPast, Waiting
<1>1. now \in Nat /\ now' \in Nat /\ now <= now' /\ req[r].at \in Nat
  BY Stable DEF TypeInv, Types, RequestRow
<1>2. CASE req'[r] = req[r]
  BY <1>1, <1>2 DEF SeenInv, BeganInPast, Waiting
<1>3. CASE BeginStep(r)
  BY <1>1, <1>3 DEF BeginStep
<1>4. CASE WaitStep(r)
  BY <1>1, <1>4 DEF WaitStep, SeenInv, BeganInPast
<1> QED
  BY <1>2, <1>3, <1>4, WaitSteps

LEMMA BeganBeforeStep ==
  ASSUME TypeInv, OfferInv, LedgerInv, SeenInv, [Next]_vars, SeenEarly, SeenEarly'
  PROVE  BeganBefore'
<1> SUFFICES ASSUME NEW r \in Request, NEW e \in Entries', e.tx \in offered',
                    req'[r].inv = e.tx.memo, Unaware(r, e.tx)'
             PROVE  req'[r].at + Slack < e.tx.maxTime
  BY DEF BeganBefore, Unaware
<1>1. /\ now \in Nat /\ req[r].at \in Nat /\ req'[r].at \in Nat /\ Slack \in Nat
      /\ e.tx.maxTime \in Nat /\ now' \in Nat
  BY TypeStep, OfferedEntrySteps, ParameterAssumption DEF TypeInv, Types, RequestRow
<1>2. req'[r].pc \in Waiting
  BY DEF Unaware, Waiting
<1>3. CASE e \in Entries /\ e.tx \in offered
  <2>1. CASE req'[r] = req[r]
    BY <1>3, <2>1 DEF Unaware, SeenInv, BeganBefore
  <2>2. ~BeginStep(r)
    <3> SUFFICES ASSUME BeginStep(r) PROVE FALSE
      OBVIOUS
    <3>1. inv[e.tx.memo].prep = e.tx /\ e.tx # NoTx
      BY <1>3, NoTxAssumption DEF SeenInv, PaidIsStored, TypeInv, Types
    <3> QED
      BY <3>1 DEF BeginStep, Unaware
  <2>3. CASE WaitStep(r)
    <3>1. CASE Unaware(r, e.tx)
      BY <1>3, <2>3, <3>1 DEF WaitStep, SeenInv, BeganBefore
    <3>2. CASE ~Unaware(r, e.tx)
      <4>1. req[r].pc = "exists" /\ e \in closed
        BY <1>3, <2>3, <3>2 DEF WaitStep, Unaware, OnLedger, Entries
      <4>2. now + Slack < e.tx.maxTime /\ req[r].at <= now
        BY <1>3, <4>1 DEF SeenEarly, SeenInv, BeganInPast
      <4> QED
        BY <1>1, <2>3, <4>2 DEF WaitStep
    <3> QED
      BY <3>1, <3>2
  <2> QED
    BY <1>2, <2>1, <2>2, <2>3, WaitSteps
<1>4. CASE UNCHANGED now /\ now + Slack < e.tx.maxTime
  <2>1. req'[r].at <= now'
    BY <1>2, BeganInPastStep DEF BeganInPast, Waiting
  <2> QED
    BY <1>1, <1>4, <2>1
<1> QED
  BY <1>3, <1>4, OfferedEntrySteps

LEMMA SeenStep ==
  /\ TypeInv /\ OfferInv /\ LedgerInv /\ SeenInv
  /\ SeenEarly /\ SeenEarly' /\ Prompt /\ [Next]_vars
  => SeenInv'
BY PaidIsStoredStep, BuiltBeforeBoundStep, BeganBeforeStep, BeganInPastStep DEF SeenInv

LEMMA SeenInit == Init => SeenInv
BY DEF Init, SeenInv, PaidIsStored, BuiltBeforeBound, BeganBefore, BeganInPast, Entries, Idle

LEMMA OneIncluded ==
  ASSUME SeenInv, OnceInv, NEW e \in ledger, NEW f \in ledger,
         {e.tx, f.tx} \subseteq offered, e.tx.memo = f.tx.memo
  PROVE  e = f
<1>1. e.tx = f.tx
  BY DEF SeenInv, PaidIsStored, Entries
<1> QED
  BY <1>1 DEF OnceInv, LedgerOnce

(* The app pays an invoice once if Horizon shows payments Slack before     *)
(* their bound and a payment request takes no longer than Slack to build:  *)
(* then no order of requests, no retry and no browser left open makes a    *)
(* second payment.                                                         *)
THEOREM PaidOnceWhenSeen == Spec => PaidOnceIfSeenEarly
<1>1. SeenInv /\ OnceInv => OnePaymentThroughApp
  BY OneIncluded DEF OnePaymentThroughApp
<1> QED
  BY TypeInit, TypeStep, OfferInit, OfferStep, LedgerInit, LedgerStep, OnceInit, OnceStep,
     SeenInit, SeenStep, <1>1, PTL DEF Spec, PaidOnceIfSeenEarly

(* Under the same two assumptions the claim of the security review holds   *)
(* for debtors who pay only through the app.                               *)
THEOREM ReviewClaimWhenSeen ==
  ASSUME Manual = {}
  PROVE  Spec => ([](SeenEarly /\ Prompt) => []PaidAtMostOnce)
<1> DEFINE Through == \A e \in Entries : e.tx \in signed
<1>1. Init => Through
  BY DEF Init, Entries
<1>2. TypeInv /\ Through /\ [Next]_vars => Through'
  <2> SUFFICES ASSUME TypeInv, Through, [Next]_vars, NEW e \in Entries'
               PROVE  e.tx \in signed'
    OBVIOUS
  <2>1. ASSUME NEW tx \in signed, NEW ok \in BOOLEAN, LedgerClose(tx, ok), e \notin Entries
        PROVE  e.tx \in signed
    BY <2>1 DEF LedgerClose, Entries
  <2>2. ASSUME NEW f \in closed, HorizonIngest(f)
        PROVE  e \in Entries
    BY <2>2 DEF HorizonIngest, Entries
  <2>3. e.tx \in signed
    BY <2>1, <2>2, NextCases
    DEF CreateInvoice, PayRead, VerifyRead, Abort, Handle, PayExists, PayFresh, PayBuild,
        PayPrepare, PayPaid, VerifyLoad, VerifyRecord, VerifyExpire, VerifyConfirm,
        Broadcast, Tick, vars, Entries
  <2> QED
    BY <2>3, SignedSteps
<1>3. Through /\ LedgerInv /\ SeenInv /\ OnceInv => PaidAtMostOnce
  BY OneIncluded DEF Entries, LedgerInv, SignedOffered, PaidAtMostOnce
<1> QED
  BY TypeInit, TypeStep, OfferInit, OfferStep, LedgerInit, LedgerStep, OnceInit, OnceStep,
     SeenInit, SeenStep, <1>1, <1>2, <1>3, PTL DEF Spec

-----------------------------------------------------------------------------
(* A rejected attempt, and a request about to record one, has a ledger     *)
(* record that does not settle the invoice.                                *)
Unsettling(i, tx) == \E e \in ledger : e.tx = tx /\ ~Settles(i, e)

RejectedHasReason == \A a \in rejected : Issued(a.inv) /\ Unsettling(a.inv, a.tx)
RecordHasReason ==
    \A r \in Request : req[r].pc = "record" => Unsettling(req[r].inv, req[r].tx)

RejectInv == RejectedHasReason /\ RecordHasReason

(* The verdict on a record depends only on what is stable.                 *)
LEMMA UnsettlingStable ==
  ASSUME TypeInv, [Next]_vars, NEW i \in Invoice, Issued(i), NEW tx, Unsettling(i, tx)
  PROVE  Unsettling(i, tx)'
BY Stable DEF Unsettling, Settles, VerifyPayment, InWindow

LEMMA RejectStep ==
  TypeInv /\ ConfirmInv /\ RejectInv /\ [Next]_vars => RejectInv'
<1> SUFFICES ASSUME TypeInv, ConfirmInv, RejectInv, [Next]_vars PROVE RejectInv'
  OBVIOUS
<1> USE DEF TypeInv
<1>1. ASSUME NEW a \in rejected'
      PROVE  Issued(a.inv)' /\ Unsettling(a.inv, a.tx)'
  <2>1. CASE a \in rejected
    <3>1. a.inv \in Invoice /\ Issued(a.inv) /\ Unsettling(a.inv, a.tx)
      BY <2>1 DEF Types, RejectInv, RejectedHasReason
    <3> QED
      BY <3>1, Stable, UnsettlingStable
  <2>2. ASSUME NEW r \in Request, VerifyRecord(r),
               a = [inv |-> req[r].inv, tx |-> req[r].tx]
        PROVE  Issued(a.inv)' /\ Unsettling(a.inv, a.tx)'
    <3>1. a.inv \in Invoice /\ Issued(a.inv) /\ Unsettling(a.inv, a.tx)
      BY <2>2 DEF VerifyRecord, HandlesInvoice, Issued, RejectInv, RecordHasReason
    <3> QED
      BY <3>1, Stable, UnsettlingStable
  <2>3. a \in rejected \/ \E r \in Request :
          VerifyRecord(r) /\ a = [inv |-> req[r].inv, tx |-> req[r].tx]
    BY NextCases
    DEF CreateInvoice, PayRead, VerifyRead, Abort, Handle, PayExists, PayFresh, PayBuild,
        PayPrepare, PayPaid, VerifyLoad, VerifyRecord, VerifyExpire, VerifyConfirm,
        Broadcast, PayManually, LedgerClose, HorizonIngest, Tick, vars
  <2> QED
    BY <2>1, <2>2, <2>3
<1>2. ASSUME NEW r \in Request, req'[r].pc = "record"
      PROVE  (\E e \in ledger : e.tx = req[r].tx /\ ~Settles(req[r].inv, e))'
  <2>1. PICK i \in Invoice : /\ i = req'[r].inv /\ Issued(i)
                             /\ Unsettling(i, req'[r].tx)
    <3>1. CASE req'[r] = req[r]
      BY <1>2, <3>1 DEF RejectInv, RecordHasReason, HandlesInvoice, Issued
    <3> QED
      BY <1>2, <3>1, VerdictRequests DEF Unsettling
  <2>2. PICK e \in ledger : e.tx = req'[r].tx /\ ~Settles(i, e)
    BY <2>1 DEF Unsettling
  <2>3. e \in ledger' /\ ~Settles(i, e)'
    BY <2>1, <2>2, Stable DEF Settles, VerifyPayment, InWindow
  <2> QED
    BY <2>1, <2>2, <2>3 DEF Settles, VerifyPayment, InWindow
<1> QED
  BY <1>1, <1>2 DEF RejectInv, RejectedHasReason, RecordHasReason, Unsettling

LEMMA RejectInit == Init => RejectInv
BY DEF Init, RejectInv, RejectedHasReason, RecordHasReason, Idle

(* A hash recorded as a rejected attempt of an invoice never confirms it.  *)
THEOREM VerdictsAgree == Spec => []RejectedNeverConfirms
<1>1. TypeInv /\ ConfirmInv /\ RejectInv /\ OnceInv => RejectedNeverConfirms
  <2> SUFFICES ASSUME TypeInv, ConfirmInv, RejectInv, OnceInv,
                      NEW a \in rejected, inv[a.inv].hash = a.tx
               PROVE  FALSE
    BY DEF RejectedNeverConfirms
  <2>1. a.inv \in Invoice /\ a.tx \in Tx
    BY DEF TypeInv, Types
  <2>2. inv[a.inv].status = "confirmed"
    BY <2>1, NoTxAssumption DEF ConfirmInv, HashIffConfirmed
  <2>3. PICK e \in ledger : e.tx = a.tx /\ PaysInTime(a.inv, e)
    BY <2>1, <2>2 DEF ConfirmInv, ConfirmedHasPayment
  <2>4. PICK f \in ledger : f.tx = a.tx /\ ~Settles(a.inv, f)
    BY DEF RejectInv, RejectedHasReason, Unsettling
  <2>5. e = f
    BY <2>3, <2>4 DEF OnceInv, LedgerOnce
  <2> QED
    BY <2>3, <2>4, <2>5 DEF PaysInTime, Settles, VerifyPayment, InWindow
<1> QED
  BY TypeInit, TypeStep, ConfirmInit, ConfirmStepInv, RejectInit, RejectStep, OnceInit,
     OnceStep, <1>1, PTL DEF Spec

(* A good payment is never recorded as a rejected attempt: the ledger has  *)
(* one record of a transaction, and the verdict on it never changes.       *)
THEOREM RejectionIsDeserved == Spec => []TimelyNeverRejected
<1>1. RejectInv /\ OnceInv => TimelyNeverRejected
  <2> SUFFICES ASSUME RejectInv, OnceInv, NEW a \in rejected, NEW e \in ledger,
                      e.tx = a.tx
               PROVE  ~PaysInTime(a.inv, e)
    BY DEF TimelyNeverRejected
  <2>1. PICK f \in ledger : f.tx = a.tx /\ ~Settles(a.inv, f)
    BY DEF RejectInv, RejectedHasReason, Unsettling
  <2> QED
    BY <2>1 DEF OnceInv, LedgerOnce, PaysInTime, Settles, VerifyPayment, InWindow
<1> QED
  BY TypeInit, TypeStep, ConfirmInit, ConfirmStepInv, RejectInit, RejectStep, OnceInit,
     OnceStep, <1>1, PTL DEF Spec

-----------------------------------------------------------------------------
(* The stored procedure agrees with the route: no ledger closes in the     *)
(* future, and a memo names one invoice, so that no other has the hash.    *)
EntriesSoFar == \A e \in Entries : e.at <= now

LEMMA EntriesSoFarStep == TypeInv /\ EntriesSoFar /\ [Next]_vars => EntriesSoFar'
<1> SUFFICES ASSUME TypeInv, EntriesSoFar, [Next]_vars, NEW e \in Entries'
             PROVE  e.at <= now'
  BY DEF EntriesSoFar
<1>1. now \in Nat /\ now' \in Nat /\ now <= now'
  BY Stable
<1>2. CASE e \in Entries
  <2>1. e.at \in Nat /\ e.at <= now
    BY <1>2 DEF TypeInv, Types, Entries, Entry, EntriesSoFar
  <2> QED
    BY <1>1, <2>1
<1> QED
  BY <1>1, <1>2, EntrySteps

LEMMA EntriesSoFarInit == Init => EntriesSoFar
BY DEF Init, EntriesSoFar, Entries

LEMMA AcceptedConfirms ==
  ASSUME TypeInv, ConfirmInv, EntriesSoFar, NEW r \in Request, VerifyConfirm(r)
  PROVE  inv'[req[r].inv].status = "confirmed"
<1> DEFINE i == req[r].inv  tx == req[r].tx  at == req[r].at
<1>1. i \in Invoice /\ inv[i].status \in {"pending", "expired", "confirmed"} /\ at \in Nat
  BY DEF VerifyConfirm, TypeInv, HandlesInvoice, Types, RequestRow, InvoiceRow, Status
<1>2. PICK e \in ledger : e.tx = tx /\ e.at = at /\ Settles(i, e)
  BY DEF VerifyConfirm, ConfirmInv, ConfirmHasPayment
<1>3. Confirmable(i, at)
  BY <1>1, <1>2, ParameterAssumption
  DEF Settles, Confirmable, EntriesSoFar, Entries, TypeInv, Types
<1>4. ASSUME NEW j \in Invoice \ {i}, inv[j].hash = tx
      PROVE  FALSE
  <2>1. tx # NoTx
    BY <1>1, NoTxAssumption DEF VerifyConfirm, TypeInv, HandlesInvoice
  <2>2. PICK f \in ledger : f.tx = inv[j].hash /\ PaysInTime(j, f)
    BY <1>4, <2>1 DEF ConfirmInv, HashIffConfirmed, ConfirmedHasPayment
  <2> QED
    BY <1>2, <1>4, <2>2 DEF PaysInTime, Settles, VerifyPayment
<1>5. CASE UNCHANGED inv /\ inv[i].status = "confirmed"
  BY <1>5
<1>6. CASE inv' = [inv EXCEPT ![i].status = "confirmed", ![i].hash = tx, ![i].paidAt = at]
  BY <1>1, <1>6 DEF TypeInv, Types, InvoiceRow
<1> QED
  BY <1>1, <1>3, <1>4, <1>5, <1>6 DEF VerifyConfirm, ConfirmInvoice

(* Once the route has accepted a payment, confirm_invoice confirms.        *)
THEOREM ProcedureAgrees == Spec => AcceptedIsConfirmed
<1>1. TypeInv /\ ConfirmInv /\ EntriesSoFar /\ [Next]_vars =>
        [\A r \in Request : VerifyConfirm(r) => inv'[req[r].inv].status = "confirmed"]_vars
  BY AcceptedConfirms
<1> QED
  BY TypeInit, TypeStep, ConfirmInit, ConfirmStepInv, EntriesSoFarInit, EntriesSoFarStep,
     <1>1, PTL DEF Spec, AcceptedIsConfirmed

-----------------------------------------------------------------------------
(* Refinement.  Nothing pays an invoice that does not exist, so a new one  *)
(* is not settled.                                                         *)
EntriesIssued == \A e \in Entries : Issued(e.tx.memo)

LEMMA EntriesIssuedStep ==
  TypeInv /\ OfferInv /\ LedgerInv /\ EntriesIssued /\ [Next]_vars => EntriesIssued'
<1> SUFFICES ASSUME TypeInv, OfferInv, LedgerInv, EntriesIssued, [Next]_vars,
                    NEW e \in Entries'
             PROVE  inv'[e.tx.memo].status # "absent"
  BY DEF EntriesIssued, Issued
<1>1. e.tx.memo \in Invoice
  BY EntrySteps DEF TypeInv, Types, Entries, Entry, Tx
<1>2. CASE e \in Entries
  BY <1>1, <1>2, Stable DEF EntriesIssued, Issued
<1>3. CASE e.tx \in signed
  BY <1>1, <1>3, Stable DEF LedgerInv, SignedOffered, OfferInv, OfferedFits, Fits, Issued
<1>4. CASE Issued(e.tx.memo)
  BY <1>1, <1>4, Stable DEF Issued
<1> QED
  BY <1>2, <1>3, <1>4, EntrySteps

(* The abstract state.                                                     *)
StatusOf == [i \in Invoice |-> inv[i].status]
Settled == {i \in Invoice : inv[i].status # "absent" /\ HasSettled(i)}
Lapsed == {i \in Invoice : inv[i].status # "absent" /\ inv[i].due <= now}

(* A step of a row that is neither issued nor paid nor overtaken by the    *)
(* clock changes nothing but its status.                                   *)
LEMMA SameRow ==
  ASSUME TypeInv, [Next]_vars, UNCHANGED <<now, ledger>>, NEW i \in Invoice, Issued(i)
  PROVE  (i \in Settled' <=> i \in Settled) /\ (i \in Lapsed' <=> i \in Lapsed)
BY Stable DEF Settled, Lapsed, HasSettled, PaysInTime, Issued

LEMMA SameSets ==
  ASSUME TypeInv, [Next]_vars, UNCHANGED <<now, ledger>>,
         \A i \in Invoice : inv'[i].status # "absent" => Issued(i)
  PROVE  Settled' = Settled /\ Lapsed' = Lapsed
<1>1. \A i \in Invoice : (i \in Settled' <=> i \in Settled) /\ (i \in Lapsed' <=> i \in Lapsed)
  <2> TAKE i \in Invoice
  <2>1. CASE Issued(i)
    BY <2>1, SameRow
  <2>2. CASE ~Issued(i)
    BY <2>2 DEF Settled, Lapsed, Issued
  <2> QED
    BY <2>1, <2>2
<1> QED
  BY <1>1 DEF Settled, Lapsed

LEMMA ExpireRefines ==
  ASSUME TypeInv, [Next]_vars, UNCHANGED <<now, ledger>>, NEW i \in Invoice,
         ExpireInvoice(i)
  PROVE  \/ Lifecycle!Expire(i)
         \/ UNCHANGED <<StatusOf, Settled, Lapsed>>
<1>1. CASE UNCHANGED inv
  BY <1>1, SameSets DEF StatusOf, Issued
<1>2. CASE /\ inv[i].status = "pending" /\ inv[i].due <= now
           /\ inv' = [inv EXCEPT ![i].status = "expired"]
  <2>1. /\ inv'[i].status = "expired"
        /\ \A j \in Invoice \ {i} : inv'[j] = inv[j]
    BY <1>2 DEF TypeInv, Types, InvoiceRow
  <2>2. Settled' = Settled /\ Lapsed' = Lapsed
    BY <1>2, <2>1, SameSets DEF Issued
  <2>3. StatusOf' = [StatusOf EXCEPT ![i] = "expired"]
    BY <2>1 DEF StatusOf
  <2> QED
    BY <1>2, <2>2, <2>3 DEF Lifecycle!Expire, StatusOf, Settled, Lapsed
<1> QED
  BY <1>1, <1>2 DEF ExpireInvoice

LEMMA ConfirmRefines ==
  ASSUME TypeInv, ConfirmInv, [Next]_vars, NEW r \in Request, VerifyConfirm(r)
  PROVE  \/ \E i \in Invoice : Lifecycle!Expire(i) \/ Lifecycle!Confirm(i)
         \/ UNCHANGED <<StatusOf, Settled, Lapsed>>
<1>1. PICK i \in Invoice : i = req[r].inv /\ Issued(i)
  BY DEF VerifyConfirm, TypeInv, HandlesInvoice, Issued
<1>2. UNCHANGED <<now, ledger>>
  BY DEF VerifyConfirm
<1>3. CASE ExpireInvoice(i)
  BY <1>2, <1>3, ExpireRefines
<1>4. CASE UNCHANGED inv
  BY <1>2, <1>4, SameSets DEF StatusOf, Issued
<1>5. CASE /\ inv[i].status \in {"pending", "expired"}
           /\ inv' = [inv EXCEPT ![i].status = "confirmed", ![i].hash = req[r].tx,
                                 ![i].paidAt = req[r].at]
  <2>1. /\ inv'[i].status = "confirmed"
        /\ \A j \in Invoice \ {i} : inv'[j] = inv[j]
    BY <1>5 DEF TypeInv, Types, InvoiceRow
  <2>2. Settled' = Settled /\ Lapsed' = Lapsed
    BY <1>1, <1>2, <2>1, SameSets DEF Issued
  <2>3. StatusOf' = [StatusOf EXCEPT ![i] = "confirmed"]
    BY <2>1 DEF StatusOf
  <2>4. i \in Settled
    <3>1. PICK e \in ledger : Settles(i, e)
      BY <1>1 DEF VerifyConfirm, ConfirmInv, ConfirmHasPayment
    <3> QED
      BY <1>1, <3>1
      DEF Settled, HasSettled, PaysInTime, Settles, VerifyPayment, InWindow, Issued
  <2> QED
    BY <1>5, <2>2, <2>3, <2>4 DEF Lifecycle!Confirm, StatusOf, Settled, Lapsed
<1> QED
  BY <1>1, <1>3, <1>4, <1>5 DEF VerifyConfirm, ConfirmInvoice

LEMMA CreateRefines ==
  ASSUME TypeInv, EntriesIssued, [Next]_vars, NEW i \in Invoice, NEW due \in 1..MaxTime,
         CreateInvoice(i, due)
  PROVE  Lifecycle!Issue(i)
<1>1. /\ inv'[i].status = "pending"
      /\ \A j \in Invoice \ {i} : inv'[j] = inv[j]
      /\ inv[i].status = "absent" /\ UNCHANGED <<now, ledger>>
  BY DEF CreateInvoice, Absent, TypeInv, Types
<1>2. ~HasSettled(i)'
  BY <1>1 DEF HasSettled, PaysInTime, EntriesIssued, Entries, Issued
<1>3. \A j \in Invoice \ {i} : HasSettled(j)' <=> HasSettled(j)
  BY <1>1 DEF HasSettled, PaysInTime
<1>4. Settled' = Settled
  BY <1>1, <1>2, <1>3 DEF Settled
<1>5. Lapsed' \in {Lapsed, Lapsed \cup {i}} /\ i \notin Settled \cup Lapsed
  BY <1>1 DEF Settled, Lapsed
<1>6. StatusOf' = [StatusOf EXCEPT ![i] = "pending"]
  BY <1>1 DEF StatusOf
<1> QED
  BY <1>1, <1>4, <1>5, <1>6 DEF Lifecycle!Issue, StatusOf, Settled, Lapsed

LEMMA IngestRefines ==
  ASSUME TypeInv, [Next]_vars, NEW e \in closed, HorizonIngest(e)
  PROVE  \/ \E i \in Invoice : Lifecycle!Settle(i)
         \/ UNCHANGED <<StatusOf, Settled, Lapsed>>
<1>1. UNCHANGED <<now, inv>> /\ ledger' = ledger \cup {e} /\ e.tx.memo \in Invoice
  BY DEF HorizonIngest, TypeInv, Types, Entry, Tx
<1>2. UNCHANGED <<StatusOf, Lapsed>>
  BY <1>1 DEF StatusOf, Lapsed
<1>3. \A i \in Invoice : HasSettled(i)' <=> HasSettled(i) \/ PaysInTime(i, e)
  BY <1>1 DEF HasSettled, PaysInTime
<1>4. CASE Issued(e.tx.memo) /\ PaysInTime(e.tx.memo, e)
  <2>1. Settled' = Settled \cup {e.tx.memo}
    BY <1>1, <1>3, <1>4 DEF Settled, Issued, PaysInTime
  <2> QED
    BY <1>1, <1>2, <1>4, <2>1 DEF Lifecycle!Settle, StatusOf, Settled, Lapsed, Issued
<1>5. CASE ~(Issued(e.tx.memo) /\ PaysInTime(e.tx.memo, e))
  BY <1>1, <1>2, <1>3, <1>5 DEF Settled, Issued, PaysInTime
<1> QED
  BY <1>4, <1>5

LEMMA TickRefines ==
  ASSUME TypeInv, Tick
  PROVE  Lifecycle!Lapse
<1>1. now \in Nat /\ now' = now + 1 /\ UNCHANGED <<inv, ledger>>
  BY DEF TypeInv, Types, Tick
<1>2. UNCHANGED <<StatusOf, Settled>>
  BY <1>1 DEF StatusOf, Settled, HasSettled, PaysInTime
<1>3. \A i \in Invoice : inv[i].due \in Nat
  BY DEF TypeInv, Types, InvoiceRow
<1>4. Lapsed \subseteq Lapsed' /\ Lapsed' \subseteq {i \in Invoice : inv[i].status # "absent"}
  BY <1>1, <1>3 DEF Lapsed
<1> QED
  BY <1>2, <1>4 DEF Lifecycle!Lapse, StatusOf, Settled, Lapsed

(* The other steps change no status, no ledger and no clock.               *)
LEMMA OthersRefine ==
  ASSUME TypeInv, [Next]_vars, UNCHANGED <<now, ledger>>,
         \A i \in Invoice : inv'[i].status = inv[i].status
  PROVE  UNCHANGED <<StatusOf, Settled, Lapsed>>
BY SameSets DEF StatusOf, Issued

LEMMA LifecycleStep ==
  TypeInv /\ ConfirmInv /\ EntriesIssued /\ [Next]_vars =>
    [Lifecycle!Next]_(Lifecycle!lifecycle)
<1> SUFFICES ASSUME TypeInv, ConfirmInv, EntriesIssued, [Next]_vars
             PROVE  Lifecycle!Next \/ UNCHANGED <<StatusOf, Settled, Lapsed>>
  BY DEF Lifecycle!lifecycle, StatusOf, Settled, Lapsed
<1>1. ASSUME NEW i \in Invoice, NEW due \in 1..MaxTime, CreateInvoice(i, due)
      PROVE  Lifecycle!Next
  BY <1>1, CreateRefines DEF Lifecycle!Next
<1>2. ASSUME NEW r \in Request, Handle(r)
      PROVE  Lifecycle!Next \/ UNCHANGED <<StatusOf, Settled, Lapsed>>
  <2>1. CASE VerifyConfirm(r)
    BY <2>1, ConfirmRefines DEF Lifecycle!Next
  <2>2. CASE VerifyExpire(r)
    <3>1. PICK i \in Invoice : ExpireInvoice(i) /\ UNCHANGED <<now, ledger>>
      BY <2>2 DEF VerifyExpire, TypeInv, HandlesInvoice
    <3> QED
      BY <3>1, ExpireRefines DEF Lifecycle!Next
  <2>3. CASE PayPrepare(r)
    <3>1. /\ UNCHANGED <<now, ledger>>
          /\ \A i \in Invoice : inv'[i].status = inv[i].status
      BY <2>3 DEF PayPrepare, TypeInv, HandlesInvoice, Types, InvoiceRow
    <3> QED
      BY <3>1, OthersRefine
  <2>4. CASE UNCHANGED <<now, inv, ledger>>
    BY <2>4, OthersRefine
  <2> QED
    BY <1>2, <2>1, <2>2, <2>3, <2>4
    DEF Handle, PayExists, PayFresh, PayBuild, PayPaid, VerifyLoad, VerifyRecord
<1>3. ASSUME NEW e \in closed, HorizonIngest(e)
      PROVE  Lifecycle!Next \/ UNCHANGED <<StatusOf, Settled, Lapsed>>
  BY <1>3, IngestRefines DEF Lifecycle!Next
<1>4. CASE Tick
  BY <1>4, TickRefines DEF Lifecycle!Next
<1>5. CASE UNCHANGED <<now, inv, ledger>>
  BY <1>5, OthersRefine
<1> QED
  BY <1>1, <1>2, <1>3, <1>4, <1>5, NextCases
  DEF PayRead, VerifyRead, Abort, Broadcast, PayManually, LedgerClose, vars

LEMMA LifecycleInit == Init => Lifecycle!Init /\ EntriesIssued
<1> SUFFICES ASSUME Init PROVE Lifecycle!Init /\ EntriesIssued
  OBVIOUS
<1>1. \A i \in Invoice : inv[i].status = "absent"
  BY DEF Init, Absent
<1>2. StatusOf = [i \in Invoice |-> "absent"] /\ Settled = {} /\ Lapsed = {}
  BY <1>1 DEF StatusOf, Settled, Lapsed
<1> QED
  BY <1>2 DEF Init, Lifecycle!Init, StatusOf, Settled, Lapsed, EntriesIssued, Entries

(* The tables, requests and ledger implement the abstract lifecycle: each  *)
(* step issues, settles, confirms or expires one invoice as the lifecycle  *)
(* allows, lets some fall due, or is none of its business.                 *)
THEOREM LifecycleImplemented == Spec => RefinesLifecycle
BY TypeInit, TypeStep, ConfirmInit, ConfirmStepInv, OfferInit, OfferStep, LedgerInit,
   LedgerStep, EntriesIssuedStep, LifecycleInit, LifecycleStep, PTL
DEF Spec, RefinesLifecycle, Lifecycle!Spec

-----------------------------------------------------------------------------
(* What the lifecycle promises follows from it alone, without requests,    *)
(* transactions or clocks.                                                 *)
LEMMA HonestStep ==
  ASSUME Lifecycle!Honest, [Lifecycle!Next]_(Lifecycle!lifecycle)
  PROVE  Lifecycle!Honest' /\ \A i \in Invoice : Lifecycle!MovesOn(i)
<1> USE DEF Lifecycle!Honest, Lifecycle!MovesOn
<1>1. CASE Lifecycle!Lapse
  BY <1>1 DEF Lifecycle!Lapse
<1>2. ASSUME NEW i \in Invoice, Lifecycle!Issue(i)
      PROVE  Lifecycle!Honest' /\ \A j \in Invoice : Lifecycle!MovesOn(j)
  BY <1>2 DEF Lifecycle!Issue
<1>3. ASSUME NEW i \in Invoice, Lifecycle!Settle(i)
      PROVE  Lifecycle!Honest' /\ \A j \in Invoice : Lifecycle!MovesOn(j)
  BY <1>3 DEF Lifecycle!Settle
<1>4. ASSUME NEW i \in Invoice, Lifecycle!Confirm(i)
      PROVE  Lifecycle!Honest' /\ \A j \in Invoice : Lifecycle!MovesOn(j)
  BY <1>4 DEF Lifecycle!Confirm
<1>5. ASSUME NEW i \in Invoice, Lifecycle!Expire(i)
      PROVE  Lifecycle!Honest' /\ \A j \in Invoice : Lifecycle!MovesOn(j)
  BY <1>5 DEF Lifecycle!Expire
<1>6. CASE UNCHANGED Lifecycle!lifecycle
  BY <1>6 DEF Lifecycle!lifecycle
<1> QED
  BY <1>1, <1>2, <1>3, <1>4, <1>5, <1>6 DEF Lifecycle!Next

(* The abstract lifecycle says the truth about an invoice and only moves   *)
(* on.                                                                     *)
THEOREM LifecycleIsHonest == Lifecycle!Spec => []Lifecycle!Honest /\ Lifecycle!Orderly
<1>1. Lifecycle!Init => Lifecycle!Honest
  BY DEF Lifecycle!Init, Lifecycle!Honest
<1> QED
  BY <1>1, HonestStep, PTL DEF Lifecycle!Spec, Lifecycle!Orderly

(* And so does the service: a status never says what is not so.            *)
THEOREM ServiceIsHonest == Spec => []Lifecycle!Honest /\ Lifecycle!Orderly
BY LifecycleImplemented, LifecycleIsHonest DEF RefinesLifecycle

=============================================================================
