------------------------ MODULE InvoicePaymentProofs ------------------------
(***************************************************************************)
(* Proofs about InvoicePayment for every set of invoices, debtors and      *)
(* requests and every value of the time constants.                         *)
(***************************************************************************)
EXTENDS InvoicePayment, TLAPS

(* The steps of one request, apart from those that start one.              *)
LEMMA NextCases ==
  ASSUME Next
  PROVE  \/ \E i \in Invoice, due \in 1..MaxTime : CreateInvoice(i, due)
         \/ \E r \in Request, i \in Invoice : PayRead(r, i)
         \/ \E r \in Request, i \in Invoice, tx \in KnownTx : VerifyRead(r, i, tx)
         \/ \E r \in Request : Handle(r) \/ Abort(r)
         \/ \E tx \in offered : Broadcast(tx)
         \/ \E d \in Debtor, i \in Invoice, exact \in Manual, ok \in BOOLEAN :
              PayManually(d, i, exact, ok)
         \/ \E tx \in signed, ok \in BOOLEAN : LedgerClose(tx, ok)
         \/ \E e \in closed : HorizonIngest(e)
         \/ Tick
BY DEF Next, Handle

-----------------------------------------------------------------------------
(* Type correctness.  A request past its first step handles an existing    *)
(* invoice, and one past the build has a transaction.                      *)

HandlesInvoice ==
    \A r \in Request : req[r].pc # "idle" =>
      /\ req[r].inv \in Invoice
      /\ inv[req[r].inv].status # "absent"
      /\ req[r].pc # "build" => req[r].tx \in Tx

(* The type invariant strengthened to an inductive one.                    *)
TypeInv == Types /\ HandlesInvoice

LEMMA TxBuilt ==
  ASSUME Types, NEW i \in Invoice
  PROVE  InvoicePaymentTx(i) \in Tx
BY ParameterAssumption DEF Types, InvoicePaymentTx, Tx, Earliest, InvoiceRow

LEMMA IdleRow == Idle \in RequestRow
BY DEF Idle, RequestRow, Pc

LEMMA AbsentRow == Absent \in InvoiceRow
BY DEF Absent, InvoiceRow, Status

(* A request that ends, while no row disappears, leaves the requests well  *)
(* typed.                                                                  *)
LEMMA FinishTypes ==
  ASSUME TypeInv, NEW r \in Request, Finish(r),
         \A j \in Invoice : inv[j].status # "absent" => inv'[j].status # "absent"
  PROVE  req' \in [Request -> RequestRow] /\ HandlesInvoice'
BY IdleRow DEF TypeInv, Types, Finish, HandlesInvoice, Idle

LEMMA ExpireTypes ==
  ASSUME Types, NEW i \in Invoice, ExpireInvoice(i)
  PROVE  /\ inv' \in [Invoice -> InvoiceRow]
         /\ \A j \in Invoice : inv[j].status # "absent" => inv'[j].status # "absent"
BY DEF Types, ExpireInvoice, InvoiceRow, Status

LEMMA ConfirmTypes ==
  ASSUME Types, NEW i \in Invoice, NEW tx \in Tx, NEW at \in Nat, ConfirmInvoice(i, tx, at)
  PROVE  /\ inv' \in [Invoice -> InvoiceRow]
         /\ \A j \in Invoice : inv[j].status # "absent" => inv'[j].status # "absent"
<1>1. CASE ExpireInvoice(i)
  BY <1>1, ExpireTypes
<1>2. CASE UNCHANGED inv
  BY <1>2 DEF Types
<1>3. CASE inv' = [inv EXCEPT ![i].status = "confirmed", ![i].hash = tx, ![i].paidAt = at]
  BY <1>3 DEF Types, InvoiceRow, Status
<1> QED
  BY <1>1, <1>2, <1>3 DEF ConfirmInvoice

LEMMA TypeStep == TypeInv /\ [Next]_vars => TypeInv'
<1> SUFFICES ASSUME TypeInv, [Next]_vars PROVE TypeInv'
  OBVIOUS
<1> USE DEF TypeInv
<1>1. ASSUME NEW i \in Invoice, NEW due \in 1..MaxTime, CreateInvoice(i, due)
      PROVE  TypeInv'
  <2>1. due \in Nat
    BY ParameterAssumption
  <2>2. [Absent EXCEPT !.status = "pending", !.created = now, !.due = due] \in InvoiceRow
    BY <2>1, AbsentRow DEF Types, InvoiceRow, Status
  <2>3. inv' \in [Invoice -> InvoiceRow]
    BY <1>1, <2>2 DEF CreateInvoice, Types
  <2>4. \A j \in Invoice : inv[j].status # "absent" => inv'[j].status # "absent"
    BY <1>1 DEF CreateInvoice, Types
  <2> QED
    BY <1>1, <2>3, <2>4 DEF CreateInvoice, Types, HandlesInvoice
<1>2. ASSUME NEW r \in Request, NEW i \in Invoice, PayRead(r, i)
      PROVE  TypeInv'
  BY <1>2 DEF PayRead, Payable, Types, HandlesInvoice, RequestRow, Pc, Idle, InvoiceRow
<1>3. ASSUME NEW r \in Request, NEW i \in Invoice, NEW tx \in KnownTx, VerifyRead(r, i, tx)
      PROVE  TypeInv'
  <2>1. tx \in Tx
    BY DEF KnownTx, Types, Entry
  <2> QED
    BY <1>3, <2>1 DEF VerifyRead, Types, HandlesInvoice, RequestRow, Pc, Idle
<1>4. ASSUME NEW r \in Request, Abort(r)
      PROVE  TypeInv'
  BY <1>4, IdleRow DEF Abort, Finish, Types, HandlesInvoice, Idle
<1>5. ASSUME NEW r \in Request, Handle(r)
      PROVE  TypeInv'
  <2>1. CASE PayExists(r)
    BY <2>1 DEF PayExists, Goto, Types, HandlesInvoice, RequestRow, Pc
  <2>2. CASE PayFresh(r)
    <3>1. req[r].tx \in Tx
      BY <2>2 DEF PayFresh, HandlesInvoice
    <3>2. CASE Finish(r)
      BY <2>2, <3>1, <3>2, FinishTypes DEF PayFresh, Types
    <3>3. CASE Goto(r, "build")
      BY <2>2, <3>1, <3>3 DEF PayFresh, Goto, Types, HandlesInvoice, RequestRow, Pc
    <3> QED
      BY <2>2, <3>2, <3>3 DEF PayFresh
  <2>3. CASE PayBuild(r)
    <3>1. InvoicePaymentTx(req[r].inv) \in Tx
      BY <2>3, TxBuilt DEF PayBuild, HandlesInvoice
    <3>2. CASE Finish(r)
      BY <2>3, <3>2, FinishTypes DEF PayBuild, Types
    <3>3. CASE req' = [req EXCEPT ![r].pc = "prepare", ![r].at = now,
                                  ![r].tx = InvoicePaymentTx(req[r].inv)]
      BY <2>3, <3>1, <3>3 DEF PayBuild, Types, HandlesInvoice, RequestRow, Pc
    <3>4. Finish(r) \/ req' = [req EXCEPT ![r].pc = "prepare", ![r].at = now,
                                          ![r].tx = InvoicePaymentTx(req[r].inv)]
      BY <2>3 DEF PayBuild, Types, RequestRow
    <3> QED
      BY <3>2, <3>3, <3>4
  <2>4. CASE PayPrepare(r)
    <3>1. req[r].tx \in Tx /\ req[r].inv \in Invoice
      BY <2>4 DEF PayPrepare, HandlesInvoice
    <3>2. inv' \in [Invoice -> InvoiceRow] /\ offered' \subseteq Tx
      BY <2>4, <3>1 DEF PayPrepare, Types, InvoiceRow, StillPrepared
    <3>3. \A i \in Invoice : inv'[i].status = inv[i].status
      BY <2>4, <3>1 DEF PayPrepare, Types, InvoiceRow
    <3> QED
      BY <2>4, <3>2, <3>3, IdleRow DEF PayPrepare, Finish, Types, HandlesInvoice, Idle
  <2>5. CASE PayPaid(r)
    BY <2>5, IdleRow DEF PayPaid, Finish, Types, HandlesInvoice, Idle
  <2>6. CASE VerifyLoad(r)
    <3>1. CASE Finish(r)
      BY <2>6, <3>1, FinishTypes DEF VerifyLoad, Types
    <3>2. ASSUME NEW e \in ledger, NEW pc \in {"confirm", "record"},
                 req' = [req EXCEPT ![r].pc = pc, ![r].at = e.at]
          PROVE  TypeInv'
      <4>1. e.at \in Nat
        BY DEF Types, Entry
      <4>2. req[r].inv \in Invoice /\ req[r].tx \in Tx /\ inv[req[r].inv].status # "absent"
        BY <2>6 DEF VerifyLoad, HandlesInvoice
      <4>3. [req[r] EXCEPT !.pc = pc, !.at = e.at] \in RequestRow
        BY <4>1 DEF Types, RequestRow, Pc
      <4>4. req' \in [Request -> RequestRow]
        BY <3>2, <4>3 DEF Types
      <4>5. /\ req'[r].inv = req[r].inv /\ req'[r].tx = req[r].tx
            /\ \A q \in Request \ {r} : req'[q] = req[q]
        BY <3>2 DEF Types, RequestRow
      <4>6. HandlesInvoice'
        BY <2>6, <4>2, <4>5 DEF VerifyLoad, HandlesInvoice
      <4> QED
        BY <2>6, <4>4, <4>6 DEF VerifyLoad, Types
    <3> QED
      BY <2>6, <3>1, <3>2 DEF VerifyLoad
  <2>7. CASE VerifyRecord(r)
    <3>1. req[r].tx \in Tx /\ req[r].inv \in Invoice
      BY <2>7 DEF VerifyRecord, HandlesInvoice
    <3>2. rejected' \subseteq [inv : Invoice, tx : Tx]
      BY <2>7, <3>1 DEF VerifyRecord, Types
    <3>3. CASE Finish(r)
      BY <2>7, <3>2, <3>3, FinishTypes DEF VerifyRecord, Types
    <3>4. CASE Goto(r, "expire")
      BY <2>7, <3>1, <3>2, <3>4
      DEF VerifyRecord, Goto, Types, HandlesInvoice, RequestRow, Pc
    <3> QED
      BY <2>7, <3>3, <3>4 DEF VerifyRecord
  <2>8. CASE VerifyExpire(r)
    <3>1. req[r].inv \in Invoice
      BY <2>8 DEF VerifyExpire, HandlesInvoice
    <3> QED
      BY <2>8, <3>1, ExpireTypes, IdleRow
      DEF VerifyExpire, Finish, Types, HandlesInvoice, Idle
  <2>9. CASE VerifyConfirm(r)
    <3>1. req[r].tx \in Tx /\ req[r].inv \in Invoice /\ req[r].at \in Nat
      BY <2>9 DEF VerifyConfirm, HandlesInvoice, Types, RequestRow
    <3> QED
      BY <2>9, <3>1, ConfirmTypes, IdleRow
      DEF VerifyConfirm, Finish, Types, HandlesInvoice, Idle
  <2> QED
    BY <1>5, <2>1, <2>2, <2>3, <2>4, <2>5, <2>6, <2>7, <2>8, <2>9 DEF Handle
<1>6. ASSUME NEW tx \in offered, Broadcast(tx)
      PROVE  TypeInv'
  BY <1>6 DEF Broadcast, Types, HandlesInvoice
<1>7. ASSUME NEW tx \in Tx, NEW ok \in BOOLEAN, LedgerClose(tx, ok)
      PROVE  TypeInv'
  BY <1>7 DEF LedgerClose, Types, HandlesInvoice, Entry
<1>8. ASSUME NEW d \in Debtor, NEW i \in Invoice, NEW exact \in Manual, NEW ok \in BOOLEAN,
             PayManually(d, i, exact, ok)
      PROVE  TypeInv'
  <2>1. ManualTx(d, i, exact) \in Tx
    BY ParameterAssumption DEF ManualTx, Tx, Types
  <2> QED
    BY <1>7, <1>8, <2>1 DEF PayManually
<1>9. ASSUME NEW e \in closed, HorizonIngest(e)
      PROVE  TypeInv'
  BY <1>9 DEF HorizonIngest, Types, HandlesInvoice, Entry, Tx
<1>10. CASE Tick
  BY <1>10 DEF Tick, Types, HandlesInvoice
<1>11. CASE UNCHANGED vars
  BY <1>11 DEF vars, Types, HandlesInvoice
<1>12. \A tx \in signed : tx \in Tx
  BY DEF Types
<1> QED
  BY <1>1, <1>2, <1>3, <1>4, <1>5, <1>6, <1>7, <1>8, <1>9, <1>10, <1>11, <1>12, NextCases

LEMMA TypeInit == Init => TypeInv
<1> SUFFICES ASSUME Init PROVE TypeInv
  OBVIOUS
<1>1. inv \in [Invoice -> InvoiceRow]
  BY AbsentRow DEF Init
<1>2. req \in [Request -> RequestRow]
  BY IdleRow DEF Init
<1>3. HandlesInvoice
  BY DEF Init, HandlesInvoice, Idle
<1> QED
  BY <1>1, <1>2, <1>3 DEF Init, TypeInv, Types

-----------------------------------------------------------------------------
(* How one step may change the row of an invoice: it is issued, its        *)
(* prepared payment is replaced, it expires, or a verification whose       *)
(* ledger record was accepted confirms it.                                 *)
Issued(i) == inv[i].status # "absent"

IssueStep(i) ==
    /\ ~Issued(i)
    /\ \E due \in 1..MaxTime :
         inv'[i] = [Absent EXCEPT !.status = "pending", !.created = now, !.due = due]
PrepareStep(i) ==
    /\ inv[i].status = "pending"
    /\ \E r \in Request :
         /\ req[r].pc = "prepare" /\ req[r].inv = i
         /\ ~StillPrepared(i, req[r].at) /\ ValidExpiry(req[r].tx, req[r].at)
         /\ inv'[i] = [inv[i] EXCEPT !.prep = req[r].tx]
         /\ offered' = offered \cup {req[r].tx}
ExpireStep(i) ==
    /\ inv[i].status = "pending" /\ inv[i].due <= now
    /\ inv'[i] = [inv[i] EXCEPT !.status = "expired"]
ConfirmStep(i) ==
    /\ inv[i].status \in {"pending", "expired"}
    /\ \E r \in Request :
         /\ req[r].pc = "confirm" /\ req[r].inv = i
         /\ inv'[i] = [inv[i] EXCEPT !.status = "confirmed", !.hash = req[r].tx,
                                     !.paidAt = req[r].at]

RowStep(i) ==
    \/ inv'[i] = inv[i]
    \/ IssueStep(i) \/ PrepareStep(i) \/ ExpireStep(i) \/ ConfirmStep(i)

LEMMA ExpireRowStep ==
  ASSUME Types, NEW i \in Invoice, ExpireInvoice(i), NEW j \in Invoice
  PROVE  inv'[j] = inv[j] \/ ExpireStep(j)
BY DEF ExpireInvoice, ExpireStep, Types, InvoiceRow

LEMMA RowSteps ==
  ASSUME TypeInv, [Next]_vars, NEW j \in Invoice
  PROVE  RowStep(j)
<1> USE DEF TypeInv
<1>1. ASSUME NEW i \in Invoice, NEW due \in 1..MaxTime, CreateInvoice(i, due)
      PROVE  RowStep(j)
  BY <1>1 DEF CreateInvoice, RowStep, IssueStep, Issued, Types
<1>2. ASSUME NEW r \in Request, Handle(r)
      PROVE  RowStep(j)
  <2>1. CASE PayPrepare(r)
    <3>1. req[r].inv \in Invoice
      BY <2>1 DEF PayPrepare, HandlesInvoice
    <3> QED
      BY <2>1, <3>1 DEF PayPrepare, Preparable, RowStep, PrepareStep, Types
  <2>2. CASE VerifyExpire(r)
    <3>1. req[r].inv \in Invoice
      BY <2>2 DEF VerifyExpire, HandlesInvoice
    <3> QED
      BY <2>2, <3>1, ExpireRowStep DEF VerifyExpire, RowStep
  <2>3. CASE VerifyConfirm(r)
    <3>1. req[r].inv \in Invoice
      BY <2>3 DEF VerifyConfirm, HandlesInvoice
    <3>2. CASE ExpireInvoice(req[r].inv)
      BY <3>1, <3>2, ExpireRowStep DEF RowStep
    <3>3. CASE UNCHANGED inv
      BY <3>3 DEF RowStep
    <3>4. CASE /\ inv[req[r].inv].status \in {"pending", "expired"}
               /\ inv' = [inv EXCEPT ![req[r].inv].status = "confirmed",
                                     ![req[r].inv].hash = req[r].tx,
                                     ![req[r].inv].paidAt = req[r].at]
      BY <2>3, <3>1, <3>4 DEF VerifyConfirm, RowStep, ConfirmStep, Types, InvoiceRow
    <3> QED
      BY <2>3, <3>2, <3>3, <3>4 DEF VerifyConfirm, ConfirmInvoice
  <2> QED
    BY <1>2, <2>1, <2>2, <2>3
    DEF Handle, RowStep, PayExists, PayFresh, PayBuild, PayPaid, VerifyLoad, VerifyRecord
<1>3. CASE UNCHANGED inv
  BY <1>3 DEF RowStep
<1> QED
  BY <1>1, <1>2, <1>3, NextCases
  DEF PayRead, VerifyRead, Abort, Broadcast, PayManually, LedgerClose, HorizonIngest, Tick, vars

(* What is agreed about an issued invoice stays; the ledger only grows.    *)
LEMMA Stable ==
  ASSUME TypeInv, [Next]_vars
  PROVE  /\ \A i \in Invoice : Issued(i) =>
              /\ Issued(i)'
              /\ inv'[i].created = inv[i].created /\ inv'[i].due = inv[i].due
         /\ ledger \subseteq ledger'
         /\ now \in Nat /\ now' \in Nat /\ now <= now'
<1>1. ASSUME NEW i \in Invoice, Issued(i)
      PROVE  /\ Issued(i)'
             /\ inv'[i].created = inv[i].created /\ inv'[i].due = inv[i].due
  <2>1. inv[i] \in InvoiceRow
    BY DEF TypeInv, Types
  <2> QED
    <3>1. CASE PrepareStep(i)
      BY <1>1, <2>1, <3>1 DEF PrepareStep, Issued, InvoiceRow
    <3>2. CASE ExpireStep(i)
      BY <1>1, <2>1, <3>2 DEF ExpireStep, Issued, InvoiceRow
    <3>3. CASE ConfirmStep(i)
      BY <1>1, <2>1, <3>3 DEF ConfirmStep, Issued, InvoiceRow
    <3> QED
      BY <1>1, <3>1, <3>2, <3>3, RowSteps DEF RowStep, IssueStep, Issued
<1>2. ledger \subseteq ledger'
  BY NextCases
  DEF CreateInvoice, PayRead, VerifyRead, Abort, Handle, PayExists, PayFresh, PayBuild,
      PayPrepare, PayPaid, VerifyLoad, VerifyRecord, VerifyExpire, VerifyConfirm,
      Broadcast, PayManually, LedgerClose, HorizonIngest, Tick, vars
<1>3. now \in Nat /\ (now' = now \/ now' = now + 1)
  BY NextCases
  DEF CreateInvoice, PayRead, VerifyRead, Abort, Handle, PayExists, PayFresh, PayBuild,
      PayPrepare, PayPaid, VerifyLoad, VerifyRecord, VerifyExpire, VerifyConfirm,
      Broadcast, PayManually, LedgerClose, HorizonIngest, Tick, vars, TypeInv, Types
<1> QED
  BY <1>1, <1>2, <1>3

-----------------------------------------------------------------------------
(* Verification.  A request that goes on to confirm holds a payment of its *)
(* invoice that the ledger shows.                                          *)
ConfirmHasPayment ==
    \A r \in Request : req[r].pc = "confirm" =>
      \E e \in ledger : e.tx = req[r].tx /\ e.at = req[r].at /\ Settles(req[r].inv, e)

(* The CHECK constraint of the table: only a confirmed row has a hash.     *)
HashIffConfirmed ==
    \A i \in Invoice : inv[i].status # "confirmed" => inv[i].hash = NoTx

ConfirmInv == ConfirmedHasPayment /\ HashIffConfirmed /\ ConfirmHasPayment

(* An accepted record stays accepted: it depends only on what is stable.   *)
LEMMA SettlesStable ==
  ASSUME TypeInv, [Next]_vars, NEW i \in Invoice, Issued(i), NEW e, Settles(i, e)
  PROVE  Settles(i, e)'
BY Stable DEF Settles, VerifyPayment, InWindow

(* The requests with a verdict after a step: those that had one before it, *)
(* and one whose ledger record was just accepted or refused.               *)
LEMMA VerdictRequests ==
  ASSUME TypeInv, [Next]_vars, NEW r \in Request, req'[r].pc \in {"confirm", "record"}
  PROVE  \/ req'[r] = req[r]
         \/ /\ req'[r].inv \in Invoice /\ Issued(req'[r].inv)
            /\ \E e \in ledger : /\ e.tx = req'[r].tx /\ e.at = req'[r].at
                                 /\ Settles(req'[r].inv, e) <=> req'[r].pc = "confirm"
<1> USE DEF TypeInv
<1>1. ASSUME NEW q \in Request, NEW i \in Invoice, PayRead(q, i)
      PROVE  req'[r] = req[r]
  BY <1>1 DEF PayRead, Types, Idle
<1>2. ASSUME NEW q \in Request, NEW i \in Invoice, NEW tx \in KnownTx, VerifyRead(q, i, tx)
      PROVE  req'[r] = req[r]
  BY <1>2 DEF VerifyRead, Types, Idle
<1>3. ASSUME NEW q \in Request, Finish(q)
      PROVE  req'[r] = req[r]
  BY <1>3 DEF Finish, Types, Idle
<1>4. ASSUME NEW q \in Request, NEW pc \in {"paid", "fresh", "build", "expire"}, Goto(q, pc)
      PROVE  req'[r] = req[r]
  BY <1>4 DEF Goto, Types, RequestRow
<1>5. ASSUME NEW q \in Request, PayBuild(q)
      PROVE  req'[r] = req[r]
  BY <1>3, <1>5 DEF PayBuild, Types, RequestRow
<1>6. ASSUME NEW q \in Request, VerifyLoad(q)
      PROVE  \/ req'[r] = req[r]
             \/ /\ req'[r].inv \in Invoice /\ Issued(req'[r].inv)
                /\ \E e \in ledger : /\ e.tx = req'[r].tx /\ e.at = req'[r].at
                                     /\ Settles(req'[r].inv, e) <=> req'[r].pc = "confirm"
  <2>1. CASE Finish(q)
    BY <1>3, <2>1
  <2>2. ASSUME NEW e \in ledger, e.tx = req[q].tx,
               req' = [req EXCEPT ![q].pc = IF Settles(req[q].inv, e)
                                              THEN "confirm" ELSE "record",
                                  ![q].at = e.at]
        PROVE  \/ req'[r] = req[r]
               \/ /\ req'[r].inv \in Invoice /\ Issued(req'[r].inv)
                  /\ e.tx = req'[r].tx /\ e.at = req'[r].at
                  /\ Settles(req'[r].inv, e) <=> req'[r].pc = "confirm"
    <3>1. CASE r # q
      BY <2>2, <3>1 DEF Types
    <3>2. CASE r = q
      <4>1. req'[q].inv = req[q].inv /\ req'[q].tx = req[q].tx /\ req'[q].at = e.at
        BY <2>2 DEF Types, RequestRow
      <4>2. req'[q].pc = IF Settles(req[q].inv, e) THEN "confirm" ELSE "record"
        BY <2>2 DEF Types, RequestRow
      <4>3. req[q].inv \in Invoice /\ Issued(req[q].inv)
        BY <1>6 DEF VerifyLoad, HandlesInvoice, Issued
      <4> QED
        BY <2>2, <3>2, <4>1, <4>2, <4>3
    <3> QED
      BY <3>1, <3>2
  <2> QED
    BY <1>6, <2>1, <2>2 DEF VerifyLoad
<1>7. ASSUME UNCHANGED req
      PROVE  req'[r] = req[r]
  BY <1>7
<1>8. ASSUME NEW q \in Request, PayExists(q)
      PROVE  req'[r] = req[r]
  BY <1>4, <1>8 DEF PayExists, Types, RequestRow
<1> QED
  BY <1>1, <1>2, <1>3, <1>4, <1>5, <1>6, <1>7, <1>8, NextCases
  DEF Handle, Abort, PayFresh, PayPrepare, PayPaid, VerifyRecord, VerifyExpire,
      VerifyConfirm, CreateInvoice, Broadcast, PayManually, LedgerClose, HorizonIngest,
      Tick, vars

LEMMA ConfirmStepInv == TypeInv /\ ConfirmInv /\ [Next]_vars => ConfirmInv'
<1> SUFFICES ASSUME TypeInv, ConfirmInv, [Next]_vars PROVE ConfirmInv'
  OBVIOUS
<1>1. ASSUME NEW i \in Invoice
      PROVE  /\ inv'[i].status = "confirmed" =>
                  \E e \in ledger' : /\ e.tx = inv'[i].hash /\ e.at = inv'[i].paidAt
                                     /\ Settles(i, e)'
             /\ inv'[i].status # "confirmed" => inv'[i].hash = NoTx
  <2>1. inv[i] \in InvoiceRow
    BY DEF TypeInv, Types
  <2>2. CASE inv'[i] = inv[i]
    BY <2>2, Stable
    DEF ConfirmInv, ConfirmedHasPayment, HashIffConfirmed, Issued, PaysInTime,
        Settles, VerifyPayment, InWindow
  <2>3. CASE IssueStep(i)
    BY <2>3 DEF IssueStep, Absent
  <2>4. CASE PrepareStep(i)
    BY <2>1, <2>4 DEF PrepareStep, InvoiceRow, ConfirmInv, HashIffConfirmed
  <2>5. CASE ExpireStep(i)
    BY <2>1, <2>5 DEF ExpireStep, InvoiceRow, ConfirmInv, HashIffConfirmed
  <2>6. CASE ConfirmStep(i)
    <3>1. PICK r \in Request :
            /\ req[r].pc = "confirm" /\ req[r].inv = i
            /\ inv'[i] = [inv[i] EXCEPT !.status = "confirmed", !.hash = req[r].tx,
                                        !.paidAt = req[r].at]
      BY <2>6 DEF ConfirmStep
    <3>2. PICK e \in ledger :
            e.tx = req[r].tx /\ e.at = req[r].at /\ Settles(i, e)
      BY <3>1 DEF ConfirmInv, ConfirmHasPayment
    <3>3. Settles(i, e)' /\ e \in ledger'
      BY <2>6, <3>2, Stable, SettlesStable DEF ConfirmStep, Issued
    <3>4. /\ inv'[i].status = "confirmed" /\ inv'[i].hash = e.tx
          /\ inv'[i].paidAt = e.at
      BY <2>1, <3>1, <3>2 DEF InvoiceRow
    <3> QED
      BY <3>3, <3>4
  <2> QED
    BY <2>2, <2>3, <2>4, <2>5, <2>6, RowSteps DEF RowStep
<1>2. ASSUME NEW r \in Request, req'[r].pc = "confirm"
      PROVE  (\E e \in ledger : /\ e.tx = req[r].tx /\ e.at = req[r].at
                                /\ Settles(req[r].inv, e))'
  <2>1. /\ req'[r].inv \in Invoice /\ Issued(req'[r].inv)
        /\ \E e \in ledger : /\ e.tx = req'[r].tx /\ e.at = req'[r].at
                             /\ Settles(req'[r].inv, e)
    BY <1>2, VerdictRequests
    DEF ConfirmInv, ConfirmHasPayment, TypeInv, HandlesInvoice, Issued
  <2>2. PICK i \in Invoice, e \in ledger :
          /\ i = req'[r].inv /\ Issued(i)
          /\ e.tx = req'[r].tx /\ e.at = req'[r].at /\ Settles(i, e)
    BY <2>1
  <2>3. e \in ledger' /\ Settles(i, e)'
    BY <2>2, Stable, SettlesStable
  <2> QED
    BY <2>2, <2>3 DEF Settles, VerifyPayment, InWindow
<1>3. ConfirmHasPayment'
  BY <1>2 DEF ConfirmHasPayment
<1>4. ConfirmedHasPayment' /\ HashIffConfirmed'
  BY <1>1
  DEF ConfirmedHasPayment, HashIffConfirmed, PaysInTime, Settles, VerifyPayment, InWindow
<1> QED
  BY <1>3, <1>4 DEF ConfirmInv

LEMMA ConfirmInit == Init => ConfirmInv
BY DEF Init, ConfirmInv, ConfirmedHasPayment, HashIffConfirmed, ConfirmHasPayment, Absent, Idle

(* The tables, the requests and the ledger keep their types, and the CHECK *)
(* constraint of the invoice table is never at stake.                      *)
THEOREM TypeCorrect == Spec => []TypeOK
<1>1. TypeInv /\ ConfirmInv => TypeOK
  BY NoTxAssumption
  DEF TypeInv, ConfirmInv, Types, TypeOK, ConfirmedHasPayment, HashIffConfirmed, Entry
<1> QED
  BY TypeInit, TypeStep, ConfirmInit, ConfirmStepInv, <1>1, PTL DEF Spec

(* Whatever the interleaving of requests, wallets and ledger, an invoice   *)
(* is confirmed only by a successful, exact and timely payment.            *)
THEOREM ConfirmationIsBacked == Spec => []ConfirmedHasPayment
<1>1. ConfirmInv => ConfirmedHasPayment
  BY DEF ConfirmInv
<1> QED
  BY TypeInit, TypeStep, ConfirmInit, ConfirmStepInv, <1>1, PTL DEF Spec

(* A confirmed row is never written again.                                 *)
THEOREM ConfirmationIsFinal == Spec => ConfirmedIsFinal
<1>1. TypeInv /\ [Next]_vars =>
        [\A i \in Invoice : inv[i].status = "confirmed" => inv'[i] = inv[i]]_vars
  BY RowSteps DEF RowStep, IssueStep, PrepareStep, ExpireStep, ConfirmStep, Issued
<1> QED
  BY TypeInit, TypeStep, <1>1, PTL DEF Spec, ConfirmedIsFinal

=============================================================================
