--------------------------- MODULE InvoicePayment ---------------------------
(***************************************************************************)
(* The life of an invoice: the public.invoices and                         *)
(* public.rejected_payment_attempts tables with their stored procedures,   *)
(* the payment and verify routes that call them, the browser wallet that   *)
(* signs what the payment route offers, and the Stellar ledger as Horizon  *)
(* shows it.                                                               *)
(*                                                                         *)
(* One request slot is one HTTP request in flight.  A handler is split     *)
(* into one action per await: every Horizon call and every stored          *)
(* procedure is a step of its own, and other requests, the wallet, the     *)
(* ledger and the clock may move between two of them.  A stored procedure  *)
(* takes its row lock at entry, so it is a single step.                    *)
(*                                                                         *)
(* A transaction hash is represented by the content it is the hash of.     *)
(* Invoice memos are unique (a unique column filled with random bytes), so *)
(* a memo is represented by the invoice it belongs to.                     *)
(***************************************************************************)
EXTENDS Integers, FiniteSets

CONSTANTS
    Invoice,        \* invoice ids
    Debtor,         \* Stellar accounts that pay invoices
    DebtorOf,       \* the debtor_public_key column of each invoice
    Request,        \* slots for concurrent HTTP requests
    Validity,       \* time bound given to a payment (180 s)
    ReviewGrace,    \* how long past its bound an XDR still passes review (30 s)
    ReviewCap,      \* furthest time bound that passes review (240 s)
    PrepareCap,     \* furthest expiry prepare_invoice_payment stores (5 min)
    SkewCap,        \* furthest future confirmed_at accepted (5 min)
    Slack,          \* the margin of SeenEarly and Prompt
    Manual,         \* payments made outside the app: {}, {TRUE}, {FALSE} or BOOLEAN
    MaxTime,        \* bound on the clock
    MaxSeq,         \* bound on the transactions of an account
    NoTx,           \* a null hash or XDR column
    NoInvoice       \* the invoice of an idle request

(* What the code's numbers and the deployment satisfy: the validity of a   *)
(* payment passes the review, what passes the review can be stored.        *)
ASSUME ParameterAssumption ==
    /\ DebtorOf \in [Invoice -> Debtor]
    /\ Validity \in Nat \ {0} /\ ReviewGrace \in Nat \ {0}
    /\ ReviewCap \in Nat /\ PrepareCap \in Nat /\ SkewCap \in Nat /\ Slack \in Nat
    /\ Validity <= ReviewCap /\ ReviewCap <= PrepareCap
    /\ Manual \subseteq BOOLEAN
    /\ MaxTime \in Nat /\ MaxSeq \in Nat
    /\ NoInvoice \notin Invoice

(* A payment transaction: exact says that its first payment operation has  *)
(* the receiver, asset and amount of the invoice its memo names.           *)
Tx == [memo : Invoice, payer : Debtor, seq : Nat, maxTime : Nat, exact : BOOLEAN]

ASSUME NoTxAssumption == NoTx \notin Tx

VARIABLES
    now,        \* clock of the app and database host
    inv,        \* public.invoices
    rejected,   \* public.rejected_payment_attempts: [inv, tx], tx unique
    req,        \* requests being handled
    offered,    \* XDRs the payment route has returned to a browser
    signed,     \* signed transactions handed to the network
    closed,     \* transactions of closed ledgers that Horizon has not ingested yet
    ledger,     \* transactions Horizon shows: [tx, at, ok]
    seq         \* sequence number of each debtor's account, as Horizon shows it

vars == <<now, inv, rejected, req, offered, signed, closed, ledger, seq>>

Status == {"absent", "pending", "confirmed", "expired"}

InvoiceRow == [status : Status, created : Nat, due : Nat,
               hash : Tx \cup {NoTx}, paidAt : Nat, prep : Tx \cup {NoTx}]

Absent == [status |-> "absent", created |-> 0, due |-> 0,
           hash |-> NoTx, paidAt |-> 0, prep |-> NoTx]

(* The program counter of a request names the call it awaits next; "paid"  *)
(* is the payment route's answer that the payment is already on the ledger.*)
(* The field at is the close time of the transaction a verification has    *)
(* loaded, and the requested_at of a payment request that has built one;   *)
(* until then it keeps when the request began, which no handler reads.     *)
Pc == {"idle", "exists", "fresh", "build", "prepare", "paid",
       "load", "record", "expire", "confirm"}

RequestRow == [pc : Pc, inv : Invoice \cup {NoInvoice}, tx : Tx \cup {NoTx},
               at : Nat, overdue : BOOLEAN]

Idle == [pc |-> "idle", inv |-> NoInvoice, tx |-> NoTx, at |-> 0, overdue |-> FALSE]

Entry == [tx : Tx, at : Nat, ok : BOOLEAN]

Init ==
    /\ now = 0
    /\ inv = [i \in Invoice |-> Absent]
    /\ rejected = {}
    /\ req = [r \in Request |-> Idle]
    /\ offered = {}
    /\ signed = {}
    /\ closed = {}
    /\ ledger = {}
    /\ seq = [d \in Debtor |-> 0]

OnLedger(tx) == \E e \in ledger : e.tx = tx

(* Hashes somebody can ask to verify: Horizon answers 404 for any other.   *)
KnownTx == signed \cup {e.tx : e \in closed \cup ledger}

Earliest(a, b) == IF a <= b THEN a ELSE b

Finish(r) == req' = [req EXCEPT ![r] = Idle]
Goto(r, pc) == req' = [req EXCEPT ![r].pc = pc]

-----------------------------------------------------------------------------
(* Issuing an invoice.                                                     *)

(* POST /api/invoices (and the issuer's admin route): the due date is      *)
(* compared with the clock before the row is inserted, so that a slow      *)
(* insert can store one that has passed.                                   *)
CreateInvoice(i, due) ==
    /\ inv[i].status = "absent"
    /\ \E at \in 0..now : due > at
    /\ inv' = [inv EXCEPT ![i] = [Absent EXCEPT !.status = "pending",
                                                !.created = now, !.due = due]]
    /\ UNCHANGED <<now, rejected, req, offered, signed, closed, ledger, seq>>

-----------------------------------------------------------------------------
(* The payment route.                                                      *)

(* assertPayableByWallet; the debtor is the authenticated wallet.          *)
Payable(i) == inv[i].status = "pending" /\ inv[i].due > now

PayRead(r, i) ==
    /\ req[r].pc = "idle"
    /\ Payable(i)
    /\ req' = [req EXCEPT ![r] =
                 [Idle EXCEPT !.pc = IF inv[i].prep = NoTx THEN "build" ELSE "exists",
                              !.inv = i, !.tx = inv[i].prep, !.at = now]]
    /\ UNCHANGED <<now, inv, rejected, offered, signed, closed, ledger, seq>>

(* paymentExists: any transaction Horizon shows counts, a failed one too.  *)
PayExists(r) ==
    /\ req[r].pc = "exists"
    /\ IF OnLedger(req[r].tx)
         THEN req' = [req EXCEPT ![r].pc = "paid", ![r].at = 0]
         ELSE Goto(r, "fresh")
    /\ UNCHANGED <<now, inv, rejected, offered, signed, closed, ledger, seq>>

(* The prepared XDR of the row read earlier is returned while unexpired.   *)
PayFresh(r) ==
    /\ req[r].pc = "fresh"
    /\ IF req[r].tx.maxTime > now
         THEN offered' = offered \cup {req[r].tx} /\ Finish(r)
         ELSE Goto(r, "build") /\ UNCHANGED offered
    /\ UNCHANGED <<now, inv, rejected, signed, closed, ledger, seq>>

(* assertSafeEnvelope's time bounds.                                       *)
SafeEnvelope(tx) ==
    tx.maxTime > now - ReviewGrace /\ tx.maxTime <= now + ReviewCap

(* Regression: the time bound ignores the due date.                        *)
InvoicePaymentTxUncapped(i) ==
    [memo |-> i, payer |-> DebtorOf[i], seq |-> seq[DebtorOf[i]] + 1,
     maxTime |-> now + Validity, exact |-> TRUE]

(* buildInvoicePaymentXdr: the next sequence number of the account and a   *)
(* time bound that ends no later than the invoice.                         *)
InvoicePaymentTx(i) ==
    [memo |-> i, payer |-> DebtorOf[i], seq |-> seq[DebtorOf[i]] + 1,
     maxTime |-> Earliest(now + Validity, inv[i].due), exact |-> TRUE]

(* Loads the account and builds, reviews and timestamps the XDR in one     *)
(* synchronous stretch; fails when the invoice has come due.               *)
PayBuild(r) ==
    /\ req[r].pc = "build"
    /\ LET tx == InvoicePaymentTx(req[r].inv) IN
         IF tx.maxTime > now /\ SafeEnvelope(tx)
           THEN req' = [req EXCEPT ![r].pc = "prepare", ![r].tx = tx, ![r].at = now]
           ELSE Finish(r)
    /\ UNCHANGED <<now, inv, rejected, offered, signed, closed, ledger, seq>>

(* Regression: the procedure always stores the payment it is given.        *)
NeverStillPrepared(i, at) == FALSE

(* Guards of prepare_invoice_payment, all against the requested_at the     *)
(* route captured before calling it.                                       *)
Preparable(i, at) == inv[i].status = "pending" /\ inv[i].due > at
StillPrepared(i, at) == inv[i].prep # NoTx /\ inv[i].prep.maxTime > at
ValidExpiry(tx, at) == tx.maxTime > at /\ tx.maxTime <= at + PrepareCap

(* prepare_invoice_payment and the route's answer: the stored payment if   *)
(* one is unexpired, else the one just built.                              *)
PayPrepare(r) ==
    /\ req[r].pc = "prepare"
    /\ LET i == req[r].inv  tx == req[r].tx  at == req[r].at IN
         \/ /\ Preparable(i, at) /\ StillPrepared(i, at)
            /\ offered' = offered \cup {inv[i].prep}
            /\ UNCHANGED inv
         \/ /\ Preparable(i, at) /\ ~StillPrepared(i, at) /\ ValidExpiry(tx, at)
            /\ inv' = [inv EXCEPT ![i].prep = tx]
            /\ offered' = offered \cup {tx}
         \/ /\ ~Preparable(i, at) \/ (~StillPrepared(i, at) /\ ~ValidExpiry(tx, at))
            /\ UNCHANGED <<inv, offered>>
    /\ Finish(r)
    /\ UNCHANGED <<now, rejected, signed, closed, ledger, seq>>

(* The browser receives { transactionHash } and goes on to verify it.      *)
PayPaid(r) ==
    /\ req[r].pc = "paid"
    /\ Finish(r)
    /\ UNCHANGED <<now, inv, rejected, offered, signed, closed, ledger, seq>>

-----------------------------------------------------------------------------
(* The verify route.                                                       *)

(* findDebtorInvoice and the entry of processInvoiceVerification: the      *)
(* status and the clock read here decide later whether to expire the       *)
(* invoice.  A confirmed invoice is answered at once and changes nothing.  *)
VerifyRead(r, i, tx) ==
    /\ req[r].pc = "idle"
    /\ inv[i].status \in {"pending", "expired"}
    /\ req' = [req EXCEPT ![r] =
                 [Idle EXCEPT !.pc = "load", !.inv = i, !.tx = tx,
                              !.overdue = inv[i].status = "pending" /\ inv[i].due <= now]]
    /\ UNCHANGED <<now, inv, rejected, offered, signed, closed, ledger, seq>>

(* Regression: the memo is not compared.                                   *)
VerifyPaymentAnyMemo(i, e) == e.ok /\ e.tx.payer = DebtorOf[i] /\ e.tx.exact

(* Regression: the receiver, asset and amount are not compared.            *)
VerifyPaymentAnyAmount(i, e) == e.ok /\ e.tx.memo = i /\ e.tx.payer = DebtorOf[i]

(* verifyPayment: a successful payment by the debtor with the invoice's    *)
(* memo, receiver, asset and amount.                                       *)
VerifyPayment(i, e) ==
    e.ok /\ e.tx.memo = i /\ e.tx.payer = DebtorOf[i] /\ e.tx.exact

(* The ledger's close time must lie in the life of the invoice.            *)
InWindow(i, at) == inv[i].created <= at /\ at <= inv[i].due

Settles(i, e) == VerifyPayment(i, e) /\ InWindow(i, e.at)

(* Regression: the window is compared with the clock, not with the ledger. *)
VerifyLoadByClock(r) ==
    /\ req[r].pc = "load"
    /\ \E e \in ledger :
         /\ e.tx = req[r].tx
         /\ req' = [req EXCEPT ![r].pc = IF VerifyPayment(req[r].inv, e) /\ InWindow(req[r].inv, now)
                                           THEN "confirm" ELSE "record",
                               ![r].at = e.at]
    /\ UNCHANGED <<now, inv, rejected, offered, signed, closed, ledger, seq>>

(* loadLedger: a hash Horizon does not know fails the request.  Horizon is *)
(* taken to answer with the transaction asked for, so that the route's     *)
(* rejection of another hash never happens.                                *)
VerifyLoad(r) ==
    /\ req[r].pc = "load"
    /\ \/ /\ ~OnLedger(req[r].tx)
          /\ Finish(r)
       \/ \E e \in ledger :
            /\ e.tx = req[r].tx
            /\ req' = [req EXCEPT ![r].pc = IF Settles(req[r].inv, e)
                                              THEN "confirm" ELSE "record",
                                  ![r].at = e.at]
    /\ UNCHANGED <<now, inv, rejected, offered, signed, closed, ledger, seq>>

(* record_rejected_payment_attempt: the hash column is unique, and a hash  *)
(* recorded for another invoice raises, which also skips the expiry.       *)
VerifyRecord(r) ==
    /\ req[r].pc = "record"
    /\ IF \E a \in rejected : a.tx = req[r].tx /\ a.inv # req[r].inv
         THEN Finish(r) /\ UNCHANGED rejected
         ELSE /\ rejected' = rejected \cup {[inv |-> req[r].inv, tx |-> req[r].tx]}
              /\ IF req[r].overdue THEN Goto(r, "expire") ELSE Finish(r)
    /\ UNCHANGED <<now, inv, offered, signed, closed, ledger, seq>>

(* Regression: any overdue invoice is expired, whatever its status.        *)
ExpireInvoiceAnyStatus(i) ==
    IF inv[i].due <= now
      THEN inv' = [inv EXCEPT ![i].status = "expired"]
      ELSE UNCHANGED inv

(* expire_invoice.                                                         *)
ExpireInvoice(i) ==
    IF inv[i].status = "pending" /\ inv[i].due <= now
      THEN inv' = [inv EXCEPT ![i].status = "expired"]
      ELSE UNCHANGED inv

VerifyExpire(r) ==
    /\ req[r].pc = "expire"
    /\ ExpireInvoice(req[r].inv)
    /\ Finish(r)
    /\ UNCHANGED <<now, rejected, offered, signed, closed, ledger, seq>>

(* confirm_invoice's second look at the window.                            *)
Confirmable(i, at) == InWindow(i, at) /\ at <= now + SkewCap

(* Regression: the row is updated without looking at its status.           *)
ConfirmInvoiceAnyStatus(i, tx, at) ==
    IF ~Confirmable(i, at)
      THEN ExpireInvoice(i)
      ELSE inv' = [inv EXCEPT ![i].status = "confirmed", ![i].hash = tx, ![i].paidAt = at]

(* Regression: the procedure of migration 0008, which refuses an expired   *)
(* invoice.                                                                *)
ConfirmInvoicePendingOnly(i, tx, at) ==
    IF inv[i].status # "pending" \/ inv[i].due <= now
      THEN ExpireInvoice(i)
      ELSE inv' = [inv EXCEPT ![i].status = "confirmed", ![i].hash = tx, ![i].paidAt = at]

(* confirm_invoice: a confirmed row is never rewritten, an expired one is  *)
(* still confirmed, a hash confirms one invoice (unique column).           *)
ConfirmInvoice(i, tx, at) ==
    IF inv[i].status \notin {"pending", "expired"}
      THEN UNCHANGED inv
      ELSE IF ~Confirmable(i, at)
      THEN ExpireInvoice(i)
      ELSE IF \E j \in Invoice \ {i} : inv[j].hash = tx
      THEN UNCHANGED inv
      ELSE inv' = [inv EXCEPT ![i].status = "confirmed", ![i].hash = tx, ![i].paidAt = at]

VerifyConfirm(r) ==
    /\ req[r].pc = "confirm"
    /\ ConfirmInvoice(req[r].inv, req[r].tx, req[r].at)
    /\ Finish(r)
    /\ UNCHANGED <<now, rejected, offered, signed, closed, ledger, seq>>

(* A request ends at any await: Horizon or the database is unreachable, or *)
(* the server restarts.                                                    *)
Abort(r) ==
    /\ req[r].pc # "idle"
    /\ Finish(r)
    /\ UNCHANGED <<now, inv, rejected, offered, signed, closed, ledger, seq>>

-----------------------------------------------------------------------------
(* The wallet, the Stellar network and the clock.                          *)

(* A wallet reviews an XDR it was offered, signs it and broadcasts it.     *)
Broadcast(tx) ==
    /\ tx \in offered \ signed
    /\ SafeEnvelope(tx)
    /\ signed' = signed \cup {tx}
    /\ UNCHANGED <<now, inv, rejected, req, offered, closed, ledger, seq>>

(* The network includes a transaction in the ledger that closes now, at    *)
(* most one per account; a failed transaction is included too and uses up  *)
(* its sequence number.                                                    *)
LedgerClose(tx, ok) ==
    /\ tx.seq = seq[tx.payer] + 1 /\ tx.seq <= MaxSeq
    /\ ~\E e \in closed : e.tx.payer = tx.payer
    /\ now <= tx.maxTime
    /\ closed' = closed \cup {[tx |-> tx, at |-> now, ok |-> ok]}
    /\ UNCHANGED <<now, inv, rejected, req, offered, signed, ledger, seq>>

(* A payment made with another wallet application: it may come from        *)
(* another account, be inexact, and has no time bound in reach.              *)
ManualTx(d, i, exact) ==
    [memo |-> i, payer |-> d, seq |-> seq[d] + 1, maxTime |-> MaxTime + 1, exact |-> exact]

PayManually(d, i, exact, ok) ==
    /\ inv[i].status # "absent"
    /\ LedgerClose(ManualTx(d, i, exact), ok)

(* Horizon ingests the ledger some time later: only now do its transaction *)
(* and account queries show the transaction and its sequence number.       *)
HorizonIngest(e) ==
    /\ e \in closed
    /\ closed' = closed \ {e}
    /\ ledger' = ledger \cup {e}
    /\ seq' = [seq EXCEPT ![e.tx.payer] = @ + 1]
    /\ UNCHANGED <<now, inv, rejected, req, offered, signed>>

Tick ==
    /\ now < MaxTime
    /\ now' = now + 1
    /\ UNCHANGED <<inv, rejected, req, offered, signed, closed, ledger, seq>>

Next ==
    \/ \E i \in Invoice, due \in 1..MaxTime : CreateInvoice(i, due)
    \/ \E r \in Request :
         \/ \E i \in Invoice : PayRead(r, i)
         \/ PayExists(r) \/ PayFresh(r) \/ PayBuild(r) \/ PayPrepare(r) \/ PayPaid(r)
         \/ \E i \in Invoice, tx \in KnownTx : VerifyRead(r, i, tx)
         \/ VerifyLoad(r) \/ VerifyRecord(r) \/ VerifyExpire(r) \/ VerifyConfirm(r)
         \/ Abort(r)
    \/ \E tx \in offered : Broadcast(tx)
    \/ \E d \in Debtor, i \in Invoice, exact \in Manual, ok \in BOOLEAN :
         PayManually(d, i, exact, ok)
    \/ \E tx \in signed, ok \in BOOLEAN : LedgerClose(tx, ok)
    \/ \E e \in closed : HorizonIngest(e)
    \/ Tick

Spec == Init /\ [][Next]_vars

(* A handler keeps running unless it is aborted, and time passes.          *)
Handle(r) ==
    \/ PayExists(r) \/ PayFresh(r) \/ PayBuild(r) \/ PayPrepare(r) \/ PayPaid(r)
    \/ VerifyLoad(r) \/ VerifyRecord(r) \/ VerifyExpire(r) \/ VerifyConfirm(r)

PaysInTime(i, e) ==
    /\ e.ok /\ e.tx.memo = i /\ e.tx.payer = DebtorOf[i] /\ e.tx.exact
    /\ inv[i].created <= e.at /\ e.at <= inv[i].due

HasSettled(i) == \E e \in ledger : PaysInTime(i, e)

(* A payment made in time whose hash a page of the app has received from   *)
(* its own broadcast.                                                      *)
MadeInApp(i, e) == e.tx \in signed /\ PaysInTime(i, e)

(* The page keeps asking to verify a payment it has broadcast, and not     *)
(* every one of its requests is aborted: once the broadcast is answered    *)
(* the page keeps the hash as long as it is open, and offers the retry;    *)
(* nothing on the server retries.  Nobody is assumed to verify a payment   *)
(* made outside the app.                                                   *)
RetryVerify(i) ==
    \E r \in Request, e \in ledger : MadeInApp(i, e) /\ VerifyRead(r, i, e.tx)
Settling(r, i) ==
    req[r].inv = i /\ \E e \in ledger : e.tx = req[r].tx /\ MadeInApp(i, e)
LoadSettling(i) == \E r \in Request : Settling(r, i) /\ VerifyLoad(r)
ConfirmSettling(i) == \E r \in Request : Settling(r, i) /\ VerifyConfirm(r)

Fairness ==
    /\ WF_vars(Tick)
    /\ \A r \in Request : WF_vars(Handle(r))
    /\ \A i \in Invoice : /\ SF_vars(RetryVerify(i))
                          /\ SF_vars(LoadSettling(i))
                          /\ SF_vars(ConfirmSettling(i))

FairSpec == Spec /\ Fairness

-----------------------------------------------------------------------------
(* Properties.                                                             *)

Types ==
    /\ now \in Nat
    /\ inv \in [Invoice -> InvoiceRow]
    /\ rejected \subseteq [inv : Invoice, tx : Tx]
    /\ req \in [Request -> RequestRow]
    /\ offered \subseteq Tx
    /\ signed \subseteq Tx
    /\ closed \subseteq Entry
    /\ ledger \subseteq Entry
    /\ seq \in [Debtor -> Nat]

(* The variables have their types, and the CHECK constraint of the table   *)
(* holds: a row has a confirmed hash exactly while it is confirmed.        *)
TypeOK ==
    /\ Types
    /\ \A i \in Invoice : inv[i].status = "confirmed" <=> inv[i].hash # NoTx

(* An invoice is confirmed only by a successful, exact payment by its      *)
(* debtor that the ledger closed within the life of the invoice, and the   *)
(* row carries that payment's hash and close time, whatever happened       *)
(* between the verify route's reads and confirm_invoice.                   *)
ConfirmedHasPayment ==
    \A i \in Invoice : inv[i].status = "confirmed" =>
      \E e \in ledger : e.tx = inv[i].hash /\ e.at = inv[i].paidAt /\ PaysInTime(i, e)

(* Two verifications of a hash for an invoice never disagree: a hash       *)
(* recorded as a rejected attempt of an invoice never confirms it.         *)
RejectedNeverConfirms ==
    \A a \in rejected : inv[a.inv].hash # a.tx

(* Nor is the verdict unjust: a successful, exact payment made in time is  *)
(* never recorded as a rejected attempt of its invoice, however late or    *)
(* often it is verified and whatever has become of the invoice meanwhile.  *)
TimelyNeverRejected ==
    \A a \in rejected, e \in ledger : e.tx = a.tx => ~PaysInTime(a.inv, e)

(* A payment the route prepared cannot reach the ledger outside the life   *)
(* of its invoice: it may fail there, but it is never too late to count.   *)
PreparedNeverLate ==
    \A e \in closed \cup ledger : e.tx \in offered => InWindow(e.tx.memo, e.at)

(* However payment requests interleave, a debtor never holds two different *)
(* unexpired XDRs for one invoice.                                         *)
OneUnexpiredXdr ==
    \A t1, t2 \in offered :
      (t1.memo = t2.memo /\ t1.maxTime > now /\ t2.maxTime > now) => t1 = t2

(* A second payment of an invoice through the app takes a first one whose  *)
(* XDR had expired: retries within its validity never pay twice.           *)
SecondPaymentOnlyAfterExpiry ==
    \A e1, e2 \in ledger :
      (/\ {e1.tx, e2.tx} \subseteq offered
       /\ e1.tx.memo = e2.tx.memo
       /\ e1.tx.seq < e2.tx.seq) => e1.tx.maxTime <= e2.at

(* What paying once takes of the environment.  Horizon shows a payment     *)
(* made through the app Slack before its bound, and a payment request gets *)
(* from reading the row to the clock reading that builds within Slack.     *)
(* The code ensures neither; a validity of minutes makes both usual.       *)
SeenEarly == \A e \in closed : e.tx \in offered => now + Slack < e.tx.maxTime
Prompt ==
    \A r \in Request : req[r].pc \in {"exists", "fresh", "build"} => now <= req[r].at + Slack

OnePaymentThroughApp ==
    \A e1, e2 \in ledger :
      ({e1.tx, e2.tx} \subseteq offered /\ e1.tx.memo = e2.tx.memo) => e1 = e2

(* With that margin an invoice is never paid twice, or tried twice,        *)
(* through the app, however requests interleave, repeat and check, build   *)
(* and store.  Both halves are needed.  The route builds a second payment  *)
(* when Horizon shows the first one only after its bound, and also when    *)
(* Horizon is early but a request that read the row, or had Horizon's 404, *)
(* before the first was included reads the clock only after its bound.     *)
PaidOnceIfSeenEarly == [](SeenEarly /\ Prompt) => []OnePaymentThroughApp

(* Once an invoice is confirmed nothing in its row changes any more.       *)
ConfirmedIsFinal ==
    [][\A i \in Invoice : inv[i].status = "confirmed" => inv'[i] = inv[i]]_vars

(* The stored procedure never overrules the route: when confirm_invoice is *)
(* called, its own checks of the status, the window, the clock and the     *)
(* unique hash leave the invoice confirmed, also when it expired or was    *)
(* confirmed while the route waited for Horizon.                           *)
AcceptedIsConfirmed ==
    [][\A r \in Request :
         VerifyConfirm(r) => inv'[req[r].inv].status = "confirmed"]_vars

(* A payment made in time with the app's page confirms the invoice in the  *)
(* end, also when the invoice was marked expired before it was verified.   *)
SettledIsConfirmed ==
    \A i \in Invoice :
      (\E e \in ledger : MadeInApp(i, e)) ~> inv[i].status = "confirmed"

(* The tables, requests and ledger implement the abstract lifecycle.       *)
Lifecycle == INSTANCE InvoiceLifecycle WITH
    status <- [i \in Invoice |-> inv[i].status],
    settled <- {i \in Invoice : inv[i].status # "absent" /\ HasSettled(i)},
    lapsed <- {i \in Invoice : inv[i].status # "absent" /\ inv[i].due <= now}

RefinesLifecycle == Lifecycle!Spec

-----------------------------------------------------------------------------
(* Claims of the repository's documents that the code does not keep.       *)

(* docs/security-review.md: a retry after broadcast reuses the stored      *)
(* transaction and does not request another signature, so an invoice is    *)
(* paid once.  (For debtors who pay only through the app.)                 *)
PaidAtMostOnce ==
    \A e1, e2 \in ledger :
      (e1.ok /\ e2.ok /\ e1.tx.memo = e2.tx.memo) => e1 = e2

(* Functional specification, section 5: a rejected attempt is not counted  *)
(* as a payment.  The payment route answers "already paid" only with a     *)
(* hash that was not recorded as a rejected attempt of the invoice.        *)
RejectedIsNotAnsweredAsPaid ==
    \A r \in Request : req[r].pc = "paid" =>
      [inv |-> req[r].inv, tx |-> req[r].tx] \notin rejected

(* Functional specification, section 5: an invoice without a valid payment *)
(* becomes expired when it falls due.                                      *)
UnpaidBecomesExpired ==
    \A i \in Invoice :
      (inv[i].status = "pending" /\ inv[i].due <= now)
        ~> inv[i].status \in {"expired", "confirmed"}
=============================================================================
