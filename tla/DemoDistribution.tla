-------------------------- MODULE DemoDistribution --------------------------
(***************************************************************************)
(* The BRLT allowance of demo wallets: the demo_sessions,                  *)
(* demo_distributions and demo_distribution_mutex tables with their stored *)
(* procedures, the provision, distribute and resume routes, and the        *)
(* distributor's Stellar account as Horizon shows it.                      *)
(*                                                                         *)
(* An attempt is one POST to the distribute route with its own random      *)
(* attempt key, and stands for that key; it is split into one action per   *)
(* await.  A crash ends an attempt without the route's finally block, so   *)
(* the mutex stays held until its lease lapses.                            *)
(***************************************************************************)
EXTENDS Integers, FiniteSets

CONSTANTS
    Customer,   \* demo wallets
    Attempt,    \* attempts, and their keys
    Lease,      \* duration of the mutex (2 min)
    Validity,   \* validity of a prepared transaction (180 s)
    Amount,     \* BRLT paid to a wallet (25)
    Reserve,    \* BRLT the distributor keeps (100)
    Supply,     \* BRLT the distributor starts with
    MaxTime,    \* bound on the clock
    MaxToken,   \* bound on the session tokens issued to a wallet
    NoOne,      \* a null key or the wallet of an attempt that has not started
    NoTx        \* a null hash and XDR

ASSUME ParameterAssumption ==
    /\ Lease \in Nat \ {0} /\ Validity \in Nat \ {0}
    /\ Amount \in Nat \ {0} /\ Reserve \in Nat
    /\ Supply \in Nat /\ Supply >= Reserve
    /\ MaxTime \in Nat /\ MaxToken \in Nat
    /\ NoOne \notin Attempt \cup Customer

(* A payment of Amount by the distributor, signed by the server.           *)
Tx == [to : Customer, seq : Nat, maxTime : Nat]

ASSUME NoTxAssumption == NoTx \notin Tx

VARIABLES
    now,        \* clock of the app and database host
    mutex,      \* the row of public.demo_distribution_mutex
    session,    \* public.demo_sessions: the token (0 without a row), and whether it
                \* is open, that is neither consumed nor expired
    dist,       \* public.demo_distributions
    att,        \* the attempts
    sent,       \* transactions submitted to Horizon
    closed,     \* transactions of closed ledgers that Horizon has not ingested yet
    ledger,     \* transactions Horizon shows: [tx, at, ok]
    seq,        \* the distributor's sequence number, as Horizon shows it
    balance     \* the distributor's BRLT, as Horizon shows it

vars == <<now, mutex, session, dist, att, sent, closed, ledger, seq, balance>>
db == <<mutex, session, dist>>
network == <<sent, closed, ledger, seq, balance>>

Status == {"none", "preparing", "prepared", "confirmed"}

DistributionRow == [status : Status, key : Attempt \cup {NoOne},
                    tx : Tx \cup {NoTx}, invoice : BOOLEAN]

NoRow == [status |-> "none", key |-> NoOne, tx |-> NoTx, invoice |-> FALSE]

(* The program counter of an attempt names the call it awaits next.        *)
Pc == {"new", "acquire", "reserve", "exists", "expired", "reset", "prepare", "store",
       "recheck", "submit", "submitted", "complete", "invoice", "release", "done"}

(* token is the session token presented, at the time before which the next *)
(* requested_at cannot lie; both matter only until the reservation.        *)
AttemptRow == [pc : Pc, wallet : Customer \cup {NoOne}, token : Nat, at : Nat,
               tx : Tx \cup {NoTx}]

Fresh == [pc |-> "new", wallet |-> NoOne, token |-> 0, at |-> 0, tx |-> NoTx]

Entry == [tx : Tx, at : Nat, ok : BOOLEAN]

Init ==
    /\ now = 0
    /\ mutex = [owner |-> NoOne, lease |-> 0]
    /\ session = [c \in Customer |-> [token |-> 0, open |-> FALSE]]
    /\ dist = [c \in Customer |-> NoRow]
    /\ att = [a \in Attempt |-> Fresh]
    /\ sent = {} /\ closed = {} /\ ledger = {}
    /\ seq = 0 /\ balance = Supply

(* demoDistributionExists: Horizon answers 200 for a failed one too.       *)
OnLedger(tx) == \E e \in ledger : e.tx = tx

GotoWith(a, pc, tx) ==
    att' = [att EXCEPT ![a].pc = pc, ![a].token = 0, ![a].at = 0, ![a].tx = tx]
Goto(a, pc) == GotoWith(a, pc, att[a].tx)
Finish(a) == att' = [att EXCEPT ![a] = [Fresh EXCEPT !.pc = "done"]]

-----------------------------------------------------------------------------
(* Sessions.                                                               *)

(* create_demo_session: a wallet that has its allowance gets no session;   *)
(* any other gets a fresh token, in place of the one it had.               *)
Provision(c) ==
    /\ session[c].token < MaxToken
    /\ session[c].token = 0 \/ dist[c].status # "confirmed"
    /\ session' = [session EXCEPT ![c] = [token |-> @.token + 1, open |-> TRUE]]
    /\ UNCHANGED <<now, mutex, dist, att, network>>

SessionExpires(c) ==
    /\ session[c].open
    /\ session' = [session EXCEPT ![c].open = FALSE]
    /\ UNCHANGED <<now, mutex, dist, att, network>>

-----------------------------------------------------------------------------
(* The distribute route.                                                   *)

(* getPersistentDemoSessionWallet and the signed claim.                    *)
Begin(a, c) ==
    /\ att[a].pc = "new"
    /\ session[c].token # 0
    /\ att' = [att EXCEPT ![a] = [Fresh EXCEPT !.pc = "acquire", !.wallet = c,
                                              !.token = session[c].token, !.at = now]]
    /\ UNCHANGED <<now, db, network>>

(* acquire_demo_distribution_lock: a lapsed lease is taken over.  The time *)
(* it goes by, requested_at, is read before the call and may lie back.     *)
MutexFree(at) == mutex.owner = NoOne \/ mutex.lease <= at

Acquire(a) ==
    /\ att[a].pc = "acquire"
    /\ \E at \in att[a].at..now :
         IF MutexFree(at)
           THEN /\ mutex' = [owner |-> a, lease |-> at + Lease]
                /\ att' = [att EXCEPT ![a].pc = "reserve", ![a].at = now]
           ELSE UNCHANGED mutex /\ Finish(a)
    /\ UNCHANGED <<now, session, dist, network>>

(* reserve_demo_distribution returns the row of the wallet, which decides  *)
(* how the attempt goes on: a row somebody else is preparing is taken over *)
(* only under a live lock, a new one needs an open session.                *)
Recoverable(a, at) == mutex.owner = a /\ mutex.lease > at

ReserveRow(a, c, at) ==
    \/ /\ dist[c].status = "confirmed"
       /\ GotoWith(a, "invoice", dist[c].tx)
       /\ UNCHANGED <<session, dist>>
    \/ /\ dist[c].status = "prepared"
       /\ GotoWith(a, "exists", dist[c].tx)
       /\ UNCHANGED <<session, dist>>
    \/ /\ dist[c].status = "preparing"
       /\ IF Recoverable(a, at)
            THEN dist' = [dist EXCEPT ![c].key = a] /\ Goto(a, "prepare")
            ELSE UNCHANGED dist /\ Goto(a, "release")
       /\ UNCHANGED session
    \/ /\ dist[c].status = "none" /\ session[c].open
       /\ session' = [session EXCEPT ![c].open = FALSE]
       /\ dist' = [dist EXCEPT ![c] = [NoRow EXCEPT !.status = "preparing", !.key = a]]
       /\ Goto(a, "prepare")
    \/ /\ dist[c].status = "none" /\ ~session[c].open
       /\ Goto(a, "release")
       /\ UNCHANGED <<session, dist>>

ReserveDistribution(a) ==
    /\ att[a].pc = "reserve"
    /\ LET c == att[a].wallet IN
         \/ /\ session[c].token = att[a].token
            /\ \E at \in att[a].at..now : ReserveRow(a, c, at)
         \/ /\ session[c].token # att[a].token
            /\ Goto(a, "release")
            /\ UNCHANGED <<session, dist>>
    /\ UNCHANGED <<now, mutex, network>>

(* The prepared transaction found in the row: known to Horizon, or too old *)
(* to be applied, or to be submitted again.                                *)
CheckExists(a) ==
    /\ att[a].pc = "exists"
    /\ Goto(a, IF OnLedger(att[a].tx) THEN "complete" ELSE "expired")
    /\ UNCHANGED <<now, db, network>>

(* demoDistributionExpired.                                                *)
Expired(tx) == tx.maxTime <= now

(* Regression: a transaction Horizon does not know yet counts as expired.  *)
CheckExpiredAlways(a) ==
    /\ att[a].pc = "expired"
    /\ Goto(a, "reset")
    /\ UNCHANGED <<now, db, network>>

CheckExpired(a) ==
    /\ att[a].pc = "expired"
    /\ Goto(a, IF Expired(att[a].tx) THEN "reset" ELSE "recheck")
    /\ UNCHANGED <<now, db, network>>

(* Regression: the reset forgets the hash but keeps the transaction.       *)
ResetExpiredKeepingXdr(a) ==
    /\ att[a].pc = "reset"
    /\ LET c == att[a].wallet IN
         IF dist[c].status = "prepared" /\ dist[c].tx = att[a].tx
           THEN /\ dist' = [dist EXCEPT ![c].status = "preparing", ![c].key = a]
                /\ Goto(a, "prepare")
           ELSE UNCHANGED dist /\ Goto(a, "release")
    /\ UNCHANGED <<now, mutex, session, network>>

(* Regression: the reset does not compare the hash it found expired.       *)
ResetExpiredAnyHash(a) ==
    /\ att[a].pc = "reset"
    /\ LET c == att[a].wallet IN
         IF dist[c].status = "prepared"
           THEN /\ dist' = [dist EXCEPT ![c].status = "preparing", ![c].key = a, ![c].tx = NoTx]
                /\ Goto(a, "prepare")
           ELSE UNCHANGED dist /\ Goto(a, "release")
    /\ UNCHANGED <<now, mutex, session, network>>

(* reset_expired_demo_distribution.                                        *)
ResetExpired(a) ==
    /\ att[a].pc = "reset"
    /\ LET c == att[a].wallet IN
         IF dist[c].status = "prepared" /\ dist[c].tx = att[a].tx
           THEN /\ dist' = [dist EXCEPT ![c].status = "preparing", ![c].key = a, ![c].tx = NoTx]
                /\ Goto(a, "prepare")
           ELSE UNCHANGED dist /\ Goto(a, "release")
    /\ UNCHANGED <<now, mutex, session, network>>

(* Regression: the amount about to be paid is not counted.                 *)
ReserveHoldsBefore == balance >= Reserve

(* assertDemoDistributionReserve.                                          *)
ReserveHolds == balance >= Amount + Reserve

(* prepareDemoBrltDistribution: one query gives the account's balance and  *)
(* sequence number.                                                        *)
Prepare(a) ==
    /\ att[a].pc = "prepare"
    /\ IF ReserveHolds
         THEN GotoWith(a, "store", [to |-> att[a].wallet, seq |-> seq + 1,
                                    maxTime |-> now + Validity])
         ELSE Goto(a, "release")
    /\ UNCHANGED <<now, db, network>>

(* Regression: any attempt of the wallet may store its transaction.        *)
HoldsUnconfirmed(a, c) == dist[c].status # "confirmed"

(* store_demo_distribution_xdr: only the attempt that holds the row.       *)
HoldsReservation(a, c) == dist[c].status = "preparing" /\ dist[c].key = a

Store(a) ==
    /\ att[a].pc = "store"
    /\ LET c == att[a].wallet IN
         IF HoldsReservation(a, c)
           THEN /\ dist' = [dist EXCEPT ![c].status = "prepared", ![c].tx = att[a].tx]
                /\ Goto(a, "recheck")
           ELSE UNCHANGED dist /\ Goto(a, "release")
    /\ UNCHANGED <<now, mutex, session, network>>

Recheck(a) ==
    /\ att[a].pc = "recheck"
    /\ Goto(a, IF OnLedger(att[a].tx) THEN "complete" ELSE "submit")
    /\ UNCHANGED <<now, db, network>>

(* Regression: the answer to the submission is not awaited.                *)
SubmitWithoutAnswer(a) ==
    /\ att[a].pc = "submit"
    /\ sent' = sent \cup {att[a].tx}
    /\ Goto(a, "complete")
    /\ UNCHANGED <<now, db, closed, ledger, seq, balance>>

(* submitPreparedDemoDistribution: Horizon answers once it shows the       *)
(* transaction as successful; a failure or a timeout ends the attempt.     *)
Submit(a) ==
    /\ att[a].pc = "submit"
    /\ sent' = sent \cup {att[a].tx}
    /\ Goto(a, "submitted")
    /\ UNCHANGED <<now, db, closed, ledger, seq, balance>>

SubmitSucceeds(a) ==
    /\ att[a].pc = "submitted"
    /\ \E e \in ledger : e.tx = att[a].tx /\ e.ok
    /\ Goto(a, "complete")
    /\ UNCHANGED <<now, db, network>>

(* complete_demo_distribution.                                             *)
Complete(a) ==
    /\ att[a].pc = "complete"
    /\ LET c == att[a].wallet IN
         IF dist[c].status \in {"prepared", "confirmed"} /\ dist[c].tx = att[a].tx
           THEN dist' = [dist EXCEPT ![c].status = "confirmed"] /\ Goto(a, "invoice")
           ELSE UNCHANGED dist /\ Goto(a, "release")
    /\ UNCHANGED <<now, mutex, session, network>>

(* ensure_demo_invoice, also called by the resume route.                   *)
EnsureDemoInvoice(c) ==
    /\ dist[c].status = "confirmed"
    /\ dist' = [dist EXCEPT ![c].invoice = TRUE]

EnsureInvoice(a) ==
    /\ att[a].pc = "invoice"
    /\ EnsureDemoInvoice(att[a].wallet)
    /\ Goto(a, "release")
    /\ UNCHANGED <<now, mutex, session, network>>

Resume(c) ==
    /\ EnsureDemoInvoice(c)
    /\ UNCHANGED <<now, mutex, session, att, network>>

(* release_demo_distribution_lock, in the finally block: a lock that went  *)
(* to another attempt is left alone.                                       *)
Release(a) ==
    /\ att[a].pc = "release"
    /\ mutex' = IF mutex.owner = a THEN [owner |-> NoOne, lease |-> 0] ELSE mutex
    /\ Finish(a)
    /\ UNCHANGED <<now, session, dist, network>>

(* A call between acquire and release throws: Horizon or the database is   *)
(* unreachable, or Horizon refuses or times out a submission.              *)
Fail(a) ==
    /\ att[a].pc \notin {"new", "acquire", "release", "done"}
    /\ Goto(a, "release")
    /\ UNCHANGED <<now, db, network>>

(* The server stops, or the release itself fails.                          *)
Crash(a) ==
    /\ att[a].pc \notin {"new", "done"}
    /\ Finish(a)
    /\ UNCHANGED <<now, db, network>>

-----------------------------------------------------------------------------
(* The Stellar network and the clock.                                      *)

(* One transaction of the account per ledger; a payment fails for want of  *)
(* funds or of a trustline and still uses up its sequence number.          *)
LedgerClose(tx, ok) ==
    /\ tx.seq = seq + 1 /\ closed = {}
    /\ now <= tx.maxTime
    /\ ok => balance >= Amount
    /\ closed' = {[tx |-> tx, at |-> now, ok |-> ok]}
    /\ UNCHANGED <<now, db, att, sent, ledger, seq, balance>>

HorizonIngest(e) ==
    /\ closed' = closed \ {e}
    /\ ledger' = ledger \cup {e}
    /\ seq' = seq + 1
    /\ balance' = IF e.ok THEN balance - Amount ELSE balance
    /\ UNCHANGED <<now, db, att, sent>>

Tick ==
    /\ now < MaxTime
    /\ now' = now + 1
    /\ UNCHANGED <<db, att, network>>

Next ==
    \/ \E c \in Customer : Provision(c) \/ SessionExpires(c) \/ Resume(c)
    \/ \E a \in Attempt :
         \/ \E c \in Customer : Begin(a, c)
         \/ Acquire(a) \/ ReserveDistribution(a) \/ CheckExists(a) \/ CheckExpired(a)
         \/ ResetExpired(a) \/ Prepare(a) \/ Store(a) \/ Recheck(a) \/ Submit(a)
         \/ SubmitSucceeds(a) \/ Complete(a) \/ EnsureInvoice(a) \/ Release(a)
         \/ Fail(a) \/ Crash(a)
    \/ \E tx \in sent, ok \in BOOLEAN : LedgerClose(tx, ok)
    \/ \E e \in closed : HorizonIngest(e)
    \/ Tick

Spec == Init /\ [][Next]_vars

-----------------------------------------------------------------------------
(* Properties.                                                             *)

Types ==
    /\ now \in Nat
    /\ mutex \in [owner : Attempt \cup {NoOne}, lease : Nat]
    /\ session \in [Customer -> [token : Nat, open : BOOLEAN]]
    /\ dist \in [Customer -> DistributionRow]
    /\ att \in [Attempt -> AttemptRow]
    /\ sent \subseteq Tx
    /\ closed \subseteq Entry
    /\ ledger \subseteq Entry
    /\ seq \in Nat
    /\ balance \in Nat

(* The variables have their types, and the CHECK constraint of the table   *)
(* holds: a row has a transaction exactly when prepared or confirmed.      *)
TypeOK ==
    /\ Types
    /\ \A c \in Customer : dist[c].status \in {"prepared", "confirmed"} <=> dist[c].tx # NoTx

(* Whatever attempts overlap and whoever lost the mutex, the distributor   *)
(* never pays out of its reserve: the balance an attempt checked is the    *)
(* one its sequence number was read with.                                  *)
ReserveKept == balance >= Reserve

(* Until its bound comes, a submitted payment that Horizon does not show   *)
(* is the one the wallet's row remembers, so no attempt can prepare        *)
(* another beside it.  At the bound itself this ends: the code counts the  *)
(* payment expired and may reset the row, although the network can still   *)
(* include it in a ledger that closes at that very second.                 *)
LiveTransactionRemembered ==
    \A tx \in sent : (~Expired(tx) /\ ~OnLedger(tx)) => dist[tx.to].tx = tx

(* A wallet is paid a second time only when its first payment had expired  *)
(* by then: overlapping attempts and retries never pay twice.              *)
SecondAllowanceOnlyAfterExpiry ==
    \A e1, e2 \in ledger :
      (e1.tx.to = e2.tx.to /\ e1.tx.seq < e2.tx.seq) => e1.tx.maxTime <= e2.at

(* A wallet is confirmed only once its transaction is on the ledger.       *)
ConfirmedIsOnLedger ==
    \A c \in Customer : dist[c].status = "confirmed" => OnLedger(dist[c].tx)

(* A prepared transaction leaves its row only by being confirmed or, once  *)
(* the code counts it expired, by being reset: an attempt that lost the    *)
(* lock, or that acts on what it read before, cannot discard the one       *)
(* stored since.                                                           *)
PreparedIsKept ==
    [][\A c \in Customer : dist[c].status = "prepared" =>
         \/ dist'[c].status \in {"prepared", "confirmed"} /\ dist'[c].tx = dist[c].tx
         \/ dist'[c].status = "preparing" /\ Expired(dist[c].tx)]_vars

(* The mapping to the abstract allowance.  A closed ledger has included    *)
(* its payment before Horizon shows it.                                    *)
PromiseOf == [c \in Customer |-> dist[c].tx]
Fulfilled == {c \in Customer : dist[c].status = "confirmed"}
Included == closed \cup ledger

(* What a running attempt has read or stored, and may come to submit,      *)
(* though the row has been reset meanwhile.                                *)
Carrying == {"exists", "expired", "recheck", "submit", "submitted"}
Carried == {att[a].tx : a \in {b \in Attempt : att[b].pc \in Carrying}}
HeldBack == {t \in Carried : PromiseOf[t.to] # t}

Allowance == INSTANCE DemoAllowance WITH
    Payment <- Tx,
    NoPayment <- NoTx,
    promise <- PromiseOf,
    held <- HeldBack,
    fulfilled <- Fulfilled,
    out <- sent,
    included <- Included

(* Whatever attempts overlap, crash or lose the mutex, a wallet has one    *)
(* promised payment at a time, and nothing else goes out but an expired    *)
(* one an attempt still holds: every step is one of the abstract           *)
(* allowance, or none.                                                     *)
RefinesAllowance == Allowance!Spec

-----------------------------------------------------------------------------
(* Claims of the repository that the code does not keep.                   *)

(* Migration 0017 lets a wallet resume an interrupted allowance without    *)
(* creating another one.                                                   *)
OneAllowancePerWallet ==
    \A e1, e2 \in ledger : (e1.ok /\ e2.ok /\ e1.tx.to = e2.tx.to) => e1 = e2

(* Migration 0017 refuses a session to a confirmed wallet because it has   *)
(* already received its BRLT allowance.                                    *)
ConfirmedReceivedAllowance ==
    \A c \in Customer : dist[c].status = "confirmed" =>
      \E e \in ledger : e.tx.to = c /\ e.ok
=============================================================================
