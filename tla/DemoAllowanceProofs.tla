------------------------- MODULE DemoAllowanceProofs -------------------------
(***************************************************************************)
(* The distribution of demo allowances implements the abstract allowance:  *)
(* every step promises, withdraws, sends, includes or fulfils a payment as *)
(* DemoAllowance allows, or is none of its business.                       *)
(***************************************************************************)
EXTENDS DemoDistributionProofs

Mapped == <<now, PromiseOf, Fulfilled, sent, Included>>

(* What Horizon shows has a sequence number that is used up, so that a     *)
(* transaction is included once.                                           *)
LedgerUsed == \A e \in ledger : e.tx.seq <= seq

Inv == TypeInv /\ FundsInv /\ KnowledgeInv /\ OrderInv /\ LedgerUsed

LEMMA UsedStep ==
  ASSUME TypeInv, FundsInv, LedgerUsed, [Next]_vars
  PROVE  LedgerUsed'
<1>1. seq \in Nat /\ \A e \in closed \cup ledger : e.tx.seq \in Nat
  BY DEF TypeInv, Entry, Tx
<1>2. NetworkEffects
  BY StepNetwork
<1>3. CASE UNCHANGED <<ledger, seq>>
  BY <1>3 DEF LedgerUsed
<1>4. ASSUME NEW e \in closed, HorizonIngest(e)
      PROVE  LedgerUsed'
  <2>1. e.tx.seq = seq + 1 /\ ledger' = ledger \cup {e} /\ seq' = seq + 1
    BY <1>4 DEF HorizonIngest, FundsInv, ClosedIsNext
  <2> QED
    BY <1>1, <2>1 DEF LedgerUsed
<1> QED
  BY <1>2, <1>3, <1>4 DEF NetworkEffects, ClosedOne

(* An attempt comes to carry only what its row holds at that moment, so    *)
(* that only a withdrawal can add to what is held back.                    *)
LEMMA HeldSteps ==
  ASSUME TypeInv, [Next]_vars, NEW t \in HeldBack'
  PROVE  /\ t \in Tx /\ t.to \in Customer
         /\ t \in HeldBack \/ (PromiseOf[t.to] = t /\ PromiseOf'[t.to] # t)
<1>1. PICK a \in Attempt : att'[a].pc \in Carrying /\ att'[a].tx = t
  BY DEF HeldBack, Carried
<1>2. PromiseOf'[t.to] # t
  BY DEF HeldBack
<1>3. t \in Tx /\ att'[a].wallet = t.to /\ t.to \in Customer /\ att'[a].pc \in Handling
  BY <1>1, TypeStep DEF TypeInv, AttemptsBound, Carrying, Handling, Tx
<1>4. dist'[t.to].tx # t
  BY <1>2, <1>3 DEF PromiseOf
<1>5. AttemptEffect(a)
  BY StepEffects DEF Effects
<1>6. \/ att[a].pc \in Carrying /\ att[a].tx = t
      \/ dist[t.to].tx = t
  BY <1>1, <1>3, <1>4, <1>5 DEF AttemptEffect, KeptEffect, Carrying
<1> QED
  BY <1>2, <1>3, <1>6 DEF HeldBack, Carried, PromiseOf

LEMMA HeldShrinks ==
  ASSUME TypeInv, [Next]_vars, UNCHANGED PromiseOf
  PROVE  HeldBack' \subseteq HeldBack
BY HeldSteps

(* What the allowance sees of a step but for what is held back.            *)
LEMMA Quiet ==
  ASSUME TypeInv, [Next]_vars, UNCHANGED Mapped
  PROVE  Allowance!Forget
BY HeldShrinks DEF Mapped, Allowance!Forget

(* Steps that touch no transaction and no verdict of a row.                *)
LEMMA SameRows ==
  ASSUME \A c \in Customer : dist'[c].tx = dist[c].tx /\ dist'[c].status = dist[c].status
  PROVE  UNCHANGED <<PromiseOf, Fulfilled>>
BY DEF PromiseOf, Fulfilled

LEMMA SameNetwork ==
  ASSUME UNCHANGED network
  PROVE  UNCHANGED <<sent, Included>>
BY DEF network, Included

(* The invoice of a confirmed wallet is no part of the allowance.          *)
LEMMA InvoiceRefines ==
  ASSUME TypeInv, NEW c \in Customer, EnsureDemoInvoice(c), UNCHANGED <<now, network>>
  PROVE  UNCHANGED Mapped
<1>1. \A d \in Customer : dist'[d].tx = dist[d].tx /\ dist'[d].status = dist[d].status
  BY DEF EnsureDemoInvoice, TypeInv, DistributionRow
<1> QED
  BY <1>1, SameRows, SameNetwork DEF Mapped

LEMMA ReserveRefines ==
  ASSUME TypeInv, NEW a \in Attempt, ReserveDistribution(a)
  PROVE  UNCHANGED Mapped
<1>1. att[a].wallet \in Customer
  BY DEF ReserveDistribution, TypeInv, AttemptsBound
<1>2. \/ UNCHANGED dist
      \/ \E at \in att[a].at..now : ReserveRow(a, att[a].wallet, at)
  BY DEF ReserveDistribution
<1>3. ASSUME NEW c \in Customer, NEW at, ReserveRow(a, c, at), NEW d \in Customer
      PROVE  /\ dist'[d].tx = dist[d].tx
             /\ dist'[d].status = "confirmed" <=> dist[d].status = "confirmed"
  <2>1. CASE UNCHANGED dist
    BY <2>1
  <2>2. CASE dist' = [dist EXCEPT ![c].key = a]
    BY <2>2 DEF TypeInv, DistributionRow
  <2>3. CASE /\ dist[c].status = "none"
             /\ dist' = [dist EXCEPT ![c] = [NoRow EXCEPT !.status = "preparing", !.key = a]]
    <3>1. dist[c].tx = NoTx
      BY <2>3 DEF TypeInv, RowsBound
    <3>2. dist'[d] = IF d = c THEN [NoRow EXCEPT !.status = "preparing", !.key = a]
                              ELSE dist[d]
      BY <2>3 DEF TypeInv
    <3> QED
      BY <2>3, <3>1, <3>2 DEF NoRow
  <2> QED
    BY <1>3, <2>1, <2>2, <2>3 DEF ReserveRow
<1>4. UNCHANGED <<PromiseOf, Fulfilled>>
  BY <1>1, <1>2, <1>3 DEF PromiseOf, Fulfilled
<1> QED
  BY <1>4, SameNetwork DEF Mapped, ReserveDistribution

LEMMA StoreRefines ==
  ASSUME TypeInv, [Next]_vars, NEW a \in Attempt, Store(a)
  PROVE  (\E c \in Customer : Allowance!Promise(c)) \/ UNCHANGED Mapped
<1> DEFINE c == att[a].wallet
<1>1. c \in Customer /\ att[a].tx \in Tx /\ att[a].tx.to = c
  BY DEF Store, TypeInv, AttemptsBound, Handling
<1>2. UNCHANGED <<now, sent, Included>>
  BY SameNetwork DEF Store
<1>3. CASE HoldsReservation(a, c)
  <2>1. dist[c].status = "preparing" /\ dist[c].tx = NoTx
    BY <1>1, <1>3 DEF HoldsReservation, TypeInv, RowsBound
  <2>2. /\ dist'[c].tx = att[a].tx /\ dist'[c].status = "prepared"
        /\ \A d \in Customer \ {c} : dist'[d] = dist[d]
    BY <1>1, <1>3 DEF Store, TypeInv, DistributionRow
  <2>3. PromiseOf' = [PromiseOf EXCEPT ![c] = att[a].tx] /\ Fulfilled' = Fulfilled
    BY <1>1, <2>1, <2>2 DEF PromiseOf, Fulfilled
  <2>4. PromiseOf[c] = NoTx /\ c \notin Fulfilled /\ PromiseOf'[c] = att[a].tx
    BY <1>1, <2>1, <2>2 DEF PromiseOf, Fulfilled
  <2>5. HeldBack' \subseteq HeldBack
    BY <1>1, <2>3, <2>4, HeldSteps, NoTxAssumption DEF PromiseOf
  <2> HIDE DEF c
  <2> QED
    BY <1>1, <1>2, <2>3, <2>4, <2>5 DEF Allowance!Promise
<1>4. CASE ~HoldsReservation(a, c)
  BY <1>2, <1>4, SameRows DEF Store, Mapped
<1> QED
  BY <1>3, <1>4

LEMMA ResetRefines ==
  ASSUME TypeInv, KnowledgeInv, [Next]_vars, NEW a \in Attempt, ResetExpired(a)
  PROVE  (\E c \in Customer : Allowance!Withdraw(c)) \/ UNCHANGED Mapped
<1> DEFINE c == att[a].wallet
<1>1. c \in Customer /\ att[a].tx \in Tx /\ att[a].tx.maxTime <= now
  BY DEF ResetExpired, TypeInv, AttemptsBound, Handling, KnowledgeInv, ResetsExpired, Expired
<1>2. UNCHANGED <<now, sent, Included>>
  BY SameNetwork DEF ResetExpired
<1>3. CASE dist[c].status = "prepared" /\ dist[c].tx = att[a].tx
  <2>1. /\ dist'[c].tx = NoTx /\ dist'[c].status = "preparing"
        /\ \A d \in Customer \ {c} : dist'[d] = dist[d]
    BY <1>1, <1>3 DEF ResetExpired, TypeInv, DistributionRow
  <2>2. PromiseOf' = [PromiseOf EXCEPT ![c] = NoTx] /\ Fulfilled' = Fulfilled
    BY <1>1, <1>3, <2>1 DEF PromiseOf, Fulfilled
  <2>3. PromiseOf[c] = att[a].tx /\ c \notin Fulfilled
    BY <1>1, <1>3 DEF PromiseOf, Fulfilled
  <2>4. HeldBack' \subseteq HeldBack \cup {PromiseOf[c]}
    BY <1>1, <2>2, HeldSteps DEF PromiseOf
  <2> HIDE DEF c
  <2> QED
    BY <1>1, <1>2, <2>2, <2>3, <2>4, NoTxAssumption DEF Allowance!Withdraw
<1>4. CASE ~(dist[c].status = "prepared" /\ dist[c].tx = att[a].tx)
  BY <1>2, <1>4, SameRows DEF ResetExpired, Mapped
<1> QED
  BY <1>3, <1>4

LEMMA CompleteRefines ==
  ASSUME TypeInv, KnowledgeInv, [Next]_vars, NEW a \in Attempt, Complete(a)
  PROVE  (\E c \in Customer : Allowance!Fulfil(c)) \/ UNCHANGED Mapped
<1> DEFINE c == att[a].wallet
<1>1. c \in Customer /\ OnLedger(att[a].tx)
  BY DEF Complete, TypeInv, AttemptsBound, KnowledgeInv, CompletesOnLedger
<1>2. UNCHANGED <<now, sent, Included>>
  BY SameNetwork DEF Complete
<1>3. CASE dist[c].status \in {"prepared", "confirmed"} /\ dist[c].tx = att[a].tx
  <2>1. /\ dist'[c].tx = dist[c].tx /\ dist'[c].status = "confirmed"
        /\ \A d \in Customer \ {c} : dist'[d] = dist[d]
    BY <1>1, <1>3 DEF Complete, TypeInv, DistributionRow
  <2>2. PromiseOf' = PromiseOf /\ Fulfilled' = Fulfilled \cup {c}
    BY <1>1, <2>1 DEF PromiseOf, Fulfilled
  <2>3. \E e \in Included : e.tx = PromiseOf[c]
    BY <1>1, <1>3 DEF OnLedger, Included, PromiseOf
  <2> HIDE DEF c
  <2> QED
    BY <1>1, <1>2, <2>2, <2>3, HeldShrinks DEF Allowance!Fulfil
<1>4. CASE ~(dist[c].status \in {"prepared", "confirmed"} /\ dist[c].tx = att[a].tx)
  BY <1>2, <1>4, SameRows DEF Complete, Mapped
<1> QED
  BY <1>3, <1>4

LEMMA SubmitRefines ==
  ASSUME TypeInv, [Next]_vars, NEW a \in Attempt, Submit(a)
  PROVE  \E p \in sent' : Allowance!Send(p)
<1>1. Allowance!Promised(att[a].tx) \/ att[a].tx \in HeldBack
  BY DEF Submit, Allowance!Promised, HeldBack, Carried, Carrying, TypeInv, AttemptsBound,
         Handling
<1>2. /\ UNCHANGED <<now, PromiseOf, Fulfilled, Included>>
      /\ sent' = sent \cup {att[a].tx}
  BY SameRows DEF Submit, db, Included
<1> QED
  BY <1>1, <1>2, HeldShrinks DEF Allowance!Send

LEMMA CloseRefines ==
  ASSUME TypeInv, LedgerUsed, NEW tx \in sent, NEW ok \in BOOLEAN,
         LedgerClose(tx, ok)
  PROVE  \E e \in Included' : Allowance!Include(e)
<1> DEFINE e == [tx |-> tx, at |-> now, ok |-> ok]
<1>1. tx \in Tx /\ tx.maxTime \in Nat /\ tx.seq \in Nat /\ now \in Nat /\ seq \in Nat
  BY DEF TypeInv, Tx
<1>3. closed = {} /\ Included' = Included \cup {e}
  BY DEF LedgerClose, Included
<1>4. \A i \in Included : i.tx # tx
  BY <1>1, <1>3 DEF LedgerClose, LedgerUsed, Included
<1>5. UNCHANGED <<now, PromiseOf, HeldBack, Fulfilled, sent>> /\ now <= tx.maxTime
  BY SameRows DEF LedgerClose, db, HeldBack, Carried
<1>6. e.tx = tx /\ e.at = now
  OBVIOUS
<1> HIDE DEF e
<1> QED
  BY <1>3, <1>4, <1>5, <1>6 DEF Allowance!Include

LEMMA IngestRefines ==
  ASSUME NEW e \in closed, HorizonIngest(e)
  PROVE  UNCHANGED Mapped
<1>1. Included' = Included /\ UNCHANGED <<now, sent, dist>>
  BY DEF HorizonIngest, Included, db
<1> QED
  BY <1>1, SameRows DEF Mapped

LEMMA AllowanceStep ==
  Inv /\ [Next]_vars => [Allowance!Next]_(Allowance!allowance)
<1> SUFFICES ASSUME Inv, [Next]_vars
             PROVE  Allowance!Next \/ UNCHANGED Mapped
  BY Quiet DEF Inv, Allowance!Next
<1> USE DEF Inv
<1>1. CASE UNCHANGED <<now, dist, network>>
  BY <1>1, SameRows, SameNetwork DEF Mapped
<1>2. ASSUME NEW a \in Attempt, AttemptAction(a)
      PROVE  Allowance!Next \/ UNCHANGED Mapped
  <2>1. CASE ReserveDistribution(a)
    BY <2>1, ReserveRefines
  <2>2. CASE ResetExpired(a)
    BY <2>2, ResetRefines DEF Allowance!Next
  <2>3. CASE Store(a)
    BY <2>3, StoreRefines DEF Allowance!Next
  <2>4. CASE Submit(a)
    BY <2>4, SubmitRefines DEF Allowance!Next
  <2>5. CASE Complete(a)
    BY <2>5, CompleteRefines DEF Allowance!Next
  <2>6. CASE EnsureInvoice(a)
    <3>1. att[a].wallet \in Customer
      BY <2>6 DEF EnsureInvoice, TypeInv, AttemptsBound
    <3> QED
      BY <2>6, <3>1, InvoiceRefines DEF EnsureInvoice
  <2> QED
    BY <1>1, <1>2, <2>1, <2>2, <2>3, <2>4, <2>5, <2>6
    DEF AttemptAction, Acquire, CheckExists, CheckExpired, Prepare, Recheck, SubmitSucceeds,
        Release, Fail, Crash, db
<1>3. ASSUME NEW c \in Customer, Resume(c)
      PROVE  UNCHANGED Mapped
  BY <1>3, InvoiceRefines DEF Resume
<1>4. ASSUME NEW tx \in sent, NEW ok \in BOOLEAN, LedgerClose(tx, ok)
      PROVE  Allowance!Next
  BY <1>4, CloseRefines DEF Allowance!Next
<1>5. CASE Tick
  <2>1. UNCHANGED <<PromiseOf, HeldBack, Fulfilled, sent, Included>> /\ now' = now + 1
    BY <1>5, SameRows, SameNetwork DEF Tick, db, HeldBack, Carried
  <2> QED
    BY <2>1 DEF Allowance!Next, Allowance!Tick
<1>6. CASE UNCHANGED vars
  BY <1>1, <1>6 DEF vars, network
<1> QED
  BY <1>1, <1>2, <1>3, <1>4, <1>5, <1>6, NextCases, IngestRefines
  DEF Provision, SessionExpires, Begin, db

LEMMA AllowanceInit == Init => Allowance!Init /\ LedgerUsed
BY DEF Init, NoRow, Fresh, Allowance!Init, PromiseOf, HeldBack, Carried, Carrying, Fulfilled,
       Included, LedgerUsed

(* The rows, attempts and leases implement the abstract allowance: a       *)
(* wallet has one promised payment at a time, only an expired one is       *)
(* withdrawn, only an included one is fulfilled, and what goes out is the  *)
(* promise or an expired one that an attempt still holds.                  *)
THEOREM AllowanceImplemented == Spec => RefinesAllowance
<1>1. Init => Inv
  BY TypeInit, FundsInit, KnowledgeInit, OrderInit, AllowanceInit DEF Inv
<1>2. Inv /\ [Next]_vars => Inv'
  BY TypeStep, FundsStep, KnowledgeStep, OrderStep, UsedStep DEF Inv
<1> QED
  BY <1>1, <1>2, AllowanceInit, AllowanceStep, PTL
  DEF Spec, RefinesAllowance, Allowance!Spec

-----------------------------------------------------------------------------
(* What the allowance promises follows from it alone, without attempts,    *)
(* leases or sequence numbers.                                             *)
KnownPayments ==
    /\ now \in Nat /\ sent \cup HeldBack \subseteq Tx
    /\ \A c \in Customer : PromiseOf[c] # NoTx => PromiseOf[c] \in Tx /\ PromiseOf[c].to = c
    /\ \A e \in Included : e.tx \in sent /\ e.at \in Nat /\ e.at <= now
    /\ \A e, f \in Included : e.tx = f.tx => e = f

(* What is out or held back is the promise of its wallet or has expired.   *)
OutInForce ==
    \A p \in sent \cup HeldBack : Allowance!Promised(p) \/ p.maxTime <= now

(* Another payment that may yet be included comes after this one's end, or *)
(* ended itself when this one was included.                                *)
MayFollow(p) == p \in sent \cup HeldBack \/ Allowance!Promised(p)
FollowsExpiry ==
    \A e \in Included, p \in Tx :
      (MayFollow(p) /\ p.to = e.tx.to /\ p # e.tx)
      => p.maxTime <= e.at \/ e.tx.maxTime <= now

AllowanceInv ==
    /\ KnownPayments /\ OutInForce /\ FollowsExpiry
    /\ Allowance!Spaced /\ Allowance!FulfilledIsIncluded

LEMMA AllowanceInvInit == Allowance!Init => AllowanceInv
BY DEF Allowance!Init, AllowanceInv, KnownPayments, OutInForce, FollowsExpiry,
       Allowance!Spaced, Allowance!FulfilledIsIncluded

LEMMA PromiseInv ==
  ASSUME AllowanceInv, NEW c \in Customer, Allowance!Promise(c)
  PROVE  AllowanceInv'
<1>1. /\ UNCHANGED <<now, Fulfilled, sent, Included>> /\ HeldBack' \subseteq HeldBack
      /\ PromiseOf[c] = NoTx /\ c \notin Fulfilled
      /\ PromiseOf'[c] \in Tx /\ PromiseOf'[c].to = c
      /\ \A d \in Customer \ {c} : PromiseOf'[d] = PromiseOf[d]
  BY DEF Allowance!Promise, PromiseOf
<1>2. \A p \in Tx : p.to \in Customer /\ p.maxTime \in Nat /\ p # NoTx
  BY NoTxAssumption DEF Tx
<1> HIDE DEF PromiseOf, HeldBack, Fulfilled, Included
<1>3. KnownPayments'
  BY <1>1 DEF AllowanceInv, KnownPayments
<1>4. OutInForce'
  BY <1>1, <1>2 DEF AllowanceInv, KnownPayments, OutInForce, Allowance!Promised
<1>5. FollowsExpiry'
  <2> SUFFICES ASSUME NEW e \in Included, NEW p \in Tx, MayFollow(p)', p.to = e.tx.to,
                      p # e.tx
               PROVE  p.maxTime <= e.at \/ e.tx.maxTime <= now
    BY <1>1 DEF FollowsExpiry
  <2>1. e.tx \in Tx /\ e.tx \in sent
    BY DEF AllowanceInv, KnownPayments
  <2>2. CASE MayFollow(p)
    BY <2>2 DEF AllowanceInv, FollowsExpiry
  <2>3. CASE p.to = c
    BY <1>1, <1>2, <2>1, <2>3 DEF AllowanceInv, OutInForce, Allowance!Promised
  <2> QED
    BY <1>1, <1>2, <2>2, <2>3 DEF MayFollow, Allowance!Promised
<1>6. Allowance!Spaced' /\ Allowance!FulfilledIsIncluded'
  BY <1>1 DEF AllowanceInv, Allowance!Spaced, Allowance!FulfilledIsIncluded, Fulfilled
<1> QED
  BY <1>3, <1>4, <1>5, <1>6 DEF AllowanceInv

LEMMA WithdrawInv ==
  ASSUME AllowanceInv, NEW c \in Customer, Allowance!Withdraw(c)
  PROVE  AllowanceInv'
BY DEF Allowance!Withdraw, AllowanceInv, KnownPayments, OutInForce, FollowsExpiry, MayFollow,
     Allowance!Promised, Allowance!Spaced, Allowance!FulfilledIsIncluded

LEMMA SendInv ==
  ASSUME AllowanceInv, NEW p, Allowance!Send(p)
  PROVE  AllowanceInv'
BY DEF Allowance!Send, AllowanceInv, KnownPayments, OutInForce, FollowsExpiry, MayFollow,
     Allowance!Promised, Allowance!Spaced, Allowance!FulfilledIsIncluded

LEMMA IncludeInv ==
  ASSUME AllowanceInv, NEW e, Allowance!Include(e)
  PROVE  AllowanceInv'
BY DEF Allowance!Include, AllowanceInv, KnownPayments, OutInForce, FollowsExpiry, MayFollow,
     Allowance!Promised, Allowance!Spaced, Allowance!FulfilledIsIncluded, Tx

LEMMA FulfilInv ==
  ASSUME AllowanceInv, NEW c \in Customer, Allowance!Fulfil(c)
  PROVE  AllowanceInv'
BY DEF Allowance!Fulfil, AllowanceInv, KnownPayments, OutInForce, FollowsExpiry, MayFollow,
     Allowance!Promised, Allowance!Spaced, Allowance!FulfilledIsIncluded

LEMMA ForgetInv ==
  ASSUME AllowanceInv, Allowance!Forget
  PROVE  AllowanceInv'
BY DEF Allowance!Forget, AllowanceInv, KnownPayments, OutInForce, FollowsExpiry, MayFollow,
     Allowance!Promised, Allowance!Spaced, Allowance!FulfilledIsIncluded

LEMMA TickInv ==
  ASSUME AllowanceInv, Allowance!Tick
  PROVE  AllowanceInv'
BY DEF Allowance!Tick, AllowanceInv, KnownPayments, OutInForce, FollowsExpiry, MayFollow,
     Allowance!Promised, Allowance!Spaced, Allowance!FulfilledIsIncluded, Tx

LEMMA AllowanceInvStep ==
  AllowanceInv /\ [Allowance!Next]_(Allowance!allowance) => AllowanceInv'
<1>1. AllowanceInv /\ UNCHANGED Allowance!allowance => AllowanceInv'
  BY DEF Allowance!allowance, AllowanceInv, KnownPayments, OutInForce, FollowsExpiry, MayFollow,
     Allowance!Promised, Allowance!Spaced, Allowance!FulfilledIsIncluded
<1> QED
  BY <1>1, PromiseInv, WithdrawInv, SendInv, IncludeInv, FulfilInv, ForgetInv, TickInv
  DEF Allowance!Next

(* Of two payments of a wallet one had expired when the other was          *)
(* included, and a fulfilled promise is an included one.                   *)
THEOREM AllowanceSpaces ==
  Allowance!Spec => [](Allowance!Spaced /\ Allowance!FulfilledIsIncluded)
BY AllowanceInvInit, AllowanceInvStep, PTL DEF Allowance!Spec, AllowanceInv

(* And so for what the network has included of the distributor's, shown by *)
(* Horizon or not.                                                         *)
THEOREM PaymentsAreSpaced == Spec => []Allowance!Spaced
BY AllowanceImplemented, AllowanceSpaces, PTL DEF RefinesAllowance

-----------------------------------------------------------------------------
(* Paying once takes two things of the environment: Horizon shows a        *)
(* payment Slack before its bound, and its 404 is acted on within Slack.   *)
(* The second needs the time of that answer, which no variable of the code *)
(* keeps: asked is a history variable that TimedSpec adds to Spec.         *)
CONSTANT Slack
VARIABLE asked

AskStep ==
    asked' = [a \in Attempt |->
                IF att[a].pc = "exists" /\ att'[a].pc = "expired" THEN now ELSE asked[a]]
TimedSpec ==
    Spec /\ asked = [a \in Attempt |-> 0] /\ [][AskStep]_<<vars, asked>>

SeenEarly == \A e \in closed : now + Slack < e.tx.maxTime
Prompt == \A a \in Attempt : att[a].pc = "expired" => now <= asked[a] + Slack

(* Together they say that a payment is shown before its bound, and that no *)
(* attempt told before that Horizon does not show it is still on its way   *)
(* to compare the bound with the clock when the bound passes.              *)
AskedInPast ==
    asked \in [Attempt -> Nat] /\ \A a \in Attempt : asked[a] <= now
AskedBefore ==
    \A a \in Attempt, e \in Included :
      (att[a].pc = "expired" /\ att[a].tx = e.tx) => asked[a] + Slack < e.tx.maxTime
SeenInTime ==
    \A e \in Included :
      (e \in closed \/ \E a \in Attempt : att[a].pc = "expired" /\ att[a].tx = e.tx)
      => now < e.tx.maxTime

(* While that is so, what the network has included stays in its row.       *)
PaidStored == \A e \in Included : dist[e.tx.to].tx = e.tx
ResetsUnpaid ==
    \A a \in Attempt, e \in Included : att[a].pc = "reset" => att[a].tx # e.tx

LEMMA IncludedSteps ==
  ASSUME TypeInv, [Next]_vars, NEW e \in Included'
  PROVE  e \in Included \/ (e \in closed' /\ e.tx \in sent')
<1>1. NetworkEffects
  BY StepNetwork
<1>2. ASSUME NEW f \in closed, HorizonIngest(f)
      PROVE  e \in Included
  BY <1>2 DEF HorizonIngest, Included
<1> QED
  BY <1>1, <1>2 DEF NetworkEffects, ClosedOne, Included

LEMMA SeenStep ==
  /\ TypeInv /\ KnowledgeInv /\ KnowledgeInv' /\ OrderInv' /\ PaidStored /\ ResetsUnpaid
  /\ SeenInTime /\ SeenInTime' /\ [Next]_vars
  => PaidStored' /\ ResetsUnpaid'
<1> SUFFICES ASSUME TypeInv, KnowledgeInv, KnowledgeInv', OrderInv', PaidStored, ResetsUnpaid,
                    SeenInTime, SeenInTime', [Next]_vars, NEW e \in Included'
             PROVE  /\ dist'[e.tx.to].tx = e.tx
                    /\ \A a \in Attempt : att'[a].pc = "reset" => att'[a].tx # e.tx
  BY DEF PaidStored, ResetsUnpaid
<1>1. Effects /\ TypeInv'
  BY StepEffects, TypeStep
<1>2. e.tx \in Tx /\ e.tx.to \in Customer /\ e.tx.maxTime \in Nat /\ now \in Nat /\ now' \in Nat
  BY <1>1 DEF TypeInv, Included, Entry, Tx
<1>3. CASE e \in Included
  <2>1. dist[e.tx.to].tx = e.tx /\ RowEffect(e.tx.to)
    BY <1>1, <1>2, <1>3 DEF PaidStored, Effects
  <2>2. dist'[e.tx.to].tx = e.tx
    BY <1>2, <1>3, <2>1, NoTxAssumption DEF RowEffect, ResetsUnpaid, TypeInv, RowsBound
  <2>3. ASSUME NEW a \in Attempt, att'[a].pc = "reset", att'[a].tx = e.tx
        PROVE  FALSE
    <3>1. AttemptEffect(a)
      BY <1>1 DEF Effects
    <3>2. CASE att[a].pc = "expired" /\ att[a].tx = e.tx /\ Expired(e.tx)
      BY <1>2, <1>3, <3>2 DEF SeenInTime, Expired
    <3> QED
      BY <1>3, <2>3, <3>1, <3>2 DEF AttemptEffect, KeptEffect, Handling, ResetsUnpaid
  <2> QED
    BY <2>2, <2>3
<1>4. CASE e \in closed' /\ e.tx \in sent'
  <2>1. now' < e.tx.maxTime
    BY <1>4 DEF SeenInTime
  <2>2. dist'[e.tx.to].tx = e.tx
    BY <1>2, <1>4, <2>1 DEF OrderInv, MemoryInv, Stored
  <2>3. \A a \in Attempt : att'[a].pc = "reset" => att'[a].tx # e.tx
    BY <1>2, <2>1 DEF KnowledgeInv, ResetsExpired, Expired
  <2> QED
    BY <2>2, <2>3
<1> QED
  BY <1>3, <1>4, IncludedSteps

LEMMA SeenInit == Init => PaidStored /\ ResetsUnpaid
BY DEF Init, PaidStored, ResetsUnpaid, Included

(* An attempt gets to comparing the bound only with Horizon's 404.         *)
LEMMA AskSteps ==
  ASSUME TypeInv, [Next]_vars, NEW a \in Attempt, att'[a].pc = "expired"
  PROVE  \/ att'[a] = att[a]
         \/ /\ att[a].pc = "exists" /\ ~OnLedger(att'[a].tx)
            /\ UNCHANGED <<now, network>>
<1>1. ASSUME NEW b \in Attempt, NEW pc \in Pc \ {"expired"}, NEW tx \in Tx \cup {NoTx},
             GotoWith(b, pc, tx)
      PROVE  att'[a] = att[a]
  <2>1. Went(b, pc, tx) /\ \A d \in Attempt \ {b} : att'[d] = att[d]
    BY <1>1, GotoAttempts
  <2> QED
    BY <2>1 DEF Went
<1>2. ASSUME NEW b \in Attempt, Finish(b)
      PROVE  att'[a] = att[a]
  BY <1>2, FinishAttempts
<1>3. ASSUME NEW b \in Attempt, NEW pc \in Pc \ {"expired"}, Goto(b, pc)
      PROVE  att'[a] = att[a]
  <2>1. att[b].tx \in Tx \cup {NoTx}
    BY DEF TypeInv, AttemptRow
  <2> QED
    BY <1>1, <1>3, <2>1 DEF Goto
<1>4. {"exists", "reset", "prepare", "store", "recheck", "submit", "submitted", "complete",
       "invoice", "release"} \subseteq Pc \ {"expired"}
  BY DEF Pc
<1>5. ASSUME NEW b \in Attempt, CheckExists(b)
      PROVE  \/ att'[a] = att[a]
             \/ /\ att[a].pc = "exists" /\ ~OnLedger(att'[a].tx)
                /\ UNCHANGED <<now, network>>
  <2>1. CASE OnLedger(att[b].tx)
    BY <1>3, <1>4, <1>5, <2>1 DEF CheckExists
  <2>2. CASE ~OnLedger(att[b].tx)
    <3>1. GotoWith(b, "expired", att[b].tx)
      BY <1>5, <2>2 DEF CheckExists, Goto
    <3>2. att[b].tx \in Tx \cup {NoTx} /\ "expired" \in Pc
      BY DEF TypeInv, AttemptRow, Pc
    <3>3. Went(b, "expired", att[b].tx) /\ \A d \in Attempt \ {b} : att'[d] = att[d]
      BY <3>1, <3>2, GotoAttempts
    <3> QED
      BY <1>5, <2>2, <3>3 DEF Went, CheckExists
  <2> QED
    BY <2>1, <2>2
<1>6. ASSUME NEW b \in Attempt, Acquire(b)
      PROVE  att'[a] = att[a]
  BY <1>2, <1>6 DEF Acquire, TypeInv, AttemptRow
<1>7. ASSUME NEW b \in Attempt, ReserveDistribution(b)
      PROVE  att'[a] = att[a]
  <2>1. dist[att[b].wallet].tx \in Tx \cup {NoTx}
    BY <1>7 DEF ReserveDistribution, TypeInv, AttemptsBound, DistributionRow
  <2> QED
    BY <1>1, <1>3, <1>4, <1>7, <2>1 DEF ReserveDistribution, ReserveRow
<1>8. ASSUME NEW b \in Attempt, Prepare(b)
      PROVE  att'[a] = att[a]
  <2>1. CASE ReserveHolds
    <3>1. att[b].wallet \in Customer
      BY <1>8 DEF Prepare, TypeInv, AttemptsBound
    <3>2. [to |-> att[b].wallet, seq |-> seq + 1, maxTime |-> now + Validity] \in Tx
      BY <3>1, ParameterAssumption DEF TypeInv, Tx
    <3> QED
      BY <1>1, <1>4, <1>8, <2>1, <3>2 DEF Prepare
  <2> QED
    BY <1>3, <1>4, <1>8, <2>1 DEF Prepare
<1>9. ASSUME NEW b \in Attempt, AttemptAction(b)
      PROVE  \/ att'[a] = att[a]
             \/ /\ att[a].pc = "exists" /\ ~OnLedger(att'[a].tx)
                /\ UNCHANGED <<now, network>>
  BY <1>2, <1>3, <1>4, <1>5, <1>6, <1>7, <1>8, <1>9
  DEF AttemptAction, CheckExpired, ResetExpired, Store, Recheck, Submit, SubmitSucceeds,
      Complete, EnsureInvoice, Release, Fail, Crash
<1>10. ASSUME NEW b \in Attempt, NEW c \in Customer, Begin(b, c)
       PROVE  att'[a] = att[a]
  BY <1>10 DEF Begin, Fresh, TypeInv
<1>11. CASE UNCHANGED att
  BY <1>11
<1> QED
  BY <1>9, <1>10, <1>11, NextCases
  DEF Provision, SessionExpires, Resume, LedgerClose, HorizonIngest, Tick, vars

LEMMA AskedStep ==
  ASSUME TypeInv, AskedInPast, AskedBefore, SeenEarly, SeenEarly', Slack \in Nat,
         [Next]_vars, [AskStep]_<<vars, asked>>
  PROVE  AskedInPast' /\ AskedBefore'
<1>1. now \in Nat /\ now' \in Nat /\ now <= now'
  BY TypeStep, StepNetwork DEF TypeInv, NetworkEffects
<1>2. /\ asked' \in [Attempt -> Nat]
      /\ \A a \in Attempt :
           \/ asked'[a] = asked[a]
           \/ att[a].pc = "exists" /\ att'[a].pc = "expired" /\ asked'[a] = now
      /\ \A a \in Attempt : att[a].pc = "exists" /\ att'[a].pc = "expired" => asked'[a] = now
  <2>1. CASE AskStep
    BY <1>1, <2>1 DEF AskStep, AskedInPast
  <2>2. CASE UNCHANGED <<vars, asked>>
    BY <2>2 DEF vars, AskedInPast
  <2> QED
    BY <2>1, <2>2
<1>3. AskedInPast'
  BY <1>1, <1>2 DEF AskedInPast
<1>4. ASSUME NEW a \in Attempt, NEW e \in Included', att'[a].pc = "expired", att'[a].tx = e.tx
      PROVE  asked'[a] + Slack < e.tx.maxTime
  <2>1. e.tx.maxTime \in Nat /\ asked'[a] \in Nat /\ asked'[a] <= now' /\ Slack \in Nat
    BY <1>2, <1>3, TypeStep DEF AskedInPast, TypeInv, Included, Entry, Tx
  <2>2. CASE e \in closed'
    BY <1>1, <2>1, <2>2 DEF SeenEarly
  <2>3. CASE e \notin closed'
    <3>1. e \in Included
      BY <2>3, IncludedSteps
    <3>2. CASE att'[a] = att[a]
      BY <1>2, <1>4, <3>1, <3>2 DEF AskedBefore
    <3>3. CASE att[a].pc = "exists" /\ ~OnLedger(e.tx) /\ UNCHANGED network
      BY <1>4, <2>3, <3>1, <3>3 DEF OnLedger, Included, network
    <3> QED
      BY <1>4, <3>2, <3>3, AskSteps
  <2> QED
    BY <2>2, <2>3
<1> QED
  BY <1>3, <1>4 DEF AskedBefore

LEMMA EarlyIsInTime ==
  ASSUME TypeInv, AskedInPast, AskedBefore, SeenEarly, Prompt, Slack \in Nat
  PROVE  SeenInTime
<1> SUFFICES ASSUME NEW e \in Included,
                    e \in closed \/ \E a \in Attempt : att[a].pc = "expired" /\ att[a].tx = e.tx
             PROVE  now < e.tx.maxTime
  BY DEF SeenInTime
<1>1. now \in Nat /\ e.tx.maxTime \in Nat
  BY DEF TypeInv, Included, Entry, Tx
<1>2. CASE e \in closed
  BY <1>1, <1>2 DEF SeenEarly
<1>3. ASSUME NEW a \in Attempt, att[a].pc = "expired", att[a].tx = e.tx
      PROVE  now < e.tx.maxTime
  BY <1>1, <1>3 DEF AskedInPast, AskedBefore, Prompt
<1> QED
  BY <1>2, <1>3

(* If Horizon shows payments Slack before their bound and its 404 is acted *)
(* on within Slack, the resumed allowance of migration 0017 is the only    *)
(* one: no overlap of attempts, lost lease, crash or retry pays a wallet   *)
(* twice.                                                                  *)
THEOREM OneAllowanceWhenSeen ==
  ASSUME Slack \in Nat
  PROVE  TimedSpec => ([](SeenEarly /\ Prompt) => []OneAllowancePerWallet)
<1>1. Spec => []AllowanceInv
  BY AllowanceImplemented, AllowanceInvInit, AllowanceInvStep, PTL
  DEF RefinesAllowance, Allowance!Spec
<1>2. AllowanceInv /\ PaidStored => OneAllowancePerWallet
  BY DEF AllowanceInv, KnownPayments, PaidStored, Included, OneAllowancePerWallet
<1> DEFINE Asked == AskedInPast /\ AskedBefore
<1>3. Init /\ asked = [a \in Attempt |-> 0] => Asked
  BY DEF Init, AskedInPast, AskedBefore, Included
<1>4. /\ TypeInv /\ Asked /\ SeenEarly /\ SeenEarly' /\ [Next]_vars /\ [AskStep]_<<vars, asked>>
      => Asked'
  BY AskedStep
<1>5. TypeInv /\ Asked /\ SeenEarly /\ Prompt => SeenInTime
  BY EarlyIsInTime
<1> HIDE DEF Asked
<1>6. TimedSpec /\ [](SeenEarly /\ Prompt) => []SeenInTime
  BY <1>3, <1>4, <1>5, Invariants, PTL DEF Spec, TimedSpec
<1>7. Spec /\ []SeenInTime => []OneAllowancePerWallet
  BY <1>1, <1>2, SeenInit, SeenStep, Invariants, PTL DEF Spec
<1> QED
  BY <1>6, <1>7, PTL DEF TimedSpec

=============================================================================
