----------------------- MODULE DemoDistributionProofs -----------------------
(***************************************************************************)
(* Proofs about DemoDistribution for every set of wallets and attempts and *)
(* every value of the amounts and time constants.                          *)
(***************************************************************************)
EXTENDS DemoDistribution, TLAPS

AttemptAction(a) ==
    \/ Acquire(a) \/ ReserveDistribution(a) \/ CheckExists(a) \/ CheckExpired(a)
    \/ ResetExpired(a) \/ Prepare(a) \/ Store(a) \/ Recheck(a) \/ Submit(a)
    \/ SubmitSucceeds(a) \/ Complete(a) \/ EnsureInvoice(a) \/ Release(a)
    \/ Fail(a) \/ Crash(a)

LEMMA NextCases ==
  ASSUME Next
  PROVE  \/ \E c \in Customer : Provision(c) \/ SessionExpires(c) \/ Resume(c)
         \/ \E a \in Attempt, c \in Customer : Begin(a, c)
         \/ \E a \in Attempt : AttemptAction(a)
         \/ \E tx \in sent, ok \in BOOLEAN : LedgerClose(tx, ok)
         \/ \E e \in closed : HorizonIngest(e)
         \/ Tick
BY DEF Next, AttemptAction

-----------------------------------------------------------------------------
(* Type correctness: a running attempt has a wallet, and one that handles  *)
(* a transaction has that.                                                 *)
Handling == {"exists", "expired", "reset", "store", "recheck", "submit", "submitted",
             "complete"}

AttemptsBound ==
    \A a \in Attempt :
      /\ att[a].pc \notin {"new", "done"} => att[a].wallet \in Customer
      /\ att[a].pc \in Handling => att[a].tx \in Tx /\ att[a].tx.to = att[a].wallet

(* The transaction of a row is a payment to its wallet, and it is there    *)
(* exactly when the row is prepared or confirmed.                          *)
RowsBound ==
    \A c \in Customer :
      /\ dist[c].status \in {"prepared", "confirmed"} <=> dist[c].tx # NoTx
      /\ dist[c].tx # NoTx => dist[c].tx.to = c

(* The types without the balance, whose sign needs the argument below.     *)
TypeInv ==
    /\ now \in Nat
    /\ mutex \in [owner : Attempt \cup {NoOne}, lease : Nat]
    /\ session \in [Customer -> [token : Nat, open : BOOLEAN]]
    /\ dist \in [Customer -> DistributionRow]
    /\ att \in [Attempt -> AttemptRow]
    /\ sent \subseteq Tx
    /\ closed \subseteq Entry
    /\ ledger \subseteq Entry
    /\ seq \in Nat
    /\ balance \in Int
    /\ AttemptsBound /\ RowsBound

(* How one step may change an attempt.                                     *)
Went(a, pc, tx) ==
    att'[a] = [pc |-> pc, wallet |-> att[a].wallet, token |-> 0, at |-> 0, tx |-> tx]

LEMMA GotoAttempts ==
  ASSUME TypeInv, NEW a \in Attempt, NEW pc \in Pc, NEW tx \in Tx \cup {NoTx},
         GotoWith(a, pc, tx)
  PROVE  /\ att' \in [Attempt -> AttemptRow]
         /\ Went(a, pc, tx)
         /\ \A b \in Attempt \ {a} : att'[b] = att[b]
<1>1. att[a] \in AttemptRow
  BY DEF TypeInv
<1>2. att'[a] = [att[a] EXCEPT !.pc = pc, !.token = 0, !.at = 0, !.tx = tx]
  BY DEF GotoWith, TypeInv
<1>3. Went(a, pc, tx)
  BY <1>1, <1>2 DEF Went, AttemptRow
<1>4. att'[a] \in AttemptRow
  BY <1>1, <1>3 DEF Went, AttemptRow
<1> QED
  BY <1>3, <1>4 DEF GotoWith, TypeInv

LEMMA FinishAttempts ==
  ASSUME TypeInv, NEW a \in Attempt, Finish(a)
  PROVE  /\ att' \in [Attempt -> AttemptRow]
         /\ att'[a].pc = "done"
         /\ \A b \in Attempt \ {a} : att'[b] = att[b]
<1>1. [Fresh EXCEPT !.pc = "done"] \in AttemptRow /\ [Fresh EXCEPT !.pc = "done"].pc = "done"
  BY DEF Fresh, AttemptRow, Pc
<1> QED
  BY <1>1 DEF Finish, TypeInv

(* An attempt that goes on with what it has stays well bound.              *)
LEMMA GotoTypes ==
  ASSUME TypeInv, NEW a \in Attempt, NEW pc \in Pc \ {"new", "done"},
         NEW tx \in Tx \cup {NoTx}, GotoWith(a, pc, tx),
         att[a].pc \notin {"new", "done"},
         pc \in Handling => tx \in Tx /\ tx.to = att[a].wallet
  PROVE  att' \in [Attempt -> AttemptRow] /\ AttemptsBound'
<1>1. /\ att' \in [Attempt -> AttemptRow]
      /\ att'[a].pc = pc /\ att'[a].wallet = att[a].wallet /\ att'[a].tx = tx
      /\ \A b \in Attempt \ {a} : att'[b] = att[b]
  <2>1. pc \in Pc
    OBVIOUS
  <2>2. Went(a, pc, tx)
    BY <2>1, GotoAttempts
  <2> QED
    BY <2>1, <2>2, GotoAttempts DEF Went
<1>2. att[a].wallet \in Customer
  BY DEF TypeInv, AttemptsBound
<1>3. ASSUME NEW b \in Attempt
      PROVE  /\ att'[b].pc \notin {"new", "done"} => att'[b].wallet \in Customer
             /\ att'[b].pc \in Handling => att'[b].tx \in Tx /\ att'[b].tx.to = att'[b].wallet
  <2>1. CASE b = a
    BY <1>1, <1>2, <2>1
  <2>2. CASE b # a
    BY <1>1, <2>2 DEF TypeInv, AttemptsBound
  <2> QED
    BY <2>1, <2>2
<1> QED
  BY <1>1, <1>3 DEF AttemptsBound

LEMMA FinishTypes ==
  ASSUME TypeInv, NEW a \in Attempt, Finish(a)
  PROVE  att' \in [Attempt -> AttemptRow] /\ AttemptsBound'
BY FinishAttempts DEF AttemptsBound, TypeInv, Handling

(* A row written for one wallet.                                           *)
LEMMA RowTypes ==
  ASSUME TypeInv, NEW c \in Customer, NEW row \in DistributionRow,
         dist' = [dist EXCEPT ![c] = row],
         row.status \in {"prepared", "confirmed"} <=> row.tx # NoTx,
         row.tx # NoTx => row.tx.to = c
  PROVE  dist' \in [Customer -> DistributionRow] /\ RowsBound'
BY DEF TypeInv, RowsBound

LEMMA InvoiceTypes ==
  ASSUME TypeInv, NEW c \in Customer, dist' = [dist EXCEPT ![c].invoice = TRUE]
  PROVE  dist' \in [Customer -> DistributionRow] /\ RowsBound'
<1> DEFINE row == [dist[c] EXCEPT !.invoice = TRUE]
<1>1. row \in DistributionRow /\ row.status = dist[c].status /\ row.tx = dist[c].tx
  BY DEF TypeInv, DistributionRow
<1>2. dist' = [dist EXCEPT ![c] = row]
  OBVIOUS
<1> HIDE DEF row
<1>3. /\ row.status \in {"prepared", "confirmed"} <=> row.tx # NoTx
      /\ row.tx # NoTx => row.tx.to = c
  BY <1>1 DEF TypeInv, RowsBound
<1> QED
  BY <1>1, <1>2, <1>3, RowTypes

LEMMA AttemptTypes ==
  ASSUME TypeInv, NEW a \in Attempt, AttemptAction(a)
  PROVE  TypeInv'
<1> USE DEF TypeInv
<1> DEFINE c == att[a].wallet
           Kept == att' \in [Attempt -> AttemptRow] /\ AttemptsBound'
<1>1. att[a] \in AttemptRow /\ att[a].tx \in Tx \cup {NoTx}
  BY DEF AttemptRow
<1>2. att[a].pc \notin {"new", "done"} =>
        /\ c \in Customer /\ dist[c] \in DistributionRow
        /\ dist[c].tx \in Tx \cup {NoTx}
  BY DEF AttemptsBound, DistributionRow
<1>3. att[a].pc \in Handling => att[a].tx \in Tx /\ att[a].tx.to = c
  BY DEF AttemptsBound
<1>4. ASSUME NEW pc \in Pc \ ({"new", "done"} \cup Handling), Goto(a, pc),
             att[a].pc \notin {"new", "done"}
      PROVE  Kept
  BY <1>1, <1>4, GotoTypes DEF Goto
<1>5. ASSUME NEW pc \in Handling, Goto(a, pc), att[a].pc \in Handling
      PROVE  Kept
  <2>1. pc \in Pc \ {"new", "done"} /\ att[a].pc \notin {"new", "done"}
    BY <1>5 DEF Handling, Pc
  <2> QED
    BY <1>3, <1>5, <2>1, GotoTypes DEF Goto
<1>6. {"release", "prepare", "invoice"} \subseteq Pc \ ({"new", "done"} \cup Handling)
  BY DEF Pc, Handling
<1>7. CASE Acquire(a)
  <2>1. PICK at \in att[a].at..now :
          IF MutexFree(at)
            THEN /\ mutex' = [owner |-> a, lease |-> at + Lease]
                 /\ att' = [att EXCEPT ![a].pc = "reserve", ![a].at = now]
            ELSE UNCHANGED mutex /\ Finish(a)
    BY <1>7 DEF Acquire
  <2>2. at \in Nat
    BY <1>1, <2>1 DEF AttemptRow
  <2>3. CASE UNCHANGED mutex /\ Finish(a)
    BY <1>7, <2>3, FinishTypes DEF Acquire, RowsBound, network
  <2>4. CASE /\ mutex' = [owner |-> a, lease |-> at + Lease]
             /\ att' = [att EXCEPT ![a].pc = "reserve", ![a].at = now]
    <3>1. mutex' \in [owner : Attempt \cup {NoOne}, lease : Nat]
      BY <2>2, <2>4, ParameterAssumption
    <3>2. att'[a] = [att[a] EXCEPT !.pc = "reserve", !.at = now]
      BY <2>4
    <3>3. /\ att'[a] \in AttemptRow /\ att'[a].pc = "reserve" /\ att'[a].wallet = c
      BY <1>1, <3>2 DEF AttemptRow, Pc
    <3>4. att' \in [Attempt -> AttemptRow] /\ \A b \in Attempt \ {a} : att'[b] = att[b]
      BY <2>4, <3>3
    <3>5. c \in Customer
      BY <1>2, <1>7 DEF Acquire
    <3>6. AttemptsBound'
      BY <3>3, <3>4, <3>5 DEF AttemptsBound, Handling
    <3> QED
      BY <1>7, <3>1, <3>4, <3>6 DEF Acquire, RowsBound, network
  <2> QED
    BY <2>1, <2>3, <2>4
<1>8. CASE ReserveDistribution(a)
  <2>1. c \in Customer /\ att[a].pc \notin {"new", "done"}
    BY <1>2, <1>8 DEF ReserveDistribution
  <2>2. session' \in [Customer -> [token : Nat, open : BOOLEAN]]
    BY <1>8 DEF ReserveDistribution, ReserveRow
  <2>3. dist' \in [Customer -> DistributionRow] /\ RowsBound'
    <3>1. CASE UNCHANGED dist
      BY <3>1 DEF RowsBound
    <3>2. CASE dist' = [dist EXCEPT ![c].key = a]
      <4>1. [dist[c] EXCEPT !.key = a] \in DistributionRow
        BY <1>2, <2>1 DEF DistributionRow
      <4>2. /\ [dist[c] EXCEPT !.key = a].status = dist[c].status
            /\ [dist[c] EXCEPT !.key = a].tx = dist[c].tx
        BY <1>2, <2>1 DEF DistributionRow
      <4> QED
        BY <2>1, <3>2, <4>1, <4>2, RowTypes DEF RowsBound
    <3>3. CASE dist' = [dist EXCEPT ![c] = [NoRow EXCEPT !.status = "preparing", !.key = a]]
      BY <2>1, <3>3, RowTypes DEF NoRow, DistributionRow, Status
    <3> QED
      BY <1>8, <3>1, <3>2, <3>3 DEF ReserveDistribution, ReserveRow
  <2>4. Kept
    <3>1. CASE Goto(a, "release") \/ Goto(a, "prepare")
      BY <1>4, <1>6, <2>1, <3>1
    <3>2. CASE GotoWith(a, "invoice", dist[c].tx)
      BY <1>2, <2>1, <3>2, GotoTypes DEF Pc, Handling
    <3>3. CASE GotoWith(a, "exists", dist[c].tx) /\ dist[c].status = "prepared"
      <4>1. dist[c].tx \in Tx /\ dist[c].tx.to = c
        BY <1>2, <2>1, <3>3 DEF RowsBound
      <4> QED
        BY <2>1, <3>3, <4>1, GotoTypes DEF Pc
    <3> QED
      BY <1>8, <3>1, <3>2, <3>3 DEF ReserveDistribution, ReserveRow
  <2> QED
    BY <1>8, <2>2, <2>3, <2>4 DEF ReserveDistribution, network
<1>9. CASE ResetExpired(a)
  <2>1. c \in Customer /\ att[a].pc \notin {"new", "done"}
    BY <1>2, <1>9 DEF ResetExpired
  <2>2. Kept
    BY <1>4, <1>6, <1>9, <2>1 DEF ResetExpired
  <2>3. dist' \in [Customer -> DistributionRow] /\ RowsBound'
    <3>1. CASE UNCHANGED dist
      BY <3>1 DEF RowsBound
    <3>2. CASE dist' = [dist EXCEPT ![c].status = "preparing", ![c].key = a, ![c].tx = NoTx]
      <4> DEFINE row == [dist[c] EXCEPT !.status = "preparing", !.key = a, !.tx = NoTx]
      <4>1. row \in DistributionRow /\ row.status = "preparing" /\ row.tx = NoTx
        BY <1>2, <2>1 DEF DistributionRow, Status
      <4>2. dist' = [dist EXCEPT ![c] = row]
        BY <3>2
      <4> HIDE DEF row
      <4> QED
        BY <2>1, <4>1, <4>2, RowTypes
    <3> QED
      BY <1>9, <3>1, <3>2 DEF ResetExpired
  <2> QED
    BY <1>9, <2>2, <2>3 DEF ResetExpired, network
<1>10. CASE Prepare(a)
  <2>1. c \in Customer /\ att[a].pc \notin {"new", "done"}
    BY <1>2, <1>10 DEF Prepare
  <2>2. CASE Goto(a, "release")
    BY <1>4, <1>6, <1>10, <2>1, <2>2 DEF Prepare, RowsBound, db, network
  <2>3. CASE GotoWith(a, "store", [to |-> c, seq |-> seq + 1, maxTime |-> now + Validity])
    <3>1. /\ [to |-> c, seq |-> seq + 1, maxTime |-> now + Validity] \in Tx
          /\ [to |-> c, seq |-> seq + 1, maxTime |-> now + Validity].to = c
      BY <2>1, ParameterAssumption DEF Tx
    <3>2. Kept
      BY <2>1, <2>3, <3>1, GotoTypes DEF Pc
    <3> QED
      BY <1>10, <3>2 DEF Prepare, RowsBound, db, network
  <2> QED
    BY <1>10, <2>2, <2>3 DEF Prepare
<1>11. CASE Store(a)
  <2>1. /\ c \in Customer /\ att[a].pc \in Handling
        /\ att[a].pc \notin {"new", "done"} /\ "recheck" \in Handling
        /\ att[a].tx \in Tx /\ att[a].tx.to = c
    BY <1>2, <1>3, <1>11 DEF Store, Handling
  <2>2. Kept
    BY <1>4, <1>5, <1>6, <1>11, <2>1 DEF Store
  <2>3. dist' \in [Customer -> DistributionRow] /\ RowsBound'
    <3>1. CASE UNCHANGED dist
      BY <3>1 DEF RowsBound
    <3>2. CASE dist' = [dist EXCEPT ![c].status = "prepared", ![c].tx = att[a].tx]
      <4> DEFINE row == [dist[c] EXCEPT !.status = "prepared", !.tx = att[a].tx]
      <4>1. row \in DistributionRow /\ row.status = "prepared" /\ row.tx = att[a].tx
        BY <1>2, <2>1 DEF DistributionRow, Status
      <4>2. dist' = [dist EXCEPT ![c] = row]
        BY <3>2
      <4> HIDE DEF row
      <4> QED
        BY <2>1, <4>1, <4>2, RowTypes, NoTxAssumption
    <3> QED
      BY <1>11, <3>1, <3>2 DEF Store
  <2> QED
    BY <1>11, <2>2, <2>3 DEF Store, network
<1>12. CASE Complete(a)
  <2>1. /\ c \in Customer /\ att[a].pc \in Handling
        /\ att[a].pc \notin {"new", "done"} /\ att[a].tx \in Tx
    BY <1>2, <1>3, <1>12 DEF Complete, Handling
  <2>2. Kept
    BY <1>4, <1>6, <1>12, <2>1 DEF Complete
  <2>3. dist' \in [Customer -> DistributionRow] /\ RowsBound'
    <3>1. CASE UNCHANGED dist
      BY <3>1 DEF RowsBound
    <3>2. CASE /\ dist[c].status \in {"prepared", "confirmed"}
               /\ dist' = [dist EXCEPT ![c].status = "confirmed"]
      <4> DEFINE row == [dist[c] EXCEPT !.status = "confirmed"]
      <4>1. row \in DistributionRow /\ row.status = "confirmed" /\ row.tx = dist[c].tx
        BY <1>2, <2>1 DEF DistributionRow, Status
      <4>2. dist' = [dist EXCEPT ![c] = row]
        BY <3>2
      <4>3. dist[c].tx # NoTx /\ dist[c].tx.to = c
        BY <2>1, <3>2 DEF RowsBound
      <4> HIDE DEF row
      <4> QED
        BY <2>1, <4>1, <4>2, <4>3, RowTypes
    <3> QED
      BY <1>12, <3>1, <3>2 DEF Complete
  <2> QED
    BY <1>12, <2>2, <2>3 DEF Complete, network
<1>13. CASE CheckExists(a) \/ CheckExpired(a) \/ Recheck(a) \/ SubmitSucceeds(a)
  <2>1. /\ att[a].pc \in Handling
        /\ \E pc \in Handling : Goto(a, pc)
        /\ UNCHANGED <<now, db, network>>
    BY <1>13 DEF CheckExists, CheckExpired, Recheck, SubmitSucceeds, Handling
  <2>2. Kept
    BY <1>5, <2>1
  <2> QED
    BY <2>1, <2>2 DEF RowsBound, db, network
<1>14. CASE Submit(a)
  <2>1. /\ att[a].pc \in Handling /\ Goto(a, "submitted")
        /\ "submitted" \in Handling
    BY <1>14 DEF Submit, Handling
  <2>2. Kept
    BY <1>5, <2>1
  <2>3. sent' \subseteq Tx
    BY <1>3, <1>14, <2>1 DEF Submit
  <2> QED
    BY <1>14, <2>2, <2>3 DEF Submit, RowsBound, db
<1>15. CASE EnsureInvoice(a)
  <2>1. /\ c \in Customer /\ att[a].pc \notin {"new", "done"}
        /\ dist[c].status = "confirmed" /\ dist' = [dist EXCEPT ![c].invoice = TRUE]
    BY <1>2, <1>15 DEF EnsureInvoice, EnsureDemoInvoice
  <2>2. Kept
    BY <1>4, <1>6, <1>15, <2>1 DEF EnsureInvoice
  <2>3. dist' \in [Customer -> DistributionRow] /\ RowsBound'
    BY <2>1, InvoiceTypes
  <2> QED
    BY <1>15, <2>2, <2>3 DEF EnsureInvoice, network
<1>16. CASE Release(a)
  <2>1. mutex' \in [owner : Attempt \cup {NoOne}, lease : Nat]
    BY <1>16 DEF Release
  <2>2. Kept
    BY <1>16, FinishTypes DEF Release
  <2> QED
    BY <1>16, <2>1, <2>2 DEF Release, RowsBound, network
<1>17. CASE Fail(a)
  <2>1. Kept
    BY <1>4, <1>6, <1>17 DEF Fail
  <2> QED
    BY <1>17, <2>1 DEF Fail, RowsBound, db, network
<1>18. CASE Crash(a)
  <2>1. Kept
    BY <1>18, FinishTypes DEF Crash
  <2> QED
    BY <1>18, <2>1 DEF Crash, RowsBound, db, network
<1> QED
  BY <1>7, <1>8, <1>9, <1>10, <1>11, <1>12, <1>13, <1>14, <1>15, <1>16, <1>17, <1>18
  DEF AttemptAction

LEMMA TypeStep ==
  ASSUME TypeInv, [Next]_vars
  PROVE  TypeInv'
<1> USE DEF TypeInv
<1>1. ASSUME NEW c \in Customer, Provision(c) \/ SessionExpires(c)
      PROVE  TypeInv'
  <2>1. session' \in [Customer -> [token : Nat, open : BOOLEAN]]
    <3>1. session[c] \in [token : Nat, open : BOOLEAN]
      OBVIOUS
    <3>2. CASE session' = [session EXCEPT ![c] = [token |-> session[c].token + 1,
                                                 open |-> TRUE]]
      BY <3>1, <3>2
    <3>3. CASE session' = [session EXCEPT ![c].open = FALSE]
      BY <3>1, <3>3
    <3> QED
      BY <1>1, <3>2, <3>3 DEF Provision, SessionExpires
  <2> QED
    BY <1>1, <2>1 DEF Provision, SessionExpires, AttemptsBound, RowsBound, network
<1>2. ASSUME NEW c \in Customer, Resume(c)
      PROVE  TypeInv'
  <2>1. dist' \in [Customer -> DistributionRow] /\ RowsBound'
    BY <1>2, InvoiceTypes DEF Resume, EnsureDemoInvoice
  <2> QED
    BY <1>2, <2>1 DEF Resume, AttemptsBound, network
<1>3. ASSUME NEW a \in Attempt, NEW c \in Customer, Begin(a, c)
      PROVE  TypeInv'
  <2> DEFINE row == [Fresh EXCEPT !.pc = "acquire", !.wallet = c,
                                  !.token = session[c].token, !.at = now]
  <2>1. row \in AttemptRow /\ row.pc = "acquire" /\ row.wallet = c
    BY DEF Fresh, AttemptRow, Pc
  <2>2. att' = [att EXCEPT ![a] = row]
    BY <1>3 DEF Begin
  <2> HIDE DEF row
  <2>3. att' \in [Attempt -> AttemptRow] /\ AttemptsBound'
    BY <2>1, <2>2 DEF AttemptsBound, Handling
  <2> QED
    BY <1>3, <2>3 DEF Begin, RowsBound, db, network
<1>4. ASSUME NEW tx \in sent, NEW ok \in BOOLEAN, LedgerClose(tx, ok)
      PROVE  TypeInv'
  <2>1. closed' \subseteq Entry
    BY <1>4 DEF LedgerClose, Entry
  <2> QED
    BY <1>4, <2>1 DEF LedgerClose, AttemptsBound, RowsBound, db
<1>5. ASSUME NEW e \in closed, HorizonIngest(e)
      PROVE  TypeInv'
  <2>1. /\ closed' \subseteq Entry /\ ledger' \subseteq Entry
        /\ seq' \in Nat /\ balance' \in Int
    BY <1>5, ParameterAssumption DEF HorizonIngest
  <2> QED
    BY <1>5, <2>1 DEF HorizonIngest, AttemptsBound, RowsBound, db
<1>6. CASE Tick
  BY <1>6 DEF Tick, AttemptsBound, RowsBound, db, network
<1>7. CASE UNCHANGED vars
  BY <1>7 DEF vars, AttemptsBound, RowsBound
<1>8. CASE Next
  BY <1>1, <1>2, <1>3, <1>4, <1>5, <1>6, <1>8, NextCases, AttemptTypes
<1> QED
  BY <1>7, <1>8

LEMMA TypeInit == Init => TypeInv
BY ParameterAssumption
DEF Init, TypeInv, AttemptsBound, RowsBound, Fresh, NoRow, AttemptRow, Pc, DistributionRow,
    Status, Handling

-----------------------------------------------------------------------------
(* What one step may do to a row and to an attempt.                        *)

RowEffect(c) ==
    \/ dist'[c].tx = dist[c].tx /\ dist'[c].status = dist[c].status
    \/ /\ dist[c].status = "none" /\ dist'[c].status = "preparing"
       /\ dist'[c].tx = NoTx
    \/ /\ dist[c].status = "prepared" /\ dist'[c].status = "preparing"
       /\ dist'[c].tx = NoTx
       /\ \E a \in Attempt : att[a].pc = "reset" /\ att[a].tx = dist[c].tx
    \/ /\ dist[c].status = "preparing" /\ dist'[c].status = "prepared"
       /\ \E a \in Attempt :
            /\ att[a].pc = "store" /\ att[a].wallet = c /\ HoldsReservation(a, c)
            /\ dist'[c].tx = att[a].tx
    \/ /\ dist[c].status \in {"prepared", "confirmed"} /\ dist'[c].status = "confirmed"
       /\ dist'[c].tx = dist[c].tx
       /\ \E a \in Attempt : att[a].pc = "complete" /\ att[a].tx = dist[c].tx

(* A reservation changes hands only to the attempt that goes on to prepare.*)
ReservationEffect(a, c) ==
    HoldsReservation(a, c)' => HoldsReservation(a, c) \/ att'[a].pc = "prepare"

KeptEffect(a) ==
    /\ att'[a].tx = att[a].tx /\ att'[a].wallet = att[a].wallet
    /\ att[a].pc \in Handling /\ att'[a].pc # "store"
    /\ att'[a].pc = "reset" => att[a].pc = "expired" /\ Expired(att[a].tx)
    /\ att'[a].pc = "complete" => OnLedger(att[a].tx)
    /\ att'[a].pc \in Carrying =>
         \/ att[a].pc \in Carrying
         \/ dist'[att[a].wallet].tx = att[a].tx

AttemptEffect(a) ==
    att'[a].pc \in Handling =>
      \/ att'[a] = att[a]
      \/ KeptEffect(a)
      \/ /\ att'[a].pc = "exists"
         /\ dist[att'[a].wallet].tx = att'[a].tx
      \/ /\ att'[a].pc = "store" /\ ReserveHolds
         /\ att'[a].tx.seq = seq + 1

Effects ==
    /\ \A c \in Customer : RowEffect(c)
    /\ \A a \in Attempt : AttemptEffect(a)
    /\ \A a \in Attempt, c \in Customer : ReservationEffect(a, c)

(* A step that leaves the rows and the attempts alone has no effect.       *)
LEMMA QuietEffects ==
  ASSUME UNCHANGED <<dist, att>>
  PROVE  Effects
BY DEF Effects, RowEffect, AttemptEffect, ReservationEffect, HoldsReservation

(* A step of one attempt, on the row of one wallet.                        *)
LEMMA LocalEffects ==
  ASSUME NEW a \in Attempt, NEW c \in Customer,
         \A b \in Attempt \ {a} : att'[b] = att[b],
         \A d \in Customer \ {c} : dist'[d] = dist[d],
         AttemptEffect(a), RowEffect(c),
         dist'[c].key = dist[c].key \/ (dist'[c].key = a /\ att'[a].pc = "prepare"),
         dist'[c].status = "preparing" =>
           dist[c].status = "preparing" \/ (dist'[c].key = a /\ att'[a].pc = "prepare")
  PROVE  Effects
<1>1. ASSUME NEW b \in Attempt
      PROVE  AttemptEffect(b)
  <2>1. CASE b = a
    BY <2>1
  <2>2. CASE b # a
    BY <2>2 DEF AttemptEffect
  <2> QED
    BY <2>1, <2>2
<1>2. ASSUME NEW d \in Customer
      PROVE  RowEffect(d)
  <2>1. CASE d = c
    BY <2>1
  <2>2. CASE d # c
    BY <2>2 DEF RowEffect
  <2> QED
    BY <2>1, <2>2
<1>3. ASSUME NEW b \in Attempt, NEW d \in Customer
      PROVE  ReservationEffect(b, d)
  BY DEF ReservationEffect, HoldsReservation
<1> QED
  BY <1>1, <1>2, <1>3 DEF Effects

LEMMA AttemptEffects ==
  ASSUME TypeInv, NEW a \in Attempt, AttemptAction(a)
  PROVE  Effects
<1> USE DEF TypeInv
<1> DEFINE c == att[a].wallet
<1>1. att[a] \in AttemptRow /\ att[a].tx \in Tx \cup {NoTx}
  BY DEF AttemptRow
<1>2. att[a].pc \notin {"new", "done"} =>
        /\ c \in Customer /\ dist[c] \in DistributionRow
        /\ dist[c].tx \in Tx \cup {NoTx}
  BY DEF AttemptsBound, DistributionRow
<1>3. ASSUME NEW pc \in Pc, NEW tx \in Tx \cup {NoTx}, GotoWith(a, pc, tx)
      PROVE  /\ att'[a].pc = pc /\ att'[a].tx = tx /\ att'[a].wallet = c
             /\ \A b \in Attempt \ {a} : att'[b] = att[b]
  <2>1. Went(a, pc, tx) /\ \A b \in Attempt \ {a} : att'[b] = att[b]
    BY <1>3, GotoAttempts
  <2> QED
    BY <2>1 DEF Went
<1>4. ASSUME NEW pc \in Pc, Goto(a, pc)
      PROVE  /\ att'[a].pc = pc /\ att'[a].tx = att[a].tx /\ att'[a].wallet = c
             /\ \A b \in Attempt \ {a} : att'[b] = att[b]
  BY <1>1, <1>3, <1>4 DEF Goto
<1>5. ASSUME UNCHANGED dist, att'[a].pc \notin Handling,
             \A b \in Attempt \ {a} : att'[b] = att[b]
      PROVE  Effects
  BY <1>5 DEF Effects, RowEffect, AttemptEffect, ReservationEffect, HoldsReservation,
     Handling
<1>6. {"release", "prepare", "invoice"} \subseteq Pc \ Handling
  BY DEF Pc, Handling
<1>7. ASSUME NEW pc \in Handling \ {"store"}, Goto(a, pc), UNCHANGED dist,
             att[a].pc \in Handling,
             pc = "reset" => att[a].pc = "expired" /\ Expired(att[a].tx),
             pc = "complete" => OnLedger(att[a].tx),
             pc \in Carrying => att[a].pc \in Carrying
      PROVE  Effects
  <2>1. c \in Customer
    BY <1>2, <1>7 DEF Handling
  <2>2. AttemptEffect(a)
    BY <1>4, <1>7 DEF AttemptEffect, KeptEffect, Handling, Pc
  <2>3. RowEffect(c)
    BY <1>7 DEF RowEffect
  <2>4. \A b \in Attempt \ {a} : att'[b] = att[b]
    BY <1>4, <1>7 DEF Handling, Pc
  <2> QED
    BY <1>7, <2>1, <2>2, <2>3, <2>4, LocalEffects
<1>8. CASE Acquire(a)
  <2>1. UNCHANGED dist /\ \A b \in Attempt \ {a} : att'[b] = att[b]
    BY <1>8, FinishAttempts DEF Acquire
  <2>2. att'[a].pc \in {"reserve", "done"}
    <3>1. CASE Finish(a)
      BY <3>1, FinishAttempts
    <3>2. CASE att' = [att EXCEPT ![a].pc = "reserve", ![a].at = now]
      BY <1>1, <3>2 DEF AttemptRow
    <3> QED
      BY <1>8, <3>1, <3>2 DEF Acquire
  <2> QED
    BY <1>5, <2>1, <2>2 DEF Handling
<1>9. CASE ReserveDistribution(a)
  <2>1. c \in Customer /\ dist[c] \in DistributionRow /\ dist[c].tx \in Tx \cup {NoTx}
    BY <1>2, <1>9 DEF ReserveDistribution
  <2>2. CASE UNCHANGED dist /\ Goto(a, "release")
    BY <1>4, <1>5, <1>6, <2>2
  <2>3. CASE UNCHANGED dist /\ GotoWith(a, "invoice", dist[c].tx)
    BY <1>3, <1>5, <1>6, <2>1, <2>3
  <2>4. CASE UNCHANGED dist /\ GotoWith(a, "exists", dist[c].tx)
    <3>1. AttemptEffect(a) /\ \A b \in Attempt \ {a} : att'[b] = att[b]
      BY <1>3, <2>1, <2>4 DEF AttemptEffect, Pc
    <3> QED
      BY <2>1, <2>4, <3>1, LocalEffects DEF RowEffect
  <2>5. CASE dist' = [dist EXCEPT ![c].key = a] /\ Goto(a, "prepare")
    <3>1. /\ dist'[c].key = a /\ dist'[c].status = dist[c].status
          /\ dist'[c].tx = dist[c].tx
          /\ \A d \in Customer \ {c} : dist'[d] = dist[d]
      BY <2>1, <2>5 DEF DistributionRow
    <3>2. att'[a].pc = "prepare" /\ \A b \in Attempt \ {a} : att'[b] = att[b]
      BY <1>4, <1>6, <2>5
    <3>3. AttemptEffect(a) /\ RowEffect(c)
      BY <3>1, <3>2 DEF AttemptEffect, Handling, RowEffect
    <3> QED
      BY <2>1, <3>1, <3>2, <3>3, LocalEffects
  <2>6. CASE /\ dist[c].status = "none" /\ Goto(a, "prepare")
             /\ dist' = [dist EXCEPT ![c] = [NoRow EXCEPT !.status = "preparing", !.key = a]]
    <3>1. /\ dist'[c].key = a /\ dist'[c].status = "preparing"
          /\ dist'[c].tx = NoTx
          /\ \A d \in Customer \ {c} : dist'[d] = dist[d]
      BY <2>1, <2>6 DEF NoRow
    <3>2. att'[a].pc = "prepare" /\ \A b \in Attempt \ {a} : att'[b] = att[b]
      BY <1>4, <1>6, <2>6
    <3>3. AttemptEffect(a) /\ RowEffect(c)
      BY <2>6, <3>1, <3>2 DEF AttemptEffect, Handling, RowEffect
    <3> QED
      BY <2>1, <3>1, <3>2, <3>3, LocalEffects
  <2> QED
    BY <1>9, <2>2, <2>3, <2>4, <2>5, <2>6 DEF ReserveDistribution, ReserveRow
<1>10. CASE CheckExists(a) \/ CheckExpired(a) \/ Recheck(a)
  <2>1. UNCHANGED dist /\ att[a].pc \in Handling /\ att[a].pc \in Carrying
    BY <1>10 DEF CheckExists, CheckExpired, Recheck, Handling, Carrying, db
  <2>2. \E pc \in Handling \ {"store"} :
          /\ Goto(a, pc)
          /\ pc = "reset" => att[a].pc = "expired" /\ Expired(att[a].tx)
          /\ pc = "complete" => OnLedger(att[a].tx)
    BY <1>10 DEF CheckExists, CheckExpired, Recheck, Handling
  <2> QED
    BY <1>7, <2>1, <2>2
<1>11. CASE Submit(a)
  BY <1>7, <1>11 DEF Submit, Handling, Carrying, db
<1>12. CASE SubmitSucceeds(a)
  <2>1. OnLedger(att[a].tx)
    BY <1>12 DEF SubmitSucceeds, OnLedger
  <2> QED
    BY <1>7, <1>12, <2>1 DEF SubmitSucceeds, Handling, Carrying, db
<1>13. CASE Prepare(a)
  <2>1. c \in Customer /\ UNCHANGED dist
    BY <1>2, <1>13 DEF Prepare, db
  <2>2. CASE Goto(a, "release")
    BY <1>4, <1>5, <1>6, <2>1, <2>2
  <2>3. CASE /\ ReserveHolds
             /\ GotoWith(a, "store", [to |-> c, seq |-> seq + 1, maxTime |-> now + Validity])
    <3> DEFINE tx == [to |-> c, seq |-> seq + 1, maxTime |-> now + Validity]
    <3>1. tx \in Tx /\ tx.seq = seq + 1
      BY <2>1, ParameterAssumption DEF Tx
    <3>2. GotoWith(a, "store", tx)
      BY <2>3
    <3> HIDE DEF tx
    <3>3. AttemptEffect(a) /\ \A b \in Attempt \ {a} : att'[b] = att[b]
      BY <1>3, <2>3, <3>1, <3>2 DEF AttemptEffect, Pc
    <3> QED
      BY <2>1, <3>3, LocalEffects DEF RowEffect
  <2> QED
    BY <1>13, <2>2, <2>3 DEF Prepare
<1>14. CASE ResetExpired(a)
  <2>1. c \in Customer /\ dist[c] \in DistributionRow
    BY <1>2, <1>14 DEF ResetExpired
  <2>2. CASE UNCHANGED dist /\ Goto(a, "release")
    BY <1>4, <1>5, <1>6, <2>2
  <2>3. CASE /\ dist[c].status = "prepared" /\ dist[c].tx = att[a].tx /\ Goto(a, "prepare")
             /\ dist' = [dist EXCEPT ![c].status = "preparing", ![c].key = a, ![c].tx = NoTx]
    <3>1. /\ dist'[c].key = a /\ dist'[c].status = "preparing"
          /\ dist'[c].tx = NoTx
          /\ \A d \in Customer \ {c} : dist'[d] = dist[d]
      BY <2>1, <2>3 DEF DistributionRow
    <3>2. att'[a].pc = "prepare" /\ \A b \in Attempt \ {a} : att'[b] = att[b]
      BY <1>4, <1>6, <2>3
    <3>3. AttemptEffect(a)
      BY <3>2 DEF AttemptEffect, Handling
    <3>4. RowEffect(c)
      BY <1>14, <2>3, <3>1 DEF ResetExpired, RowEffect
    <3> QED
      BY <2>1, <3>1, <3>2, <3>3, <3>4, LocalEffects
  <2> QED
    BY <1>14, <2>2, <2>3 DEF ResetExpired
<1>15. CASE Store(a)
  <2>1. c \in Customer /\ dist[c] \in DistributionRow
    BY <1>2, <1>15 DEF Store
  <2>2. CASE UNCHANGED dist /\ Goto(a, "release")
    BY <1>4, <1>5, <1>6, <2>2
  <2>3. CASE /\ HoldsReservation(a, c) /\ Goto(a, "recheck")
             /\ dist' = [dist EXCEPT ![c].status = "prepared", ![c].tx = att[a].tx]
    <3>1. /\ dist'[c].key = dist[c].key /\ dist'[c].status = "prepared"
          /\ dist'[c].tx = att[a].tx
          /\ \A d \in Customer \ {c} : dist'[d] = dist[d]
      BY <2>1, <2>3 DEF DistributionRow
    <3>2. /\ att'[a].pc = "recheck" /\ att'[a].tx = att[a].tx /\ att'[a].wallet = c
          /\ \A b \in Attempt \ {a} : att'[b] = att[b]
      BY <1>4, <2>3 DEF Pc
    <3>3. AttemptEffect(a)
      BY <1>15, <3>1, <3>2 DEF Store, AttemptEffect, KeptEffect, Handling
    <3>4. RowEffect(c)
      BY <1>15, <2>3, <3>1 DEF Store, RowEffect, HoldsReservation
    <3> QED
      BY <2>1, <3>1, <3>2, <3>3, <3>4, LocalEffects
  <2> QED
    BY <1>15, <2>2, <2>3 DEF Store
<1>16. CASE Complete(a)
  <2>1. c \in Customer /\ dist[c] \in DistributionRow
    BY <1>2, <1>16 DEF Complete
  <2>2. CASE UNCHANGED dist /\ Goto(a, "release")
    BY <1>4, <1>5, <1>6, <2>2
  <2>3. CASE /\ dist[c].status \in {"prepared", "confirmed"} /\ dist[c].tx = att[a].tx
             /\ Goto(a, "invoice") /\ dist' = [dist EXCEPT ![c].status = "confirmed"]
    <3>1. /\ dist'[c].key = dist[c].key /\ dist'[c].status = "confirmed"
          /\ dist'[c].tx = dist[c].tx
          /\ \A d \in Customer \ {c} : dist'[d] = dist[d]
      BY <2>1, <2>3 DEF DistributionRow
    <3>2. att'[a].pc = "invoice" /\ \A b \in Attempt \ {a} : att'[b] = att[b]
      BY <1>4, <1>6, <2>3
    <3>3. AttemptEffect(a)
      BY <3>2 DEF AttemptEffect, Handling
    <3>4. RowEffect(c)
      BY <1>16, <2>3, <3>1 DEF Complete, RowEffect
    <3> QED
      BY <2>1, <3>1, <3>2, <3>3, <3>4, LocalEffects
  <2> QED
    BY <1>16, <2>2, <2>3 DEF Complete
<1>17. CASE EnsureInvoice(a)
  <2>1. /\ c \in Customer /\ dist[c] \in DistributionRow /\ Goto(a, "release")
        /\ dist' = [dist EXCEPT ![c].invoice = TRUE]
    BY <1>2, <1>17 DEF EnsureInvoice, EnsureDemoInvoice
  <2>2. /\ dist'[c].key = dist[c].key /\ dist'[c].status = dist[c].status
        /\ dist'[c].tx = dist[c].tx
        /\ \A d \in Customer \ {c} : dist'[d] = dist[d]
    BY <2>1 DEF DistributionRow
  <2>3. att'[a].pc = "release" /\ \A b \in Attempt \ {a} : att'[b] = att[b]
    BY <1>4, <1>6, <2>1
  <2>4. AttemptEffect(a) /\ RowEffect(c)
    BY <2>2, <2>3 DEF AttemptEffect, Handling, RowEffect
  <2> QED
    BY <2>1, <2>2, <2>3, <2>4, LocalEffects
<1>18. CASE Release(a) \/ Crash(a)
  BY <1>5, <1>18, FinishAttempts DEF Release, Crash, db, Handling
<1>19. CASE Fail(a)
  BY <1>4, <1>5, <1>6, <1>19 DEF Fail, db
<1> QED
  BY <1>8, <1>9, <1>10, <1>11, <1>12, <1>13, <1>14, <1>15, <1>16, <1>17, <1>18, <1>19
  DEF AttemptAction

LEMMA StepEffects ==
  ASSUME TypeInv, [Next]_vars
  PROVE  Effects
<1>1. ASSUME NEW c \in Customer, Provision(c) \/ SessionExpires(c)
      PROVE  Effects
  BY <1>1, QuietEffects DEF Provision, SessionExpires
<1>2. ASSUME NEW c \in Customer, Resume(c)
      PROVE  Effects
  <2>1. dist' = [dist EXCEPT ![c].invoice = TRUE] /\ UNCHANGED att
    BY <1>2 DEF Resume, EnsureDemoInvoice
  <2>2. \A d \in Customer : /\ dist'[d].key = dist[d].key /\ dist'[d].tx = dist[d].tx
                            /\ dist'[d].status = dist[d].status
    BY <2>1 DEF TypeInv, DistributionRow
  <2> QED
    BY <2>1, <2>2
    DEF Effects, RowEffect, AttemptEffect, ReservationEffect, HoldsReservation
<1>3. ASSUME NEW a \in Attempt, NEW c \in Customer, Begin(a, c)
      PROVE  Effects
  <2>1. att'[a].pc = "acquire" /\ UNCHANGED dist
        /\ \A b \in Attempt \ {a} : att'[b] = att[b]
    BY <1>3 DEF Begin, TypeInv, Fresh, db
  <2> QED
    BY <2>1
    DEF Effects, RowEffect, AttemptEffect, ReservationEffect, HoldsReservation, Handling
<1>4. ASSUME NEW tx \in sent, NEW ok \in BOOLEAN, LedgerClose(tx, ok)
      PROVE  Effects
  BY <1>4, QuietEffects DEF LedgerClose, db
<1>5. ASSUME NEW e \in closed, HorizonIngest(e)
      PROVE  Effects
  BY <1>5, QuietEffects DEF HorizonIngest, db
<1>6. CASE Tick
  BY <1>6, QuietEffects DEF Tick, db
<1>7. CASE UNCHANGED vars
  BY <1>7, QuietEffects DEF vars
<1>8. CASE Next
  BY <1>1, <1>2, <1>3, <1>4, <1>5, <1>6, <1>8, NextCases, AttemptEffects
<1> QED
  BY <1>7, <1>8

(* What one step may do to the network.                                    *)
ClosedOne(e) ==
    /\ e.tx \in sent /\ e.tx.seq = seq + 1 /\ e.at = now
    /\ closed' = {e} /\ UNCHANGED <<ledger, seq, balance>>

NetworkEffects ==
    /\ now <= now'
    /\ sent \subseteq sent'
    /\ \A tx \in sent' : tx \in sent \/ \E a \in Attempt : att[a].pc = "submit" /\ att[a].tx = tx
    /\ \/ UNCHANGED <<closed, ledger, seq, balance>>
       \/ \E e \in Entry : ClosedOne(e)
       \/ \E e \in closed : HorizonIngest(e)

LEMMA StepNetwork ==
  ASSUME TypeInv, [Next]_vars
  PROVE  NetworkEffects
<1> USE DEF TypeInv
<1>1. CASE UNCHANGED <<now, sent, closed, ledger, seq, balance>>
  BY <1>1 DEF NetworkEffects
<1>2. ASSUME NEW c \in Customer, Provision(c) \/ SessionExpires(c) \/ Resume(c)
      PROVE  NetworkEffects
  BY <1>1, <1>2 DEF Provision, SessionExpires, Resume, network
<1>3. ASSUME NEW a \in Attempt, NEW c \in Customer, Begin(a, c)
      PROVE  NetworkEffects
  BY <1>1, <1>3 DEF Begin, network
<1>4. ASSUME NEW a \in Attempt, AttemptAction(a)
      PROVE  NetworkEffects
  <2>1. CASE Submit(a)
    <3>1. /\ now' = now /\ UNCHANGED <<closed, ledger, seq, balance>>
          /\ sent' = sent \cup {att[a].tx} /\ att[a].pc = "submit"
      BY <2>1 DEF Submit
    <3> QED
      BY <3>1 DEF NetworkEffects
  <2>2. CASE ~Submit(a)
    BY <1>1, <1>4, <2>2
    DEF AttemptAction, network, Acquire, ReserveDistribution, CheckExists, CheckExpired,
        ResetExpired, Prepare, Store, Recheck, SubmitSucceeds, Complete, EnsureInvoice,
        Release, Fail, Crash
  <2> QED
    BY <2>1, <2>2
<1>5. ASSUME NEW tx \in sent, NEW ok \in BOOLEAN, LedgerClose(tx, ok)
      PROVE  NetworkEffects
  <2> DEFINE e == [tx |-> tx, at |-> now, ok |-> ok]
  <2>1. e \in Entry /\ e.tx = tx /\ e.at = now
    BY DEF Entry
  <2>2. /\ closed' = {e} /\ tx.seq = seq + 1
        /\ UNCHANGED <<now, sent, ledger, seq, balance>>
    BY <1>5 DEF LedgerClose
  <2> HIDE DEF e
  <2>3. ClosedOne(e)
    BY <2>1, <2>2 DEF ClosedOne
  <2> QED
    BY <2>1, <2>2, <2>3 DEF NetworkEffects
<1>6. ASSUME NEW e \in closed, HorizonIngest(e)
      PROVE  NetworkEffects
  <2>1. UNCHANGED <<now, sent>>
    BY <1>6 DEF HorizonIngest
  <2> QED
    BY <1>6, <2>1 DEF NetworkEffects
<1>7. CASE Tick
  <2>1. now' = now + 1 /\ UNCHANGED <<sent, closed, ledger, seq, balance>>
    BY <1>7 DEF Tick, network
  <2> QED
    BY <2>1 DEF NetworkEffects
<1>8. CASE UNCHANGED vars
  BY <1>1, <1>8 DEF vars
<1>9. CASE Next
  BY <1>2, <1>3, <1>4, <1>5, <1>6, <1>7, <1>9, NextCases
<1> QED
  BY <1>8, <1>9

-----------------------------------------------------------------------------
(* The reserve: a transaction that some attempt, row or submission holds   *)
(* is either used up, or has the number the ledger applies next, and then  *)
(* the balance is the one the attempt checked.                             *)
Funded(tx) ==
    \/ tx.seq <= seq
    \/ tx.seq = seq + 1 /\ balance >= Amount + Reserve

(* The same of the next state.                                             *)
FundedNext(tx) ==
    \/ tx.seq <= seq'
    \/ tx.seq = seq' + 1 /\ balance' >= Amount + Reserve

AttemptsFunded == \A a \in Attempt : att[a].pc \in Handling => Funded(att[a].tx)
RowsFunded == \A c \in Customer : dist[c].tx # NoTx => Funded(dist[c].tx)
SentFunded == \A tx \in sent : Funded(tx)
ClosedIsNext == \A e \in closed : e.tx \in sent /\ e.tx.seq = seq + 1 /\ closed = {e}
LedgerWasSent == \A e \in ledger : e.tx \in sent

FundsInv ==
    /\ AttemptsFunded /\ RowsFunded /\ SentFunded
    /\ ClosedIsNext /\ LedgerWasSent /\ ReserveKept

LEMMA FundsInit == Init => FundsInv
BY ParameterAssumption
DEF Init, FundsInv, AttemptsFunded, RowsFunded, SentFunded, ClosedIsNext, LedgerWasSent,
    ReserveKept, Fresh, NoRow, Handling

LEMMA FundsStep ==
  ASSUME TypeInv, FundsInv, [Next]_vars
  PROVE  FundsInv'
<1> USE DEF TypeInv
<1>1. Effects /\ NetworkEffects /\ TypeInv'
  BY StepEffects, StepNetwork, TypeStep
<1>2. /\ \/ seq' = seq /\ balance' = balance
         \/ /\ seq' = seq + 1
            /\ \E e \in closed : balance' \in {balance, balance - Amount}
      /\ ReserveKept'
  <2>1. CASE UNCHANGED <<closed, ledger, seq, balance>>
    BY <2>1 DEF FundsInv, ReserveKept
  <2>2. ASSUME NEW e \in Entry, ClosedOne(e)
        PROVE  seq' = seq /\ balance' = balance /\ ReserveKept'
    BY <2>2 DEF FundsInv, ReserveKept, ClosedOne
  <2>3. ASSUME NEW e \in closed, HorizonIngest(e)
        PROVE  /\ seq' = seq + 1 /\ balance' \in {balance, balance - Amount}
               /\ ReserveKept'
    <3>1. Funded(e.tx) /\ e.tx.seq = seq + 1
      BY DEF FundsInv, SentFunded, ClosedIsNext
    <3>2. balance >= Amount + Reserve
      BY <3>1 DEF Funded
    <3> QED
      BY <2>3, <3>2, ParameterAssumption DEF HorizonIngest, ReserveKept
  <2> QED
    BY <1>1, <2>1, <2>2, <2>3 DEF NetworkEffects
<1>3. ASSUME NEW tx \in Tx, Funded(tx)
      PROVE  FundedNext(tx)
  BY <1>2, <1>3 DEF Funded, FundedNext, Tx
<1>4. ASSUME NEW tx \in Tx, tx.seq = seq + 1, ReserveHolds
      PROVE  FundedNext(tx)
  BY <1>2, <1>4 DEF FundedNext, ReserveHolds, Tx
<1>5. AttemptsFunded'
  <2> SUFFICES ASSUME NEW a \in Attempt, att'[a].pc \in Handling
               PROVE  FundedNext(att'[a].tx)
    BY DEF AttemptsFunded, Funded, FundedNext
  <2> DEFINE tx == att'[a].tx
  <2>1. tx \in Tx /\ att'[a].wallet \in Customer
    BY <1>1 DEF AttemptsBound, Handling
  <2>2. Funded(tx) \/ (tx.seq = seq + 1 /\ ReserveHolds)
    <3>1. CASE att'[a] = att[a] \/ KeptEffect(a)
      BY <3>1 DEF FundsInv, AttemptsFunded, KeptEffect
    <3>2. CASE dist[att'[a].wallet].tx = tx
      BY <2>1, <3>2, NoTxAssumption DEF FundsInv, RowsFunded
    <3> QED
      BY <1>1, <3>1, <3>2 DEF Effects, AttemptEffect
  <2> HIDE DEF tx
  <2>3. FundedNext(tx)
    BY <1>3, <1>4, <2>1, <2>2
  <2> QED
    BY <2>3 DEF tx
<1>6. RowsFunded'
  <2> SUFFICES ASSUME NEW c \in Customer, dist'[c].tx # NoTx
               PROVE  FundedNext(dist'[c].tx)
    BY DEF RowsFunded, Funded, FundedNext
  <2> DEFINE tx == dist'[c].tx
  <2>1. tx \in Tx
    BY <1>1 DEF DistributionRow
  <2>2. CASE dist'[c].tx = dist[c].tx
    BY <1>3, <2>1, <2>2 DEF FundsInv, RowsFunded
  <2>3. ASSUME NEW a \in Attempt, att[a].pc = "store", tx = att[a].tx
        PROVE  FundedNext(tx)
    BY <1>3, <2>1, <2>3 DEF FundsInv, AttemptsFunded, Handling
  <2> QED
    BY <1>1, <2>2, <2>3 DEF Effects, RowEffect
<1>7. SentFunded'
  <2> SUFFICES ASSUME NEW tx \in sent'
               PROVE  FundedNext(tx)
    BY DEF SentFunded, Funded, FundedNext
  <2>1. tx \in Tx
    BY <1>1
  <2>2. Funded(tx)
    BY <1>1 DEF NetworkEffects, FundsInv, SentFunded, AttemptsFunded, Handling
  <2> QED
    BY <1>3, <2>1, <2>2
<1>8. ClosedIsNext' /\ LedgerWasSent'
  <2>1. CASE UNCHANGED <<closed, ledger, seq, balance>>
    BY <1>1, <2>1 DEF FundsInv, ClosedIsNext, LedgerWasSent, NetworkEffects
  <2>2. ASSUME NEW e \in Entry, ClosedOne(e)
        PROVE  ClosedIsNext' /\ LedgerWasSent'
    BY <1>1, <2>2 DEF FundsInv, ClosedIsNext, LedgerWasSent, NetworkEffects, ClosedOne
  <2>3. ASSUME NEW e \in closed, HorizonIngest(e)
        PROVE  ClosedIsNext' /\ LedgerWasSent'
    <3>1. closed = {e} /\ e.tx \in sent
      BY DEF FundsInv, ClosedIsNext
    <3>2. closed' = {} /\ ledger' = ledger \cup {e}
      BY <2>3, <3>1 DEF HorizonIngest
    <3> QED
      BY <1>1, <3>1, <3>2 DEF FundsInv, ClosedIsNext, LedgerWasSent, NetworkEffects
  <2> QED
    BY <1>1, <2>1, <2>2, <2>3 DEF NetworkEffects
<1> QED
  BY <1>2, <1>5, <1>6, <1>7, <1>8 DEF FundsInv

LEMMA FundsInvariant == Spec => [](TypeInv /\ FundsInv)
<1>1. Init => TypeInv /\ FundsInv
  BY TypeInit, FundsInit
<1>2. TypeInv /\ FundsInv /\ [Next]_vars => (TypeInv /\ FundsInv)'
  BY TypeStep, FundsStep
<1> QED
  BY <1>1, <1>2, PTL DEF Spec

(* The variables have their types; that the balance is never negative      *)
(* rests on the reserve.                                                   *)
THEOREM TypeCorrect == Spec => []TypeOK
<1>1. TypeInv /\ FundsInv => TypeOK
  BY ParameterAssumption
  DEF TypeInv, FundsInv, ReserveKept, TypeOK, Types, RowsBound
<1> QED
  BY <1>1, FundsInvariant, PTL

(* The distributor never pays out of its reserve, whichever attempts       *)
(* overlap and whenever the mutex changes hands.                           *)
THEOREM ReserveIsKept == Spec => []ReserveKept
<1>1. TypeInv /\ FundsInv => ReserveKept
  BY DEF FundsInv
<1> QED
  BY <1>1, FundsInvariant, PTL

-----------------------------------------------------------------------------
(* What attempts know when they act: that a transaction they reset had     *)
(* expired, and that one they complete is on the ledger.                   *)
ResetsExpired == \A a \in Attempt : att[a].pc = "reset" => Expired(att[a].tx)
CompletesOnLedger == \A a \in Attempt : att[a].pc = "complete" => OnLedger(att[a].tx)

KnowledgeInv == ResetsExpired /\ CompletesOnLedger /\ ConfirmedIsOnLedger

LEMMA KnowledgeInit == Init => KnowledgeInv
BY DEF Init, KnowledgeInv, ResetsExpired, CompletesOnLedger, ConfirmedIsOnLedger, Fresh, NoRow

LEMMA KnowledgeStep ==
  ASSUME TypeInv, KnowledgeInv, [Next]_vars
  PROVE  KnowledgeInv'
<1>1. Effects /\ NetworkEffects /\ TypeInv'
  BY StepEffects, StepNetwork, TypeStep
<1>2. ledger \subseteq ledger'
  BY <1>1 DEF NetworkEffects, ClosedOne, HorizonIngest
<1>3. ASSUME NEW a \in Attempt, att'[a].pc \in {"reset", "complete"}
      PROVE  att'[a] = att[a] \/ KeptEffect(a)
  BY <1>1, <1>3 DEF Effects, AttemptEffect, Handling
<1>4. ResetsExpired'
  <2> SUFFICES ASSUME NEW a \in Attempt, att'[a].pc = "reset"
               PROVE  att'[a].tx.maxTime <= now'
    BY DEF ResetsExpired, Expired
  <2>1. att'[a].tx \in Tx /\ att'[a].tx.maxTime <= now
    BY <1>1, <1>3 DEF KnowledgeInv, ResetsExpired, Expired, KeptEffect, TypeInv,
       AttemptsBound, Handling
  <2> QED
    BY <1>1, <2>1 DEF NetworkEffects, TypeInv, Tx
<1>5. CompletesOnLedger'
  <2> SUFFICES ASSUME NEW a \in Attempt, att'[a].pc = "complete"
               PROVE  \E e \in ledger' : e.tx = att'[a].tx
    BY DEF CompletesOnLedger, OnLedger
  <2> QED
    BY <1>2, <1>3 DEF KnowledgeInv, CompletesOnLedger, OnLedger, KeptEffect
<1>6. ConfirmedIsOnLedger'
  <2> SUFFICES ASSUME NEW c \in Customer, dist'[c].status = "confirmed"
               PROVE  \E e \in ledger' : e.tx = dist'[c].tx
    BY DEF ConfirmedIsOnLedger, OnLedger
  <2>1. OnLedger(dist'[c].tx)
    <3>1. CASE dist[c].status = "confirmed" /\ dist'[c].tx = dist[c].tx
      BY <3>1 DEF KnowledgeInv, ConfirmedIsOnLedger
    <3>2. ASSUME NEW a \in Attempt, att[a].pc = "complete", dist'[c].tx = att[a].tx
          PROVE  OnLedger(dist'[c].tx)
      BY <3>2 DEF KnowledgeInv, CompletesOnLedger
    <3> QED
      BY <1>1, <3>1, <3>2 DEF Effects, RowEffect
  <2> QED
    BY <1>2, <2>1 DEF OnLedger
<1> QED
  BY <1>4, <1>5, <1>6 DEF KnowledgeInv

-----------------------------------------------------------------------------
(* The transactions that are stored in a row, or came from one, so that    *)
(* they may be submitted.                                                  *)
Stored(tx) ==
    \/ tx \in sent
    \/ \E c \in Customer : dist[c].tx = tx
    \/ \E a \in Attempt : att[a].pc \in Carrying /\ att[a].tx = tx

NewlyStored(a, tx) ==
    /\ att[a].pc = "store" /\ att[a].wallet = tx.to /\ att[a].tx = tx
    /\ HoldsReservation(a, tx.to)
    /\ dist'[tx.to].tx = tx /\ dist'[tx.to].status = "prepared"

LEMMA StoredStep ==
  ASSUME TypeInv, [Next]_vars, NEW tx \in Tx, Stored(tx)'
  PROVE  Stored(tx) \/ \E a \in Attempt : NewlyStored(a, tx)
<1>1. Effects /\ NetworkEffects /\ TypeInv'
  BY StepEffects, StepNetwork, TypeStep
<1>2. ASSUME NEW c \in Customer, dist'[c].tx = tx
      PROVE  Stored(tx) \/ \E a \in Attempt : NewlyStored(a, tx)
  <2>1. CASE dist'[c].tx = dist[c].tx
    BY <1>2, <2>1 DEF Stored
  <2>2. ASSUME NEW a \in Attempt, att[a].pc = "store", att[a].wallet = c,
               HoldsReservation(a, c), dist'[c].tx = att[a].tx, dist'[c].status = "prepared"
        PROVE  NewlyStored(a, tx)
    <3>1. tx.to = c
      BY <1>2, <2>2 DEF TypeInv, AttemptsBound, Handling
    <3> QED
      BY <1>2, <2>2, <3>1 DEF NewlyStored
  <2> QED
    BY <1>1, <1>2, <2>1, <2>2, NoTxAssumption DEF Effects, RowEffect
<1>3. CASE tx \in sent'
  BY <1>1, <1>3 DEF NetworkEffects, Stored, Carrying
<1>4. ASSUME NEW a \in Attempt, att'[a].pc \in Carrying, att'[a].tx = tx
      PROVE  Stored(tx) \/ \E b \in Attempt : NewlyStored(b, tx)
  <2>1. /\ att'[a].pc \in Handling /\ att'[a].pc # "store"
        /\ att'[a].pc \notin {"new", "done"} /\ att'[a].wallet \in Customer
    BY <1>1, <1>4 DEF Carrying, Handling, TypeInv, AttemptsBound
  <2>2. CASE att'[a] = att[a]
    BY <1>4, <2>2 DEF Stored
  <2>3. CASE KeptEffect(a)
    BY <1>2, <1>4, <2>1, <2>3 DEF KeptEffect, Stored
  <2>4. CASE dist[att'[a].wallet].tx = att'[a].tx
    BY <1>4, <2>1, <2>4 DEF Stored
  <2> QED
    BY <1>1, <2>1, <2>2, <2>3, <2>4 DEF Effects, AttemptEffect
<1> QED
  BY <1>2, <1>3, <1>4 DEF Stored

LEMMA StoredFunded ==
  ASSUME TypeInv, FundsInv, NEW tx \in Tx,
         Stored(tx) \/ \E a \in Attempt : att[a].pc = "store" /\ att[a].tx = tx
  PROVE  tx.seq <= seq + 1
BY NoTxAssumption
DEF TypeInv, FundsInv, SentFunded, RowsFunded, AttemptsFunded, Stored, Carrying, Handling,
    Funded, Tx

(* A stored transaction that has not expired is the one of its wallet's    *)
(* row; an attempt that may store one has the latest number; of two stored *)
(* for a wallet the earlier has expired, already when the later closed.    *)
MemoryInv ==
    \A tx \in Tx : Stored(tx) => tx.maxTime <= now \/ dist[tx.to].tx = tx

RecencyInv ==
    \A a \in Attempt, tx \in Tx :
      (att[a].pc = "store" /\ HoldsReservation(a, tx.to) /\ att[a].wallet = tx.to
         /\ Stored(tx))
      => tx.seq <= att[a].tx.seq

SpacingInv ==
    \A t1, t2 \in Tx :
      (Stored(t1) /\ Stored(t2) /\ t1.to = t2.to /\ t1.seq < t2.seq) => t1.maxTime <= now

PaidInv ==
    \A e \in closed \cup ledger, tx \in Tx :
      (Stored(tx) /\ tx.to = e.tx.to /\ tx.seq < e.tx.seq) => tx.maxTime <= e.at

OrderInv == MemoryInv /\ RecencyInv /\ SpacingInv /\ PaidInv

LEMMA OrderInit == Init => OrderInv
<1> SUFFICES ASSUME Init
             PROVE  OrderInv
  OBVIOUS
<1>1. \A tx \in Tx : ~Stored(tx)
  BY NoTxAssumption DEF Init, Stored, Fresh, NoRow, Carrying
<1> QED
  BY <1>1 DEF OrderInv, MemoryInv, RecencyInv, SpacingInv, PaidInv

LEMMA OrderStep ==
  ASSUME TypeInv, FundsInv, KnowledgeInv, OrderInv, [Next]_vars
  PROVE  OrderInv'
<1>1. Effects /\ NetworkEffects /\ TypeInv'
  BY StepEffects, StepNetwork, TypeStep
<1>2. now \in Nat /\ now' \in Nat /\ now <= now'
  BY <1>1 DEF TypeInv, NetworkEffects
<1>3. ASSUME NEW tx \in Tx, NEW a \in Attempt, NewlyStored(a, tx)
      PROVE  /\ tx.to \in Customer /\ dist[tx.to].tx = NoTx
             /\ \A t \in Tx : (Stored(t) /\ t.to = tx.to) =>
                  t.maxTime <= now /\ t.seq <= tx.seq
  <2>1. tx.to \in Customer /\ dist[tx.to].tx = NoTx
    BY <1>3 DEF Tx, NewlyStored, HoldsReservation, TypeInv, RowsBound
  <2> QED
    BY <1>3, <2>1, NoTxAssumption DEF OrderInv, MemoryInv, RecencyInv, NewlyStored
<1>4. MemoryInv'
  <2> SUFFICES ASSUME NEW tx \in Tx, Stored(tx)', ~(tx.maxTime <= now')
               PROVE  dist'[tx.to].tx = tx
    BY DEF MemoryInv
  <2>1. CASE \E a \in Attempt : NewlyStored(a, tx)
    BY <2>1 DEF NewlyStored
  <2>2. CASE Stored(tx)
    <3>1. ~(tx.maxTime <= now) /\ tx.to \in Customer
      BY <1>2 DEF Tx
    <3>2. dist[tx.to].tx = tx /\ dist[tx.to].tx # NoTx
      BY <2>2, <3>1, NoTxAssumption DEF OrderInv, MemoryInv
    <3>3. dist[tx.to].status \in {"prepared", "confirmed"}
      BY <3>1, <3>2 DEF TypeInv, RowsBound
    <3>4. RowEffect(tx.to)
      BY <1>1, <3>1 DEF Effects
    <3> QED
      BY <3>1, <3>2, <3>3, <3>4 DEF RowEffect, KnowledgeInv, ResetsExpired, Expired
  <2> QED
    BY <2>1, <2>2, StoredStep
<1>5. RecencyInv'
  <2> SUFFICES ASSUME NEW a \in Attempt, NEW tx \in Tx, att'[a].pc = "store",
                      HoldsReservation(a, tx.to)', att'[a].wallet = tx.to, Stored(tx)'
               PROVE  tx.seq <= att'[a].tx.seq
    BY DEF RecencyInv
  <2>1. tx.to \in Customer
    BY DEF Tx
  <2>2. CASE att'[a] = att[a]
    <3>1. HoldsReservation(a, tx.to)
      BY <1>1, <2>1 DEF Effects, ReservationEffect
    <3>2. ~ \E b \in Attempt : NewlyStored(b, tx)
      BY DEF NewlyStored, HoldsReservation
    <3>3. Stored(tx)
      BY <3>2, StoredStep
    <3> QED
      BY <2>2, <3>1, <3>3 DEF OrderInv, RecencyInv
  <2>3. CASE att'[a].tx.seq = seq + 1
    BY <2>3, StoredStep, StoredFunded DEF NewlyStored
  <2> QED
    BY <1>1, <2>2, <2>3 DEF Effects, AttemptEffect, KeptEffect, Handling
<1>6. SpacingInv'
  <2> SUFFICES ASSUME NEW t1 \in Tx, NEW t2 \in Tx, Stored(t1)', Stored(t2)',
                      t1.to = t2.to, t1.seq < t2.seq
               PROVE  t1.maxTime <= now'
    BY DEF SpacingInv
  <2>1. t1.maxTime <= now => t1.maxTime <= now'
    BY <1>2 DEF Tx
  <2>2. CASE Stored(t1) /\ Stored(t2)
    BY <2>1, <2>2 DEF OrderInv, SpacingInv
  <2>3. ASSUME NEW a \in Attempt, NewlyStored(a, t2), Stored(t1)
        PROVE  t1.maxTime <= now'
    BY <1>3, <2>1, <2>3
  <2>4. ASSUME NEW a \in Attempt, NewlyStored(a, t1), Stored(t2)
        PROVE  FALSE
    BY <1>3, <2>4 DEF Tx
  <2>5. ASSUME NEW a \in Attempt, NEW b \in Attempt, NewlyStored(a, t1), NewlyStored(b, t2)
        PROVE  FALSE
    BY <2>5 DEF NewlyStored, Tx
  <2> QED
    BY <2>2, <2>3, <2>4, <2>5, StoredStep
<1>7. PaidInv'
  <2> SUFFICES ASSUME NEW e \in closed' \cup ledger', NEW tx \in Tx, Stored(tx)',
                      tx.to = e.tx.to, tx.seq < e.tx.seq
               PROVE  tx.maxTime <= e.at
    BY DEF PaidInv
  <2>1. e \in closed \cup ledger \/ (e.tx \in sent /\ e.at = now)
    BY <1>1 DEF NetworkEffects, ClosedOne, HorizonIngest
  <2>2. e.tx \in Tx /\ Stored(e.tx)
    BY <2>1 DEF FundsInv, ClosedIsNext, LedgerWasSent, TypeInv, Stored
  <2>3. ASSUME NEW a \in Attempt, NewlyStored(a, tx)
        PROVE  FALSE
    BY <1>3, <2>2, <2>3 DEF Tx
  <2>4. Stored(tx)
    BY <2>3, StoredStep
  <2> QED
    BY <2>1, <2>2, <2>4 DEF OrderInv, PaidInv, SpacingInv
<1> QED
  BY <1>4, <1>5, <1>6, <1>7 DEF OrderInv

LEMMA Invariants == Spec => [](TypeInv /\ FundsInv /\ KnowledgeInv /\ OrderInv)
<1> DEFINE Inv == TypeInv /\ FundsInv /\ KnowledgeInv /\ OrderInv
<1>1. Init => Inv
  BY TypeInit, FundsInit, KnowledgeInit, OrderInit
<1>2. Inv /\ [Next]_vars => Inv'
  BY TypeStep, FundsStep, KnowledgeStep, OrderStep
<1> QED
  BY <1>1, <1>2, PTL DEF Spec

(* A wallet is confirmed only once its transaction is on the ledger.       *)
THEOREM ConfirmedOnLedger == Spec => []ConfirmedIsOnLedger
<1>1. KnowledgeInv => ConfirmedIsOnLedger
  BY DEF KnowledgeInv
<1> QED
  BY <1>1, Invariants, PTL

(* A submitted payment before its bound that Horizon does not show is the  *)
(* one its wallet's row remembers.                                         *)
THEOREM LiveIsRemembered == Spec => []LiveTransactionRemembered
<1>1. TypeInv /\ OrderInv => LiveTransactionRemembered
  BY DEF TypeInv, OrderInv, MemoryInv, LiveTransactionRemembered, Stored, Expired, Tx
<1> QED
  BY <1>1, Invariants, PTL

(* A wallet is paid a second time only when its first payment had expired, *)
(* however the attempts overlap.                                           *)
THEOREM AllowancesAreSpaced == Spec => []SecondAllowanceOnlyAfterExpiry
<1>1. TypeInv /\ FundsInv /\ OrderInv => SecondAllowanceOnlyAfterExpiry
  BY DEF TypeInv, FundsInv, LedgerWasSent, OrderInv, PaidInv,
     SecondAllowanceOnlyAfterExpiry, Stored
<1> QED
  BY <1>1, Invariants, PTL

(* A prepared transaction leaves its row only confirmed or, by the code's  *)
(* test, expired, even when the attempt that acts has lost the mutex.      *)
THEOREM PreparedTransactionsKept == Spec => PreparedIsKept
<1> DEFINE Kept(c) ==
      dist[c].status = "prepared" =>
        \/ dist'[c].status \in {"prepared", "confirmed"} /\ dist'[c].tx = dist[c].tx
        \/ dist'[c].status = "preparing" /\ Expired(dist[c].tx)
<1>1. ASSUME TypeInv, KnowledgeInv, [Next]_vars, NEW c \in Customer
      PROVE  Kept(c)
  <2>1. RowEffect(c)
    BY <1>1, StepEffects DEF Effects
  <2> QED
    BY <1>1, <2>1 DEF RowEffect, KnowledgeInv, ResetsExpired
<1>2. TypeInv /\ KnowledgeInv /\ [Next]_vars => [\A c \in Customer : Kept(c)]_vars
  BY <1>1
<1> QED
  BY <1>2, Invariants, PTL DEF Spec, PreparedIsKept

=============================================================================
