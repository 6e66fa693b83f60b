--------------------------- MODULE DemoAllowance ---------------------------
(***************************************************************************)
(* What the distributor promises a demo wallet, without attempts, leases   *)
(* or Horizon.  A wallet has at most one promised payment at a time.  Only *)
(* a promise that has expired is withdrawn, only one the network has       *)
(* included is fulfilled, and then it is final.  What goes out to the      *)
(* network is a promise in force, or a withdrawn one that somebody still   *)
(* holds, and the network may include what is out while it is valid.       *)
(* Nobody asks whether a promise that is withdrawn has been included: a    *)
(* wallet may be paid twice, but by payments of which one had expired.     *)
(***************************************************************************)
EXTENDS Integers

CONSTANTS
    Customer,
    Payment,    \* payments: the wallet is "to", the last moment "maxTime"
    NoPayment   \* no promise

VARIABLES
    now,
    promise,    \* what each wallet has been promised
    held,       \* withdrawn promises that may still be sent
    fulfilled,  \* wallets whose promise is settled for good
    out,        \* payments given to the network
    included    \* payments the network has included, successful or not

allowance == <<now, promise, held, fulfilled, out, included>>

Init ==
    /\ now = 0
    /\ promise = [c \in Customer |-> NoPayment]
    /\ held = {} /\ fulfilled = {} /\ out = {} /\ included = {}

Promised(p) == p \in Payment /\ promise[p.to] = p

Promise(c) ==
    /\ promise[c] = NoPayment /\ c \notin fulfilled
    /\ promise'[c] \in Payment /\ promise'[c].to = c
    /\ promise' = [promise EXCEPT ![c] = promise'[c]]
    /\ held' \subseteq held
    /\ UNCHANGED <<now, fulfilled, out, included>>

Withdraw(c) ==
    /\ promise[c] # NoPayment /\ promise[c].maxTime <= now /\ c \notin fulfilled
    /\ promise' = [promise EXCEPT ![c] = NoPayment]
    /\ held' \subseteq held \cup {promise[c]}
    /\ UNCHANGED <<now, fulfilled, out, included>>

(* Whoever holds a withdrawn promise may drop it at any time.              *)
Forget ==
    /\ held' \subseteq held
    /\ UNCHANGED <<now, promise, fulfilled, out, included>>

Send(p) ==
    /\ Promised(p) \/ p \in held
    /\ out' = out \cup {p}
    /\ held' \subseteq held
    /\ UNCHANGED <<now, promise, fulfilled, included>>

(* A payment is included once, and not after its last moment.              *)
Include(e) ==
    /\ e.tx \in out /\ e.at = now /\ now <= e.tx.maxTime
    /\ \A i \in included : i.tx # e.tx
    /\ included' = included \cup {e}
    /\ UNCHANGED <<now, promise, held, fulfilled, out>>

Fulfil(c) ==
    /\ \E e \in included : e.tx = promise[c]
    /\ fulfilled' = fulfilled \cup {c}
    /\ held' \subseteq held
    /\ UNCHANGED <<now, promise, out, included>>

Tick == now' = now + 1 /\ UNCHANGED <<promise, held, fulfilled, out, included>>

Next ==
    \/ \E c \in Customer : Promise(c) \/ Withdraw(c) \/ Fulfil(c)
    \/ \E p \in out' : Send(p)
    \/ \E e \in included' : Include(e)
    \/ Forget
    \/ Tick

Spec == Init /\ [][Next]_allowance

-----------------------------------------------------------------------------
(* What the promise amounts to.                                            *)

(* A wallet is paid again only by a payment of whose pair one had expired  *)
(* when the other was included.                                            *)
Spaced ==
    \A e, f \in included :
      (e # f /\ e.tx.to = f.tx.to) => e.tx.maxTime <= f.at \/ f.tx.maxTime <= e.at

(* A promise counts as fulfilled when it is what the network has included. *)
FulfilledIsIncluded ==
    \A c \in fulfilled : \E e \in included : e.tx = promise[c]
=============================================================================
