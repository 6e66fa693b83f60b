-------------------------- MODULE InvoiceLifecycle --------------------------
(***************************************************************************)
(* What the invoice service promises of an invoice, without requests,      *)
(* transactions or clocks.  An invoice is settled once the ledger holds a  *)
(* payment of it made in time, and lapsed once its due date has passed; it *)
(* is confirmed only when settled, expired only when lapsed, and a         *)
(* confirmed invoice never changes again.                                  *)
(***************************************************************************)
CONSTANT Invoice

VARIABLES status, settled, lapsed

lifecycle == <<status, settled, lapsed>>

Init ==
    /\ status = [i \in Invoice |-> "absent"]
    /\ settled = {}
    /\ lapsed = {}

(* An invoice can be issued with a due date that has just passed.          *)
Issue(i) ==
    /\ status[i] = "absent" /\ i \notin settled \cup lapsed
    /\ status' = [status EXCEPT ![i] = "pending"]
    /\ lapsed' \in {lapsed, lapsed \cup {i}}
    /\ UNCHANGED settled

Settle(i) ==
    /\ status[i] # "absent"
    /\ settled' = settled \cup {i}
    /\ UNCHANGED <<status, lapsed>>

Lapse ==
    /\ lapsed \subseteq lapsed'
    /\ lapsed' \subseteq {i \in Invoice : status[i] # "absent"}
    /\ UNCHANGED <<status, settled>>

Confirm(i) ==
    /\ status[i] \in {"pending", "expired"} /\ i \in settled
    /\ status' = [status EXCEPT ![i] = "confirmed"]
    /\ UNCHANGED <<settled, lapsed>>

Expire(i) ==
    /\ status[i] = "pending" /\ i \in lapsed
    /\ status' = [status EXCEPT ![i] = "expired"]
    /\ UNCHANGED <<settled, lapsed>>

Next ==
    \/ Lapse
    \/ \E i \in Invoice : Issue(i) \/ Settle(i) \/ Confirm(i) \/ Expire(i)

Spec == Init /\ [][Next]_lifecycle

-----------------------------------------------------------------------------
(* What the promise amounts to.                                            *)

(* The status tells the truth: confirmed is paid in time, expired is past  *)
(* the due date, and what does not exist is neither paid nor due.          *)
Honest ==
    \A i \in Invoice :
      /\ status[i] = "confirmed" => i \in settled
      /\ status[i] = "expired" => i \in lapsed
      /\ status[i] = "absent" => i \notin settled \cup lapsed

(* An invoice only moves on: it is issued once, may expire once, and once  *)
(* confirmed stays so.                                                     *)
MovesOn(i) ==
    \/ status'[i] = status[i]
    \/ status[i] = "absent" /\ status'[i] = "pending"
    \/ status[i] = "pending" /\ status'[i] \in {"expired", "confirmed"}
    \/ status[i] = "expired" /\ status'[i] = "confirmed"

Orderly == [][\A i \in Invoice : MovesOn(i)]_lifecycle
=============================================================================
