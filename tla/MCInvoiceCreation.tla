------------------------- MODULE MCInvoiceCreation -------------------------
(* The instance of InvoiceCreation that TLC checks. *)
EXTENDS InvoiceCreation, TLC

(* Requests due soon or later.  (The form also names the issuer.) *)
Requests ==
    {r \in [debtor : Party, receiver : Party, due : {1, 2}] : r.debtor # r.receiver}

Symmetry == Permutations(Party) \cup Permutations(Post) \cup Permutations(Challenge)
=============================================================================
