-------------------------- MODULE MCInvoicePayment --------------------------
(* Instances of InvoicePayment for TLC.  A tick is a minute or more: the   *)
(* sizes keep the order Validity <= ReviewCap <= PrepareCap of the code.   *)
EXTENDS InvoicePayment, TLC

CONSTANTS i1, i2, d1, d2, r1, r2

(* Both invoices are owed by one debtor: their payments compete for the    *)
(* sequence numbers of one account.                                        *)
OneDebtor == [i \in Invoice |-> d1]

NoPayments == {}
AnyPayment == BOOLEAN

Symmetry == Permutations(Request)
=============================================================================
