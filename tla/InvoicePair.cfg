\* Two invoices of one debtor against the abstract lifecycle.
SPECIFICATION Spec
CONSTANTS
    i1 = i1
    i2 = i2
    d1 = d1
    d2 = d2
    r1 = r1
    r2 = r2
    Invoice = {i1, i2}
    Debtor = {d1}
    DebtorOf <- OneDebtor
    Request = {r1}
    Validity = 1
    ReviewGrace = 1
    ReviewCap = 2
    PrepareCap = 2
    SkewCap = 1
    Slack = 1
    Manual <- AnyPayment
    MaxTime = 1
    MaxSeq = 2
    NoTx = NoTx
    NoInvoice = NoInvoice
INVARIANTS
    ConfirmedHasPayment
PROPERTIES
    RefinesLifecycle
\* The clock and the accounts' transactions are bounded: behaviours end.
CHECK_DEADLOCK FALSE
