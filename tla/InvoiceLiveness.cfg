\* One invoice, payments by its debtor and by a stranger, fair retries.
SPECIFICATION FairSpec
CONSTANTS
    i1 = i1
    i2 = i2
    d1 = d1
    d2 = d2
    r1 = r1
    r2 = r2
    Invoice = {i1}
    Debtor = {d1, d2}
    DebtorOf <- OneDebtor
    Request = {r1}
    Validity = 1
    ReviewGrace = 1
    ReviewCap = 2
    PrepareCap = 2
    SkewCap = 1
    Slack = 1
    Manual <- AnyPayment
    MaxTime = 2
    MaxSeq = 1
    NoTx = NoTx
    NoInvoice = NoInvoice
PROPERTIES
    SettledIsConfirmed
\* The clock and the accounts' transactions are bounded: behaviours end.
CHECK_DEADLOCK FALSE
