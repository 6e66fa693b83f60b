\* The specification's claim that an unpaid invoice expires when due.
SPECIFICATION FairSpec
CONSTANTS
    i1 = i1
    i2 = i2
    d1 = d1
    d2 = d2
    r1 = r1
    r2 = r2
    Invoice = {i1}
    Debtor = {d1}
    DebtorOf <- OneDebtor
    Request = {r1}
    Validity = 1
    ReviewGrace = 1
    ReviewCap = 2
    PrepareCap = 2
    SkewCap = 1
    Slack = 1
    Manual <- NoPayments
    MaxTime = 2
    MaxSeq = 1
    NoTx = NoTx
    NoInvoice = NoInvoice
PROPERTIES
    UnpaidBecomesExpired
\* The clock and the accounts' transactions are bounded: behaviours end.
CHECK_DEADLOCK FALSE
