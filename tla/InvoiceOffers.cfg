\* Payments through the app only, over two validity periods.
SPECIFICATION Spec
CONSTANTS
    i1 = i1
    i2 = i2
    d1 = d1
    d2 = d2
    r1 = r1
    r2 = r2
    Invoice = {i1}
    Debtor = {d1}
    DebtorOf <- OneDebtor
    Request = {r1, r2}
    Validity = 2
    ReviewGrace = 1
    ReviewCap = 3
    PrepareCap = 3
    SkewCap = 1
    Slack = 1
    Manual <- NoPayments
    MaxTime = 5
    MaxSeq = 2
    NoTx = NoTx
    NoInvoice = NoInvoice
INVARIANTS
    PreparedNeverLate
    OneUnexpiredXdr
    SecondPaymentOnlyAfterExpiry
PROPERTIES
    PaidOnceIfSeenEarly
\* The clock and the accounts' transactions are bounded: behaviours end.
CHECK_DEADLOCK FALSE
