\* Two wallets, three overlapping attempts, funds for two of three allowances.
SPECIFICATION Spec
CONSTANTS
    c1 = c1
    c2 = c2
    a1 = a1
    a2 = a2
    a3 = a3
    Customer = {c1, c2}
    Attempt = {a1, a2, a3}
    Lease = 1
    Validity = 1
    Amount = 1
    Reserve = 2
    Supply = 4
    MaxTime = 2
    MaxToken = 1
    NoOne = NoOne
    NoTx = NoTx
SYMMETRY Symmetry
INVARIANTS
    TypeOK
    LiveTransactionRemembered
    SecondAllowanceOnlyAfterExpiry
    ConfirmedIsOnLedger
    ReserveKept
PROPERTIES
    PreparedIsKept
    RefinesAllowance
\* The clock is bounded and attempts are used once: behaviours end.
CHECK_DEADLOCK FALSE
