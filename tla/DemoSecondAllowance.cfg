\* Migration 0017's claim that a retry creates no second allowance.
SPECIFICATION Spec
CONSTANTS
    c1 = c1
    c2 = c2
    a1 = a1
    a2 = a2
    a3 = a3
    Customer = {c1}
    Attempt = {a1, a2}
    Lease = 1
    Validity = 1
    Amount = 1
    Reserve = 2
    Supply = 4
    MaxTime = 2
    MaxToken = 2
    NoOne = NoOne
    NoTx = NoTx
SYMMETRY Symmetry
INVARIANTS
    OneAllowancePerWallet
\* The clock is bounded and attempts are used once: behaviours end.
CHECK_DEADLOCK FALSE
