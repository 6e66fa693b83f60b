\* Two wallets and the issuer; two posts for one signature, or a signature and a
\* form; a due date that passes between the signature and its use.
CONSTANTS
    Party = {x, y}
    Issuer = issuer
    Nobody = nobody
    Post = {p1, p2}
    NoPost = noPost
    Term = 1
    Challenge = {c1}
    Subject <- Requests
    NoSubject = noSubject
    Ttl = 1
    MaxAhead = 2
    Window = 1
    Limit = 1
    SubjectLimit = 1
    MaxTime = 1
SPECIFICATION Spec
SYMMETRY Symmetry
\* The clock is bounded and posts are used once: behaviours may end.
CHECK_DEADLOCK FALSE
INVARIANTS
    TypeOK
    OneInvoicePerSignature
    StoredAsVouched
    OwnInvoice
