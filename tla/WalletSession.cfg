\* One page and two Freighter accounts next to the demo's key.  Four operations:
\* a login, an attempt to connect, the logout that overtakes it and a new
\* attempt.  Three creations reach the rate limit; a challenge or a session can
\* expire while an answer is awaited.
CONSTANTS
    Challenge = {o1, o2, o3, o4}
    FreighterAccount = {a, b}
    DemoAccount = demo
    Subject = {a, b, demo}
    NoSubject = NoSubject
    NoOp = NoOp
    NoSession = NoSession
    Ttl = 1
    MaxAhead = 2
    Window = 2
    Limit = 3
    SubjectLimit = 2
    SessionTtl = 1
    MaxTime = 1
SPECIFICATION Spec
SYMMETRY Symmetry
\* The clock is bounded and operations are used once: behaviours end.
CHECK_DEADLOCK FALSE
INVARIANTS
    TypeOK
    AcceptedOnce
    OpenIsBounded
    ActiveHasLoggedIn
    InFlightIsTheAttempt
    SubmittedAsShown
PROPERTY
    OvertakenNeverActivates
