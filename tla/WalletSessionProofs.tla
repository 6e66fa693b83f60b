------------------------ MODULE WalletSessionProofs ------------------------
(***************************************************************************)
(* The wallet session for every number of operations, accounts and clock   *)
(* ticks: what is active has logged in, connectInFlight is the attempt no  *)
(* logout has overtaken, and an overtaken attempt activates nothing.       *)
(***************************************************************************)
EXTENDS WalletSession, ChallengeProofs

USE DEF vars, browserVars, challengeVars, Op, Wallet

Pcs == {"new", "access", "challenge", "prompt", "verify", "accepted", "logout",
        "prepare", "review", "sign", "done"}

-----------------------------------------------------------------------------
(* What the four ways to change an operation do to its row.                *)

Others(o) == \A q \in Op \ {o} : op'[q] = op[q]

Kept(o) == /\ op'[o].kind = op[o].kind /\ op'[o].attempt = op[o].attempt
           /\ op'[o].overtaken = op[o].overtaken

LEMMA GotoRow ==
  ASSUME op \in [Op -> OpRow], NEW o \in Op, NEW pc \in Pcs, NEW at \in Nat, Goto(o, pc, at)
  PROVE  /\ op' \in [Op -> OpRow] /\ Others(o) /\ Kept(o)
         /\ op'[o].pc = pc /\ op'[o].wallet = op[o].wallet
<1> DEFINE row == [op[o] EXCEPT !.pc = pc, !.at = at]
<1>1. /\ row \in OpRow /\ row.pc = pc /\ row.wallet = op[o].wallet
      /\ row.kind = op[o].kind
      /\ row.attempt = op[o].attempt /\ row.overtaken = op[o].overtaken
  BY DEF OpRow, Pcs
<1>2. op' = [op EXCEPT ![o] = row]
  BY DEF Goto
<1> HIDE DEF row
<1> QED
  BY <1>1, <1>2 DEF Others, Kept

LEMMA IdleRow ==
  ASSUME NEW pc \in Pcs
  PROVE  /\ IdleOp(pc) \in OpRow /\ IdleOp(pc).pc = pc /\ IdleOp(pc).kind = "logout"
         /\ IdleOp(pc).overtaken = FALSE
BY DEF IdleOp, OpRow, Pcs, Kind

LEMMA FinishRow ==
  ASSUME op \in [Op -> OpRow], NEW o \in Op, Finish(o)
  PROVE  /\ op' \in [Op -> OpRow] /\ Others(o)
         /\ op'[o].pc = "done" /\ op'[o].kind = "logout"
<1>1. "done" \in Pcs
  BY DEF Pcs
<1> QED
  BY <1>1, IdleRow DEF Finish, Others

LEMMA StartRow ==
  ASSUME op \in [Op -> OpRow], NEW o \in Op, NEW kind \in Kind, NEW pc \in Pcs,
         NEW wallet \in Wallet \cup {NoSubject}, NEW attempt \in Nat, now \in Nat,
         Start(o, kind, pc, wallet, attempt)
  PROVE  /\ op' \in [Op -> OpRow] /\ Others(o) /\ op[o].pc = "new"
         /\ op'[o].pc = pc /\ op'[o].kind = kind /\ op'[o].wallet = wallet
         /\ op'[o].attempt = attempt /\ op'[o].overtaken = FALSE
<1> DEFINE row == [IdleOp(pc) EXCEPT !.kind = kind, !.wallet = wallet,
                                     !.attempt = attempt, !.at = now]
<1>1. /\ row \in OpRow /\ row.pc = pc /\ row.kind = kind /\ row.wallet = wallet
      /\ row.attempt = attempt /\ row.overtaken = FALSE
  BY IdleRow DEF IdleOp, OpRow, Pcs
<1>2. op' = [op EXCEPT ![o] = row] /\ op[o].pc = "new"
  BY DEF Start
<1> HIDE DEF row
<1> QED
  BY <1>1, <1>2 DEF Others

LEMMA DetectRow ==
  ASSUME op \in [Op -> OpRow], NEW o \in Op, now \in Nat, Detect(o)
  PROVE  /\ op' \in [Op -> OpRow] /\ Others(o) /\ Kept(o)
         /\ op[o].pc = "access" /\ op'[o].pc = "challenge" /\ op'[o].wallet \in Wallet
<1>1. PICK w \in FreighterAccount :
        op' = [op EXCEPT ![o].pc = "challenge", ![o].wallet = w, ![o].at = now]
  BY DEF Detect
<1> DEFINE row == [op[o] EXCEPT !.pc = "challenge", !.wallet = w, !.at = now]
<1>2. w \in Wallet
  BY SessionAssumption
<1>3. /\ row \in OpRow /\ row.pc = "challenge" /\ row.wallet = w
      /\ row.kind = op[o].kind /\ row.attempt = op[o].attempt
      /\ row.overtaken = op[o].overtaken
  BY <1>2 DEF OpRow
<1>4. op' = [op EXCEPT ![o] = row]
  BY <1>1
<1> HIDE DEF row
<1> QED
  BY <1>2, <1>3, <1>4 DEF Others, Kept, Detect

LEMMA PrepareRow ==
  ASSUME op \in [Op -> OpRow], NEW o \in Op, PrepareTx(o),
         cookie \in Session \cup {NoSession}
  PROVE  /\ op' \in [Op -> OpRow] /\ Others(o) /\ Kept(o)
         /\ op[o].pc = "prepare" /\ op'[o].pc = "review"
<1> DEFINE row == [op[o] EXCEPT !.pc = "review", !.source = cookie.wallet]
<1>1. cookie.wallet \in Wallet
  BY DEF PrepareTx, ValidSession, Session
<1>2. /\ row \in OpRow /\ row.pc = "review" /\ row.kind = op[o].kind
      /\ row.attempt = op[o].attempt /\ row.overtaken = op[o].overtaken
  BY <1>1 DEF OpRow
<1>3. op' = [op EXCEPT ![o] = row]
  BY DEF PrepareTx
<1> HIDE DEF row
<1> QED
  BY <1>2, <1>3 DEF Others, Kept, PrepareTx

LEMMA ReviewRow ==
  ASSUME op \in [Op -> OpRow], NEW o \in Op, ReviewTx(o)
  PROVE  /\ op' \in [Op -> OpRow] /\ Others(o) /\ Kept(o)
         /\ op[o].pc = "review" /\ op'[o].pc = "sign"
         /\ op'[o].account \in Wallet /\ op'[o].account = op'[o].wallet
         /\ op'[o].account = op'[o].source
<1>1. PICK account \in Wallet :
        /\ account = op[o].wallet /\ account = op[o].source
        /\ op' = [op EXCEPT ![o].pc = "sign", ![o].account = account]
  BY SessionAssumption DEF ReviewTx, Selected, Reviewed
<1> DEFINE row == [op[o] EXCEPT !.pc = "sign", !.account = account]
<1>2. /\ row \in OpRow /\ row.pc = "sign" /\ row.kind = op[o].kind
      /\ row.attempt = op[o].attempt /\ row.overtaken = op[o].overtaken
      /\ row.account = account /\ row.wallet = op[o].wallet /\ row.source = op[o].source
  BY DEF OpRow
<1>3. op' = [op EXCEPT ![o] = row]
  BY <1>1
<1> HIDE DEF row
<1> QED
  BY <1>1, <1>2, <1>3 DEF Others, Kept, ReviewTx

LEMMA LogoutRows ==
  ASSUME op \in [Op -> OpRow], NEW o \in Op, FinishLogout(o)
  PROVE  /\ op' \in [Op -> OpRow] /\ op'[o].pc = "done" /\ op'[o].kind = "logout"
         /\ \A q \in Op \ {o} : /\ op'[q].pc = op[q].pc /\ op'[q].kind = op[q].kind
                                /\ op'[q].attempt = op[q].attempt
                                /\ op'[q].wallet = op[q].wallet
                                /\ op'[q].source = op[q].source
                                /\ op'[q].account = op[q].account
                                /\ Running(q) => op'[q].overtaken
<1>1. "done" \in Pcs
  BY DEF Pcs
<1>2. op' = [x \in Op |-> IF x = o THEN IdleOp("done")
                          ELSE [op[x] EXCEPT !.overtaken = @ \/ Running(x)]]
  BY DEF FinishLogout
<1> DEFINE marked(q) == [op[q] EXCEPT !.overtaken = op[q].overtaken \/ Running(q)]
<1>3. ASSUME NEW q \in Op
      PROVE  /\ marked(q) \in OpRow /\ marked(q).pc = op[q].pc
             /\ marked(q).kind = op[q].kind /\ marked(q).attempt = op[q].attempt
             /\ marked(q).wallet = op[q].wallet /\ marked(q).source = op[q].source
             /\ marked(q).account = op[q].account
             /\ Running(q) => marked(q).overtaken
  <2>1. op[q].overtaken \in BOOLEAN /\ (op[q].overtaken \/ Running(q)) \in BOOLEAN
    BY DEF OpRow, Running
  <2>2. op[q] \in OpRow
    OBVIOUS
  <2> QED
    BY <2>1, <2>2 DEF OpRow
<1>4. op'[o] = IdleOp("done")
  BY <1>2
<1>5. \A q \in Op \ {o} : op'[q] = marked(q)
  BY <1>2
<1>6. DOMAIN op' = Op /\ op' = [x \in Op |-> op'[x]]
  BY <1>2
<1> HIDE DEF marked
<1>7. \A q \in Op : op'[q] \in OpRow
  BY <1>1, <1>3, <1>4, <1>5, IdleRow
<1>8. op' \in [Op -> OpRow]
  BY <1>6, <1>7
<1> QED
  BY <1>1, <1>3, <1>4, <1>5, <1>8, IdleRow

LEMMA ReloadRows ==
  ASSUME op \in [Op -> OpRow], Reload
  PROVE  /\ op' \in [Op -> OpRow]
         /\ \A q \in Op : op'[q].pc \in {"new", "done"}
<1>1. "done" \in Pcs
  BY DEF Pcs
<1> QED
  BY <1>1, IdleRow DEF Reload, Running

-----------------------------------------------------------------------------
(* Every operation that has been answered knows a wallet that has logged   *)
(* in.  Attempts are numbered upwards and a logout takes the next number,  *)
(* so the attempt with the page's number is the one none has overtaken.    *)
(* Between the review and the signature the reviewed account stays that of *)
(* the click and of the transaction.                                       *)

OpInv(o) ==
    /\ op[o].pc \in {"challenge", "prompt", "verify"} => op[o].wallet \in Wallet
    /\ op[o].pc = "accepted" /\ op[o].kind # "logout" => op[o].wallet \in loggedIn
    /\ op[o].pc = "logout" => op[o].kind = "logout"
    /\ op[o].pc \in {"prepare", "review", "sign"} => op[o].kind # "freighter"
    /\ op[o].pc = "sign" => /\ op[o].account \in Wallet
                            /\ op[o].account = op[o].wallet /\ op[o].account = op[o].source
    /\ op[o].kind = "freighter" /\ Running(o) =>
         /\ op[o].attempt <= page.attempt
         /\ op[o].attempt = page.attempt <=> ~op[o].overtaken
    /\ page.inFlight = o <=>
         (op[o].kind = "freighter" /\ Running(o) /\ ~op[o].overtaken)

OpsInv == op \in [Op -> OpRow] /\ page \in Page /\ \A o \in Op : OpInv(o)

SessionInv ==
    /\ TypeOK
    /\ ActiveHasLoggedIn
    /\ SubmittedAsShown
    /\ \A o \in Op : OpInv(o)

LEMMA PageFields ==
  ASSUME page \in Page
  PROVE  /\ page.attempt \in Nat /\ page.inFlight \in Op \cup {NoOp}
         /\ page.active \in Active \cup {NoSession}
         /\ page.restoring \in Session \cup {NoSession}
         /\ page.asked \in BOOLEAN
BY DEF Page

LEMMA RowFields ==
  ASSUME op \in [Op -> OpRow], NEW o \in Op
  PROVE  op[o].attempt \in Nat /\ op[o].overtaken \in BOOLEAN
BY DEF OpRow

SameAttempt == page'.attempt = page.attempt /\ page'.inFlight = page.inFlight

(* An operation awaits its next answer.                                    *)
LEMMA ContinueKeeps ==
  ASSUME OpsInv, NEW o \in Op, Others(o), Kept(o), Running(o), Running(o)', SameAttempt,
         loggedIn \subseteq loggedIn',
         op'[o].pc \in {"challenge", "prompt", "verify"} => op'[o].wallet \in Wallet,
         op'[o].pc = "accepted" /\ op'[o].kind # "logout" => op'[o].wallet \in loggedIn',
         op'[o].pc \notin {"logout", "prepare"},
         op'[o].pc = "review" => op[o].pc = "prepare",
         op'[o].pc = "sign" =>
           /\ op[o].pc = "review" /\ op'[o].account \in Wallet
           /\ op'[o].account = op'[o].wallet /\ op'[o].account = op'[o].source
  PROVE  \A q \in Op : OpInv(q)'
<1>1. OpInv(o)'
  BY DEF OpsInv, OpInv, Kept, Running, SameAttempt
<1>2. \A q \in Op \ {o} : OpInv(q)'
  BY DEF OpsInv, OpInv, Others, Running, SameAttempt
<1> QED
  BY <1>1, <1>2

(* An operation that is no attempt starts.                                 *)
LEMMA StartKeeps ==
  ASSUME OpsInv, NEW o \in Op, Others(o), op[o].pc = "new", op'[o].kind # "freighter",
         SameAttempt, loggedIn \subseteq loggedIn',
         op'[o].pc \in {"prepare", "logout", "challenge"},
         op'[o].pc = "challenge" => op'[o].wallet \in Wallet,
         op'[o].pc = "logout" => op'[o].kind = "logout"
  PROVE  \A q \in Op : OpInv(q)'
<1>1. OpInv(o)'
  BY DEF OpsInv, OpInv, Running, SameAttempt
<1>2. \A q \in Op \ {o} : OpInv(q)'
  BY DEF OpsInv, OpInv, Others, Running, SameAttempt
<1> QED
  BY <1>1, <1>2

(* An operation ends; the attempt in flight is cleared by itself only.     *)
LEMMA EndKeeps ==
  ASSUME OpsInv, NEW o \in Op, Others(o), Running(o),
         op'[o].pc = "done", op'[o].kind = "logout",
         page'.attempt = page.attempt, loggedIn \subseteq loggedIn',
         page'.inFlight = IF op[o].kind = "freighter" /\ op[o].attempt = page.attempt
                            THEN NoOp ELSE page.inFlight
  PROVE  \A q \in Op : OpInv(q)'
<1>0. NoOp \notin Op
  BY SessionAssumption
<1>1. op[o].kind = "freighter" /\ op[o].attempt = page.attempt <=> page.inFlight = o
  BY RowFields DEF OpsInv, OpInv
<1>2. page'.inFlight = IF page.inFlight = o THEN NoOp ELSE page.inFlight
  BY <1>1
<1>3. OpInv(o)'
  BY <1>0, <1>2 DEF OpInv, Running
<1>4. ASSUME NEW q \in Op \ {o} PROVE OpInv(q)'
  <2>1. page'.inFlight = q <=> page.inFlight = q
    BY <1>0, <1>2
  <2>2. OpInv(q) /\ op'[q] = op[q]
    BY DEF OpsInv, Others
  <2> QED
    BY <2>1, <2>2 DEF OpInv, Running
<1> QED
  BY <1>3, <1>4

LEMMA ConnectKeeps ==
  ASSUME OpsInv, NEW o \in Op, Others(o), page.inFlight = NoOp,
         op[o].pc = "new", op'[o].pc = "access", op'[o].kind = "freighter",
         op'[o].attempt = page.attempt + 1, op'[o].overtaken = FALSE,
         page'.attempt = page.attempt + 1, page'.inFlight = o,
         UNCHANGED loggedIn
  PROVE  \A q \in Op : OpInv(q)'
<1>0. NoOp \notin Op /\ page.attempt \in Nat
  BY SessionAssumption, PageFields DEF OpsInv
<1>1. OpInv(o)'
  BY <1>0 DEF OpInv, Running
<1>2. ASSUME NEW q \in Op \ {o} PROVE OpInv(q)'
  <2>1. /\ OpInv(q) /\ op'[q] = op[q] /\ op[q].attempt \in Nat
        /\ op[q].overtaken \in BOOLEAN
    BY RowFields DEF OpsInv, Others
  <2>2. op[q].kind = "freighter" /\ Running(q) => op[q].overtaken
    BY <1>0, <2>1 DEF OpInv
  <2> QED
    BY <1>0, <2>1, <2>2 DEF OpInv, Running
<1> QED
  BY <1>1, <1>2

LEMMA LogoutKeeps ==
  ASSUME OpsInv, NEW o \in Op, FinishLogout(o)
  PROVE  \A q \in Op : OpInv(q)'
<1>0. /\ NoOp \notin Op /\ page.attempt \in Nat /\ UNCHANGED loggedIn
      /\ page'.attempt = page.attempt + 1 /\ page'.inFlight = NoOp
  BY SessionAssumption, PageFields DEF OpsInv, FinishLogout, LoggedOut, Page
<1>1. OpInv(o)'
  BY <1>0, LogoutRows DEF OpsInv, OpInv, Running
<1>2. ASSUME NEW q \in Op \ {o} PROVE OpInv(q)'
  <2>1. /\ OpInv(q) /\ op[q].attempt \in Nat
        /\ op'[q].pc = op[q].pc /\ op'[q].kind = op[q].kind
        /\ op'[q].attempt = op[q].attempt /\ op'[q].wallet = op[q].wallet
        /\ op'[q].source = op[q].source /\ op'[q].account = op[q].account
        /\ Running(q) => op'[q].overtaken
    BY LogoutRows, RowFields DEF OpsInv
  <2> QED
    BY <1>0, <2>1 DEF OpInv, Running
<1> QED
  BY <1>1, <1>2

LEMMA ReloadKeeps ==
  ASSUME OpsInv, Reload
  PROVE  \A q \in Op : OpInv(q)'
<1>1. NoOp \notin Op /\ page'.inFlight = NoOp
  BY SessionAssumption DEF Reload, MountedPage
<1> QED
  BY <1>1, ReloadRows DEF OpsInv, OpInv, Running

LEMMA PageKeeps ==
  ASSUME OpsInv, UNCHANGED op, SameAttempt, loggedIn \subseteq loggedIn'
  PROVE  \A q \in Op : OpInv(q)'
BY DEF OpsInv, OpInv, Running, SameAttempt

-----------------------------------------------------------------------------
(* The steps of the challenge tables.                                      *)

LEMMA SessionIssues ==
  ASSUME TypeOK, NEW o \in Op, OpInv(o), IssueChallenge(o)
  PROVE  /\ op[o].wallet \in Subject
         /\ \E at \in 0..now, start \in 0..now : CreateChallenge(o, op[o].wallet, at, start)
BY DEF IssueChallenge, OpInv, TypeOK, OpRow, ChallengeTypeOK

LEMMA SessionConsumes ==
  ASSUME TypeOK, NEW o \in Op, OpInv(o), Verify(o) \/ VerifyUnanswered(o)
  PROVE  /\ op[o].wallet \in Subject
         /\ \E at \in 0..now : ConsumeChallenge(o, op[o].wallet, at)
BY DEF Verify, VerifyUnanswered, VerifyChallenge, OpInv, TypeOK, OpRow, ChallengeTypeOK

LEMMA TablesTyped ==
  ASSUME TypeOK, \A o \in Op : OpInv(o), [Next]_vars
  PROVE  ChallengeTypeOK'
<1>1. ASSUME NEW o \in Op, IssueChallenge(o) PROVE ChallengeTypeOK'
  <2>1. chal' \in [Challenge -> ChallengeRow]
    BY <1>1, SessionIssues, CreateRows DEF TypeOK
  <2> QED
    BY <1>1, <2>1 DEF IssueChallenge, TypeOK, ChallengeTypeOK
<1>2. ASSUME NEW o \in Op, Verify(o) \/ VerifyUnanswered(o) PROVE ChallengeTypeOK'
  <2>1. chal' \in [Challenge -> ChallengeRow] /\ accepted' \in [Challenge -> Nat]
    BY <1>2, SessionConsumes, ConsumeRows DEF TypeOK
  <2> QED
    BY <1>2, <2>1 DEF Verify, VerifyUnanswered, TypeOK, ChallengeTypeOK
<1>3. CASE Tick
  BY <1>3, ChallengeAssumption DEF Tick, ChallengeTick, TypeOK, ChallengeTypeOK
<1>4. CASE UNCHANGED challengeVars
  BY <1>4 DEF TypeOK, ChallengeTypeOK
<1> QED
  BY <1>1, <1>2, <1>3, <1>4
     DEF Next, SignMessage, Connect, Detect, FinishConnect, Fail, ConnectDemo, FinishDemo,
         StartDemo, FinishStarter, PayWithDemo, FinishPayment, RequestTx, PrepareTx, ReviewTx,
         SignTx, Logout, LogoutAnswer, FinishLogout, ReloadPage, Restore, RestoreNothing,
         RestoreFails

-----------------------------------------------------------------------------
LEMMA SessionInit == Init => SessionInv
<1>1. Init => TypeOK
  BY ChallengeAssumption, SessionAssumption, IdleRow
     DEF Init, TypeOK, ChallengeInit, ChallengeTypeOK, ChallengeRow, NoChallenge, MountedPage,
         Page, Pcs
<1>2. Init => ActiveHasLoggedIn /\ SubmittedAsShown
  BY DEF Init, MountedPage, ActiveHasLoggedIn, SubmittedAsShown
<1>3. Init => \A o \in Op : OpInv(o)
  BY SessionAssumption DEF Init, MountedPage, OpInv, Running, IdleOp
<1> QED
  BY <1>1, <1>2, <1>3 DEF SessionInv

(* What is left to show of a step once the tables are known to be typed.   *)
RestOK ==
    /\ page \in Page
    /\ mode \in {"none", "demo", "freighter"}
    /\ cookie \in Session \cup {NoSession}
    /\ op \in [Op -> OpRow]
    /\ loggedIn \subseteq Wallet
    /\ submitted \subseteq [shown : Wallet, source : Wallet, signer : Wallet]
    /\ ActiveHasLoggedIn
    /\ SubmittedAsShown
    /\ \A o \in Op : OpInv(o)

(* A step that changes operations and perhaps clears the attempt.          *)
LEMMA OpSteps ==
  ASSUME RestOK, op' \in [Op -> OpRow], page' \in Page,
         page'.active = page.active, page'.restoring = page.restoring,
         UNCHANGED <<mode, cookie, loggedIn, submitted>>,
         \A o \in Op : OpInv(o)'
  PROVE  RestOK'
BY DEF RestOK, ActiveHasLoggedIn, SubmittedAsShown

LEMMA ActivePages ==
  ASSUME page \in Page, NEW active \in Active \cup {NoSession},
         NEW inFlight \in Op \cup {NoOp},
         page' = [page EXCEPT !.active = active, !.inFlight = inFlight]
  PROVE  /\ page' \in Page /\ page'.active = active /\ page'.inFlight = inFlight
         /\ page'.attempt = page.attempt /\ page'.restoring = page.restoring
         /\ page'.asked = page.asked
BY DEF Page

LEMMA ReloadPages ==
  ASSUME RestOK, Reload
  PROVE  /\ page' \in Page /\ page'.active = NoSession
         /\ page'.restoring # NoSession => page'.restoring.wallet \in loggedIn
BY DEF RestOK, Reload, MountedPage, Page, ActiveHasLoggedIn, ValidSession

(* FinishConnect, FinishDemo: a wallet that has logged in becomes active.  *)
LEMMA ActivateSteps ==
  ASSUME RestOK, NEW o \in Op, op[o].wallet \in loggedIn, Finish(o),
         op[o].pc = "accepted",
         NEW m \in {"demo", "freighter"}, mode' = m,
         NEW inFlight \in Op \cup {NoOp},
         page' = [page EXCEPT !.active = [mode |-> m, wallet |-> op[o].wallet],
                              !.inFlight = inFlight],
         inFlight = IF op[o].kind = "freighter" /\ op[o].attempt = page.attempt
                      THEN NoOp ELSE page.inFlight,
         UNCHANGED <<cookie, loggedIn, submitted>>
  PROVE  RestOK'
<1>1. [mode |-> m, wallet |-> op[o].wallet] \in Active
  BY DEF RestOK, Active
<1>2. /\ page' \in Page /\ page'.active = [mode |-> m, wallet |-> op[o].wallet]
      /\ page'.inFlight = inFlight /\ page'.attempt = page.attempt
      /\ page'.restoring = page.restoring
  BY <1>1, ActivePages DEF RestOK
<1>3. OpsInv /\ Running(o)
  BY DEF RestOK, OpsInv, Running
<1>4. /\ op' \in [Op -> OpRow] /\ Others(o) /\ op'[o].pc = "done"
      /\ op'[o].kind = "logout"
  BY FinishRow DEF RestOK
<1>5. \A q \in Op : OpInv(q)'
  BY <1>2, <1>3, <1>4, EndKeeps
<1>6. ActiveHasLoggedIn'
  BY <1>2 DEF RestOK, ActiveHasLoggedIn
<1> QED
  BY <1>2, <1>4, <1>5, <1>6 DEF RestOK, SubmittedAsShown

(* An operation that ends while the page stays as it is.                   *)
LEMMA EndSteps ==
  ASSUME RestOK, NEW o \in Op, Running(o), Finish(o), page' \in Page,
         page'.active = page.active, page'.restoring = page.restoring,
         page'.attempt = page.attempt,
         page'.inFlight = IF op[o].kind = "freighter" /\ op[o].attempt = page.attempt
                            THEN NoOp ELSE page.inFlight,
         mode' \in {"none", "demo", "freighter"}, UNCHANGED <<cookie, loggedIn>>,
         submitted' \subseteq [shown : Wallet, source : Wallet, signer : Wallet],
         SubmittedAsShown'
  PROVE  RestOK'
<1>1. /\ op' \in [Op -> OpRow] /\ Others(o) /\ op'[o].pc = "done"
      /\ op'[o].kind = "logout" /\ OpsInv
  BY FinishRow DEF RestOK, OpsInv
<1>2. \A q \in Op : OpInv(q)'
  BY <1>1, EndKeeps
<1> QED
  BY <1>1, <1>2 DEF RestOK, ActiveHasLoggedIn

LEMMA RestStarts ==
  ASSUME RestOK, now \in Nat, NEW o \in Op,
         ConnectDemo(o) \/ StartDemo(o) \/ PayWithDemo(o) \/ RequestTx(o) \/ Logout(o)
  PROVE  RestOK'
<1>1. /\ DemoAccount \in Wallet /\ OpsInv
      /\ {"new", "challenge", "prepare", "logout"} \subseteq Pcs
      /\ {"demo", "starter", "payment", "demoTx", "freighterTx", "logout"} \subseteq Kind
  BY SessionAssumption DEF Pcs, Kind, RestOK, OpsInv
<1>2. UNCHANGED <<page, mode, cookie, loggedIn, submitted>>
  BY DEF ConnectDemo, StartDemo, PayWithDemo, RequestTx, Logout
<1>3. PICK kind \in Kind \ {"freighter"}, pc \in {"prepare", "logout", "challenge"},
           w \in Wallet \cup {NoSubject} :
        /\ Start(o, kind, pc, w, 0)
        /\ pc = "challenge" => w \in Wallet
        /\ pc = "logout" => kind = "logout"
  <2>1. CASE RequestTx(o)
    <3>1. page.active.wallet \in Wallet
      BY <2>1 DEF RequestTx, RestOK, Page, Active
    <3> QED
      BY <1>1, <2>1, <3>1 DEF RequestTx
  <2>2. CASE Logout(o)
    BY <1>1, <2>2 DEF Logout
  <2>3. CASE ConnectDemo(o) \/ StartDemo(o) \/ PayWithDemo(o)
    BY <1>1, <2>3 DEF ConnectDemo, StartDemo, PayWithDemo
  <2> QED
    BY <2>1, <2>2, <2>3
<1>4. /\ op' \in [Op -> OpRow] /\ Others(o) /\ op[o].pc = "new"
      /\ op'[o].pc = pc /\ op'[o].kind = kind /\ op'[o].wallet = w
  <2>1. op \in [Op -> OpRow] /\ pc \in Pcs /\ kind \in Kind /\ 0 \in Nat
    BY <1>1 DEF RestOK
  <2>2. Start(o, kind, pc, w, 0)
    BY <1>3
  <2> QED
    BY <2>1, <2>2, StartRow
<1>5. \A q \in Op : OpInv(q)'
  BY <1>1, <1>2, <1>3, <1>4, StartKeeps DEF SameAttempt
<1> QED
  BY <1>2, <1>4, <1>5, OpSteps DEF RestOK

LEMMA RestConnect ==
  ASSUME RestOK, now \in Nat, NEW o \in Op, Connect(o)
  PROVE  RestOK'
<1> DEFINE next == [page EXCEPT !.attempt = page.attempt + 1, !.inFlight = o]
<1>0. page \in Page /\ page.attempt + 1 \in Nat
  BY PageFields DEF RestOK
<1>1. /\ next \in Page /\ next.attempt = page.attempt + 1 /\ next.inFlight = o
      /\ next.active = page.active /\ next.restoring = page.restoring
  BY <1>0 DEF Page
<1>2. /\ page' = next /\ page.inFlight = NoOp
      /\ Start(o, "freighter", "access", NoSubject, page.attempt + 1)
      /\ UNCHANGED <<mode, cookie, loggedIn, submitted>>
  BY DEF Connect
<1> HIDE DEF next
<1>3. /\ page.attempt + 1 \in Nat /\ "freighter" \in Kind /\ "access" \in Pcs
  BY PageFields DEF RestOK, Kind, Pcs
<1>4. /\ op' \in [Op -> OpRow] /\ Others(o) /\ op[o].pc = "new"
      /\ op'[o].pc = "access" /\ op'[o].kind = "freighter"
      /\ op'[o].attempt = page.attempt + 1 /\ op'[o].overtaken = FALSE
  BY <1>2, <1>3, StartRow DEF RestOK
<1>5. \A q \in Op : OpInv(q)'
  BY <1>1, <1>2, <1>4, ConnectKeeps DEF RestOK, OpsInv
<1> QED
  BY <1>1, <1>2, <1>4, <1>5, OpSteps

LEMMA RestContinues ==
  ASSUME RestOK, now \in Nat, NEW o \in Op,
         IssueChallenge(o) \/ SignMessage(o) \/ Detect(o) \/ PrepareTx(o)
         \/ ReviewTx(o)
  PROVE  RestOK'
<1>1. UNCHANGED <<page, mode, cookie, loggedIn, submitted>> /\ OpsInv
  BY DEF IssueChallenge, SignMessage, Detect, PrepareTx, ReviewTx, RestOK, OpsInv
<1>2. /\ op' \in [Op -> OpRow] /\ Others(o) /\ Kept(o)
      /\ op[o].pc \in {"challenge", "prompt", "access", "prepare", "review"}
      /\ op'[o].pc \in {"prompt", "verify", "challenge", "review", "sign"}
      /\ op'[o].pc \notin {"review", "sign"} => op'[o].wallet \in Wallet
      /\ op'[o].pc = "review" => op[o].pc = "prepare"
      /\ op'[o].pc = "sign" =>
           /\ op[o].pc = "review" /\ op'[o].account \in Wallet
           /\ op'[o].account = op'[o].wallet /\ op'[o].account = op'[o].source
  <2>1. CASE IssueChallenge(o)
    <3>1. PICK pc \in {"prompt", "verify"}, at \in Nat : Goto(o, pc, at)
      BY <2>1 DEF IssueChallenge, Answer
    <3>2. pc \in Pcs /\ op[o].pc = "challenge" /\ op[o].wallet \in Wallet
      BY <2>1 DEF Pcs, IssueChallenge, RestOK, OpInv
    <3>3. /\ op' \in [Op -> OpRow] /\ Others(o) /\ Kept(o)
          /\ op'[o].pc = pc /\ op'[o].wallet = op[o].wallet
      BY <3>1, <3>2, GotoRow DEF RestOK
    <3> QED
      BY <3>2, <3>3
  <2>2. CASE SignMessage(o)
    <3>1. Goto(o, "verify", now) /\ op[o].pc = "prompt"
      BY <2>2 DEF SignMessage
    <3>2. "verify" \in Pcs /\ op[o].wallet \in Wallet
      BY <3>1 DEF Pcs, RestOK, OpInv
    <3>3. /\ op' \in [Op -> OpRow] /\ Others(o) /\ Kept(o)
          /\ op'[o].pc = "verify" /\ op'[o].wallet = op[o].wallet
      BY <3>1, <3>2, GotoRow DEF RestOK
    <3> QED
      BY <3>1, <3>2, <3>3
  <2>3. CASE Detect(o)
    BY <2>3, DetectRow DEF RestOK
  <2>4. CASE PrepareTx(o)
    BY <2>4, PrepareRow DEF RestOK
  <2>5. CASE ReviewTx(o)
    BY <2>5, ReviewRow DEF RestOK
  <2> QED
    BY <2>1, <2>2, <2>3, <2>4, <2>5
<1>3. \A q \in Op : OpInv(q)'
  BY <1>1, <1>2, ContinueKeeps DEF SameAttempt, Running
<1> QED
  BY <1>1, <1>2, <1>3, OpSteps DEF RestOK

LEMMA RestLogsIn ==
  ASSUME RestOK, now \in Nat, NEW o \in Op, Verify(o)
  PROVE  RestOK'
<1>1. /\ UNCHANGED <<page, mode, submitted>> /\ Goto(o, "accepted", 0)
      /\ op[o].pc = "verify" /\ op[o].wallet \in Wallet
      /\ cookie' = NewSession(op[o].wallet)
      /\ loggedIn' = loggedIn \cup {op[o].wallet}
  BY DEF Verify, VerifyChallenge, RestOK, OpInv
<1>2. cookie' \in Session /\ cookie'.wallet = op[o].wallet
  BY <1>1, SessionAssumption DEF NewSession, Session
<1>3. /\ op' \in [Op -> OpRow] /\ Others(o) /\ Kept(o)
      /\ op'[o].pc = "accepted" /\ op'[o].wallet = op[o].wallet
  <2>1. "accepted" \in Pcs /\ 0 \in Nat
    BY DEF Pcs
  <2> QED
    BY <1>1, <2>1, GotoRow DEF RestOK
<1>4. OpsInv /\ Running(o) /\ Running(o)'
  BY <1>1, <1>3 DEF RestOK, OpsInv, Running
<1>5. \A q \in Op : OpInv(q)'
  BY <1>1, <1>3, <1>4, ContinueKeeps DEF SameAttempt
<1>6. ActiveHasLoggedIn'
  BY <1>1, <1>2 DEF RestOK, ActiveHasLoggedIn
<1> QED
  BY <1>1, <1>2, <1>3, <1>5, <1>6 DEF RestOK, SubmittedAsShown

LEMMA RestLogoutAnswer ==
  ASSUME RestOK, NEW o \in Op, LogoutAnswer(o)
  PROVE  RestOK'
<1>1. /\ UNCHANGED <<page, mode, loggedIn, submitted>> /\ Goto(o, "accepted", 0)
      /\ op[o].pc = "logout" /\ op[o].kind = "logout" /\ cookie' = NoSession
  BY DEF LogoutAnswer, RestOK, OpInv
<1>2. /\ op' \in [Op -> OpRow] /\ Others(o) /\ Kept(o) /\ op'[o].pc = "accepted"
  <2>1. "accepted" \in Pcs /\ 0 \in Nat
    BY DEF Pcs
  <2> QED
    BY <1>1, <2>1, GotoRow DEF RestOK
<1>3. OpsInv /\ Running(o) /\ Running(o)'
  BY <1>1, <1>2 DEF RestOK, OpsInv, Running
<1>4. \A q \in Op : OpInv(q)'
  BY <1>1, <1>2, <1>3, ContinueKeeps DEF SameAttempt, Kept
<1> QED
  BY <1>1, <1>2, <1>4 DEF RestOK, SubmittedAsShown, ActiveHasLoggedIn

LEMMA RestEnds ==
  ASSUME RestOK, NEW o \in Op, Fail(o) \/ FinishPayment(o)
  PROVE  RestOK'
<1>1. /\ UNCHANGED <<mode, cookie, loggedIn, submitted>> /\ Finish(o) /\ Running(o)
      /\ page \in Page
  BY DEF Fail, FinishPayment, Running, RestOK
<1>2. /\ page' \in Page /\ page'.active = page.active
      /\ page'.restoring = page.restoring /\ page'.attempt = page.attempt
      /\ page'.inFlight = IF op[o].kind = "freighter" /\ op[o].attempt = page.attempt
                            THEN NoOp ELSE page.inFlight
  <2>1. CASE Fail(o)
    BY <1>1, <2>1 DEF Fail, IsCurrent, Page
  <2>2. CASE FinishPayment(o)
    BY <1>1, <2>2 DEF FinishPayment
  <2> QED
    BY <2>1, <2>2
<1> QED
  BY <1>1, <1>2, EndSteps DEF RestOK, SubmittedAsShown

LEMMA RestConnected ==
  ASSUME RestOK, NEW o \in Op, FinishConnect(o)
  PROVE  RestOK'
<1>1. /\ UNCHANGED <<cookie, loggedIn, submitted>> /\ Finish(o) /\ Running(o)
      /\ op[o].pc = "accepted" /\ op[o].kind = "freighter"
      /\ op[o].wallet \in loggedIn /\ page \in Page
  BY DEF FinishConnect, Running, RestOK, OpInv
<1>2. CASE IsCurrent(o)
  <2>1. /\ mode' = "freighter"
        /\ page' = [page EXCEPT !.active = [mode |-> "freighter", wallet |-> op[o].wallet],
                                 !.inFlight = NoOp]
    BY <1>1, <1>2 DEF FinishConnect, Activated, Page
  <2>2. NoOp = IF op[o].kind = "freighter" /\ op[o].attempt = page.attempt
                 THEN NoOp ELSE page.inFlight
    BY <1>1, <1>2 DEF IsCurrent
  <2>3. NoOp \in Op \cup {NoOp} /\ "freighter" \in {"demo", "freighter"}
    OBVIOUS
  <2> QED
    BY <1>1, <2>1, <2>2, <2>3, ActivateSteps
<1>3. CASE ~IsCurrent(o)
  <2>1. UNCHANGED <<mode, page>> /\ op[o].attempt # page.attempt
    BY <1>3 DEF FinishConnect, IsCurrent
  <2> QED
    BY <1>1, <2>1, EndSteps DEF RestOK, SubmittedAsShown
<1> QED
  BY <1>2, <1>3

LEMMA RestDemo ==
  ASSUME RestOK, NEW o \in Op, FinishDemo(o)
  PROVE  RestOK'
<1>1. /\ UNCHANGED <<cookie, loggedIn, submitted>> /\ Finish(o)
      /\ op[o].pc = "accepted" /\ op[o].kind = "demo" /\ mode' = "demo"
      /\ op[o].wallet \in loggedIn /\ page.inFlight \in Op \cup {NoOp}
  BY PageFields DEF FinishDemo, RestOK, OpInv
<1>2. page' = [page EXCEPT !.active = [mode |-> "demo", wallet |-> op[o].wallet],
                           !.inFlight = page.inFlight]
  BY DEF FinishDemo, Activated, RestOK, Page
<1>3. page.inFlight = IF op[o].kind = "freighter" /\ op[o].attempt = page.attempt
                        THEN NoOp ELSE page.inFlight
  BY <1>1
<1>4. "demo" \in {"demo", "freighter"}
  OBVIOUS
<1> QED
  BY <1>1, <1>2, <1>3, <1>4, ActivateSteps

LEMMA RestReloads ==
  ASSUME RestOK, Reload, mode' \in {"none", "demo", "freighter"},
         UNCHANGED <<cookie, loggedIn, submitted>>
  PROVE  RestOK'
<1>1. /\ page' \in Page /\ op' \in [Op -> OpRow] /\ \A q \in Op : OpInv(q)'
      /\ page'.active = NoSession
      /\ page'.restoring # NoSession => page'.restoring.wallet \in loggedIn
  BY ReloadPages, ReloadRows, ReloadKeeps DEF RestOK, OpsInv
<1> QED
  BY <1>1 DEF RestOK, ActiveHasLoggedIn, SubmittedAsShown

LEMMA RestStarter ==
  ASSUME RestOK, NEW o \in Op, FinishStarter(o)
  PROVE  RestOK'
<1>1. /\ UNCHANGED <<cookie, loggedIn, submitted>> /\ mode' = "demo" /\ Running(o)
      /\ op[o].kind = "starter"
  BY DEF FinishStarter, Running
<1>2. CASE Reload
  BY <1>1, <1>2, RestReloads
<1>3. CASE Finish(o) /\ UNCHANGED page
  BY <1>1, <1>3, EndSteps DEF RestOK, SubmittedAsShown
<1> QED
  BY <1>2, <1>3 DEF FinishStarter

LEMMA RestSigns ==
  ASSUME RestOK, NEW o \in Op, SignTx(o)
  PROVE  RestOK'
<1>1. /\ UNCHANGED <<page, mode, cookie, loggedIn>> /\ Finish(o) /\ Running(o)
      /\ op[o].pc = "sign"
  BY DEF SignTx, Running
<1>2. /\ op[o].wallet \in Wallet /\ op[o].source = op[o].wallet
      /\ op[o].account = op[o].wallet /\ op[o].kind # "freighter"
  BY <1>1 DEF RestOK, OpInv
<1>3. /\ submitted' \subseteq [shown : Wallet, source : Wallet, signer : Wallet]
      /\ SubmittedAsShown'
  <2>1. PICK signer \in Selected(o) :
          IF SignedByConnected(o, signer)
            THEN submitted' = submitted \cup {[shown |-> op[o].wallet, source |-> op[o].source,
                                               signer |-> signer]}
            ELSE UNCHANGED submitted
    BY DEF SignTx
  <2>2. CASE SignedByConnected(o, signer)
    <3> DEFINE w == op[o].wallet
    <3>1. submitted' = submitted \cup {[shown |-> w, source |-> w, signer |-> w]}
      BY <1>2, <2>1, <2>2 DEF SignedByConnected
    <3> QED
      BY <1>2, <3>1 DEF RestOK, SubmittedAsShown
  <2>3. CASE ~SignedByConnected(o, signer)
    BY <2>1, <2>3 DEF RestOK, SubmittedAsShown
  <2> QED
    BY <2>2, <2>3
<1> QED
  BY <1>1, <1>2, <1>3, EndSteps DEF RestOK

LEMMA RestPage ==
  ASSUME RestOK, Restore \/ RestoreNothing \/ RestoreFails
  PROVE  RestOK'
<1>1. UNCHANGED <<cookie, op, loggedIn, submitted>> /\ OpsInv
  BY DEF Restore, RestoreNothing, RestoreFails, RestOK, OpsInv
<1>2. /\ page' \in Page /\ mode' \in {"none", "demo", "freighter"} /\ SameAttempt
      /\ page'.active # NoSession => page'.active.wallet \in loggedIn
      /\ page'.restoring = NoSession
  <2>1. CASE Restore
    <3> DEFINE active == [mode |-> mode, wallet |-> page.restoring.wallet]
    <3>1. /\ page.restoring \in Session /\ mode \in {"demo", "freighter"}
          /\ page.restoring.wallet \in loggedIn
      BY <2>1, PageFields DEF Restore, Restorable, RestOK, ActiveHasLoggedIn
    <3>2. active \in Active /\ active.wallet \in loggedIn
      BY <3>1 DEF Session, Active
    <3>3. /\ page' = [page EXCEPT !.asked = FALSE, !.restoring = NoSession,
                                  !.active = active]
          /\ UNCHANGED mode
      BY <2>1 DEF Restore, Forget, Activated
    <3> HIDE DEF active
    <3> QED
      BY <3>2, <3>3 DEF RestOK, Page, SameAttempt
  <2>2. CASE RestoreNothing \/ RestoreFails
    BY <2>2 DEF RestoreNothing, RestoreFails, Forget, RestOK, Page, SameAttempt,
                ActiveHasLoggedIn
  <2> QED
    BY <2>1, <2>2
<1>3. \A o \in Op : OpInv(o)'
  BY <1>1, <1>2, PageKeeps
<1> QED
  BY <1>1, <1>2, <1>3 DEF RestOK, ActiveHasLoggedIn, SubmittedAsShown

LEMMA RestLogout ==
  ASSUME RestOK, NEW o \in Op, FinishLogout(o)
  PROVE  RestOK'
<1>1. /\ op' \in [Op -> OpRow] /\ \A q \in Op : OpInv(q)'
  BY LogoutRows, LogoutKeeps DEF RestOK, OpsInv
<1>2. page \in Page /\ page.attempt + 1 \in Nat
  BY PageFields DEF RestOK
<1>3. /\ page' \in Page /\ page'.active = NoSession
      /\ page'.restoring = page.restoring
  BY <1>2 DEF FinishLogout, LoggedOut, Page
<1>4. UNCHANGED <<cookie, loggedIn, submitted>> /\ mode' = "none"
  BY DEF FinishLogout
<1> QED
  BY <1>1, <1>3, <1>4 DEF RestOK, ActiveHasLoggedIn, SubmittedAsShown

LEMMA RestNext ==
  ASSUME SessionInv, [Next]_vars
  PROVE  RestOK'
<1>1. RestOK /\ now \in Nat
  BY ChallengeAssumption DEF SessionInv, TypeOK, ChallengeTypeOK, RestOK
<1>2. CASE UNCHANGED browserVars
  BY <1>1, <1>2 DEF RestOK, OpInv, Running, ActiveHasLoggedIn, SubmittedAsShown
<1>3. CASE \E o \in Op : FinishConnect(o) \/ FinishDemo(o) \/ FinishStarter(o)
                       \/ FinishPayment(o) \/ FinishLogout(o) \/ Fail(o)
  BY <1>1, <1>3, RestConnected, RestDemo, RestStarter, RestEnds, RestLogout
<1>4. CASE \E o \in Op : ConnectDemo(o) \/ StartDemo(o) \/ PayWithDemo(o) \/ RequestTx(o)
                       \/ Logout(o) \/ Connect(o)
  BY <1>1, <1>4, RestStarts, RestConnect
<1>5. CASE \E o \in Op : IssueChallenge(o) \/ SignMessage(o) \/ Detect(o) \/ PrepareTx(o)
                       \/ Verify(o) \/ LogoutAnswer(o) \/ ReviewTx(o) \/ SignTx(o)
  BY <1>1, <1>5, RestContinues, RestLogsIn, RestLogoutAnswer, RestSigns
<1>6. CASE ReloadPage
  BY <1>1, <1>6, RestReloads DEF ReloadPage, RestOK
<1>7. CASE Restore \/ RestoreNothing \/ RestoreFails
  BY <1>1, <1>7, RestPage
<1> QED
  BY <1>2, <1>3, <1>4, <1>5, <1>6, <1>7 DEF Next, VerifyUnanswered, Tick

LEMMA SessionNext == SessionInv /\ [Next]_vars => SessionInv'
<1> SUFFICES ASSUME SessionInv, [Next]_vars PROVE SessionInv'
  OBVIOUS
<1>1. ChallengeTypeOK'
  BY TablesTyped DEF SessionInv
<1> QED
  BY <1>1, RestNext DEF RestOK, SessionInv, TypeOK

LEMMA SessionAlways == Spec => []SessionInv
<1> QED
  BY SessionInit, SessionNext, PTL DEF Spec

-----------------------------------------------------------------------------
(* Every variable of the page, the browser, the operations and the tables  *)
(* keeps its type.                                                         *)
THEOREM SessionTypeCorrect == Spec => []TypeOK
<1>1. SessionInv => TypeOK
  BY DEF SessionInv
<1> QED
  BY <1>1, SessionAlways, PTL

(* A wallet the page calls active has answered a challenge, and so have    *)
(* the wallets of the cookie and of the session about to be restored.      *)
THEOREM ActiveAnsweredChallenge == Spec => []ActiveHasLoggedIn
<1>1. SessionInv => ActiveHasLoggedIn
  BY DEF SessionInv
<1> QED
  BY <1>1, SessionAlways, PTL

(* connectInFlight is exactly the attempt that no logout has overtaken:    *)
(* the button is never stuck and never prompts twice for one attempt.      *)
THEOREM OneAttemptInFlight == Spec => []InFlightIsTheAttempt
<1>1. SessionInv => InFlightIsTheAttempt
  BY DEF SessionInv, OpInv, InFlightIsTheAttempt
<1> QED
  BY <1>1, SessionAlways, PTL

(* Of what is signed only a transaction of the account that was on show,   *)
(* with that account's key, is submitted, whatever cookie, page and        *)
(* extension became while the page waited for the routes and the prompt.   *)
THEOREM SubmissionsAsShown == Spec => []SubmittedAsShown
<1>1. SessionInv => SubmittedAsShown
  BY DEF SessionInv
<1> QED
  BY <1>1, SessionAlways, PTL

-----------------------------------------------------------------------------
(* The routes use the tables as Challenges describes it, so what is proved *)
(* of the tables holds of every session.                                   *)
THEOREM SessionUsesChallenges == Spec => ChallengeSpec
<1>1. SessionInv /\ [Next]_vars => [ChallengeNext]_challengeVars
  <2> SUFFICES ASSUME SessionInv, [Next]_vars PROVE [ChallengeNext]_challengeVars
    OBVIOUS
  <2>1. ASSUME NEW o \in Op, IssueChallenge(o) PROVE ChallengeNext
    BY <2>1, SessionIssues DEF SessionInv, IssueChallenge, ChallengeNext
  <2>2. ASSUME NEW o \in Op, Verify(o) \/ VerifyUnanswered(o) PROVE ChallengeNext
    BY <2>2, SessionConsumes DEF SessionInv, Verify, VerifyUnanswered, ChallengeNext
  <2>3. CASE Tick
    BY <2>3 DEF Tick, ChallengeNext
  <2> QED
    BY <2>1, <2>2, <2>3
       DEF Next, SignMessage, Connect, Detect, FinishConnect, Fail, ConnectDemo, FinishDemo,
           StartDemo, FinishStarter, PayWithDemo, FinishPayment, RequestTx, PrepareTx, ReviewTx,
           SignTx, Logout, LogoutAnswer, FinishLogout, ReloadPage, Restore, RestoreNothing,
           RestoreFails
<1>2. Init => ChallengeInit
  BY DEF Init
<1> QED
  BY <1>1, <1>2, SessionAlways, PTL DEF Spec, ChallengeSpec

(* A challenge logs in once, although its request is repeated when the     *)
(* answer was lost.                                                        *)
THEOREM LoginAcceptedOnce == Spec => []AcceptedOnce
<1> QED
  BY SessionUsesChallenges, ChallengeAcceptedOnce, PTL

(* The open challenges of every period are within the limits, whatever the *)
(* wallets of the browser ask for.                                         *)
THEOREM LoginsBounded == Spec => []OpenIsBounded
<1> QED
  BY SessionUsesChallenges, ChallengesBounded, PTL

-----------------------------------------------------------------------------
(* An attempt that a logout has overtaken never makes its wallet active.   *)
THEOREM OvertakenIsDropped == Spec => OvertakenNeverActivates
<1> DEFINE Ended == \E o \in Op :
                      /\ op[o].pc = "accepted" /\ op[o].kind = "freighter"
                      /\ ~op[o].overtaken /\ op[o].wallet = page'.active.wallet
                      /\ op'[o].pc = "done"
<1>1. SessionInv /\ [Next]_vars => [Activates => Ended]_vars
  <2> SUFFICES ASSUME SessionInv, Next, Activates PROVE Ended
    BY DEF SessionInv
  <2>1. page \in Page /\ op \in [Op -> OpRow] /\ page'.active # page.active
        /\ page'.active # NoSession /\ page'.active.mode = "freighter"
        /\ page'.asked = page.asked
    BY DEF SessionInv, TypeOK, Activates
  <2>2. ASSUME NEW o \in Op, FinishConnect(o) PROVE Ended
    <3>1. /\ op[o].pc = "accepted" /\ op[o].kind = "freighter" /\ IsCurrent(o)
          /\ page' = [page EXCEPT !.inFlight = NoOp,
                                  !.active = [mode |-> "freighter", wallet |-> op[o].wallet]]
          /\ op'[o].pc = "done"
      BY <2>1, <2>2, FinishRow DEF FinishConnect, Activated, Page
    <3>2. page'.active.wallet = op[o].wallet
      BY <2>1, <3>1 DEF Page
    <3>3. ~op[o].overtaken
      BY <3>1, RowFields, <2>1 DEF SessionInv, OpInv, IsCurrent, Running
    <3> QED
      BY <3>1, <3>2, <3>3
  <2>3. ASSUME NEW o \in Op, FinishDemo(o) PROVE FALSE
    <3>1. page'.active = [mode |-> "demo", wallet |-> op[o].wallet]
      BY <2>1, <2>3 DEF FinishDemo, Activated, Page
    <3> QED
      BY <2>1, <3>1
  <2>4. ASSUME NEW o \in Op, Connect(o) \/ Fail(o) PROVE FALSE
    BY <2>1, <2>4 DEF Connect, Fail, Page
  <2>5. ASSUME NEW o \in Op, FinishLogout(o) PROVE FALSE
    BY <2>1, <2>5 DEF FinishLogout, LoggedOut, Page
  <2>6. CASE Reload
    BY <2>1, <2>6 DEF Reload, MountedPage
  <2>7. CASE Restore \/ RestoreNothing \/ RestoreFails
    BY <2>1, <2>7 DEF Restore, RestoreNothing, RestoreFails, Forget, Activated, Page
  <2>8. CASE UNCHANGED page
    BY <2>1, <2>8
  <2> QED
    BY <2>2, <2>3, <2>4, <2>5, <2>6, <2>7, <2>8
       DEF Next, IssueChallenge, SignMessage, Verify, VerifyUnanswered, Detect, ConnectDemo,
           StartDemo, FinishStarter, PayWithDemo, FinishPayment, RequestTx, PrepareTx, ReviewTx,
           SignTx, Logout, LogoutAnswer, ReloadPage, Tick
<1> QED
  BY <1>1, SessionAlways, PTL DEF Spec, OvertakenNeverActivates
=============================================================================
