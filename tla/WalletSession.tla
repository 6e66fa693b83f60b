--------------------------- MODULE WalletSession ---------------------------
(***************************************************************************)
(* The wallet session of one browser: the useFreighter hook, the demo      *)
(* buttons, the cookie and the stored mode, against the authentication     *)
(* routes and their challenges.                                            *)
(*                                                                         *)
(* An operation is one run of an asynchronous function that the user       *)
(* started: connecting Freighter, a demo login, a logout.  It issues at    *)
(* most one challenge and stands for it.  One action is one await with the *)
(* synchronous code that follows it.                                       *)
(***************************************************************************)
EXTENDS Challenges

CONSTANTS
    FreighterAccount,   \* accounts the user can select in the extension
    DemoAccount,        \* the key kept in the browser's storage
    SessionTtl,         \* life of a session (1 h)
    NoOp,               \* no operation
    NoSession           \* no cookie, nothing active, or nothing to restore

ASSUME SessionAssumption ==
    /\ Subject = FreighterAccount \cup {DemoAccount} /\ DemoAccount \notin FreighterAccount
    /\ SessionTtl \in Nat \ {0} /\ NoOp \notin Challenge
    /\ NoSession \notin [wallet : Subject, expires : Nat]
    /\ NoSession \notin [mode : {"demo", "freighter"}, wallet : Subject]

VARIABLES
    page,       \* what the page keeps in memory
    mode,       \* the wallet mode in the browser's storage
    cookie,     \* the session cookie
    op,         \* the operations
    loggedIn,   \* wallets whose login has been answered (history)
    submitted   \* transactions a page has submitted (history)

browserVars == <<page, mode, cookie, op, loggedIn, submitted>>
vars == <<now, chal, accepted, page, mode, cookie, op, loggedIn, submitted>>

Op == Challenge
Wallet == Subject

Session == [wallet : Wallet, expires : Nat]
Active == [mode : {"demo", "freighter"}, wallet : Wallet]

(* connect; connectDemo; the demo starter; the one-click demo payment; a    *)
(* transaction that Freighter or the demo's key signs; logout.             *)
Kind == {"freighter", "demo", "starter", "payment", "freighterTx", "demoTx", "logout"}

(* The program counter of an operation names the answer it awaits next; at *)
(* is when it sent the request; source is the account a transaction was    *)
(* built for, account the one connected when it was reviewed; overtaken    *)
(* records that a logout was answered while it ran (history).              *)
OpRow == [pc : {"new", "access", "challenge", "prompt", "verify", "accepted", "logout",
                "prepare", "review", "sign", "done"},
          kind : Kind, wallet : Wallet \cup {NoSubject}, source : Wallet \cup {NoSubject},
          account : Wallet \cup {NoSubject}, attempt : Nat, at : Nat, overtaken : BOOLEAN]

IdleOp(pc) == [pc |-> pc, kind |-> "logout", wallet |-> NoSubject, source |-> NoSubject,
               account |-> NoSubject, attempt |-> 0, at |-> 0, overtaken |-> FALSE]

(* asked: the page awaits the session it asked for when it was mounted;    *)
(* restoring: the session whose cookie that request carried.               *)
Page == [active : Active \cup {NoSession}, attempt : Nat, inFlight : Op \cup {NoOp},
         asked : BOOLEAN, restoring : Session \cup {NoSession}]

(* verifyWalletSession: the second of the expiry is outside the session.   *)
ValidSession(session, at) == session # NoSession /\ session.expires > at

MountedPage(session) ==
    [active |-> NoSession, attempt |-> 0, inFlight |-> NoOp, asked |-> TRUE,
     restoring |-> session]

Init ==
    /\ ChallengeInit
    /\ mode = "none" /\ cookie = NoSession
    /\ page = MountedPage(NoSession)
    /\ op = [o \in Op |-> IdleOp("new")]
    /\ loggedIn = {} /\ submitted = {}

(* reduceWalletSession when a wallet is authenticated or restored.         *)
Activated(p, m, w) == [p EXCEPT !.active = [mode |-> m, wallet |-> w]]

Running(o) == op[o].pc \notin {"new", "done"}

Goto(o, pc, at) == op' = [op EXCEPT ![o].pc = pc, ![o].at = at]
Finish(o) == op' = [op EXCEPT ![o] = IdleOp("done")]

Start(o, kind, pc, wallet, attempt) ==
    /\ op[o].pc = "new"
    /\ op' = [op EXCEPT ![o] = [IdleOp(pc) EXCEPT !.kind = kind, !.wallet = wallet,
                                                  !.attempt = attempt, !.at = now]]

-----------------------------------------------------------------------------
(* Logging in.                                                             *)

(* A demo key signs the message at once, Freighter asks.                   *)
Answer(o) ==
    IF op[o].kind = "freighter" THEN Goto(o, "prompt", 0) ELSE Goto(o, "verify", now)

(* POST /api/auth/challenge: the app reads its clock and calls the         *)
(* procedure.                                                              *)
IssueChallenge(o) ==
    /\ op[o].pc = "challenge"
    /\ \E at \in op[o].at..now : \E start \in at..now :
         CreateChallenge(o, op[o].wallet, at, start)
    /\ Answer(o)
    /\ UNCHANGED <<now, accepted, page, mode, cookie, loggedIn, submitted>>

(* The signature counts only if the account is still the one selected when *)
(* the challenge was asked for.                                            *)
SignMessage(o) ==
    /\ op[o].pc = "prompt"
    /\ Goto(o, "verify", now)
    /\ UNCHANGED <<challengeVars, page, mode, cookie, loggedIn, submitted>>

NewSession(w) == [wallet |-> w, expires |-> now + SessionTtl]

(* verifyAndConsumeWalletChallenge reads the clock when it is called.  The *)
(* message names the wallet and the expiry and is signed by the wallet.    *)
VerifyChallenge(o) ==
    /\ op[o].pc = "verify"
    /\ \E at \in op[o].at..now : ConsumeChallenge(o, op[o].wallet, at)

(* POST /api/auth/verify; its answer sets the cookie before the page's     *)
(* code goes on.  Consumption and answer are one step: nothing in the      *)
(* browser reads the tables, so an answer that is still on its way while   *)
(* something else happens is a Verify that comes later.                    *)
Verify(o) ==
    /\ VerifyChallenge(o)
    /\ cookie' = NewSession(op[o].wallet)
    /\ loggedIn' = loggedIn \cup {op[o].wallet}
    /\ Goto(o, "accepted", 0)
    /\ UNCHANGED <<now, page, mode, submitted>>

(* The answer is lost: the request may be repeated on a new connection.    *)
VerifyUnanswered(o) ==
    /\ VerifyChallenge(o)
    /\ UNCHANGED <<now, browserVars>>

-----------------------------------------------------------------------------
(* Freighter.                                                              *)

(* connect: a second click joins the attempt in flight.                    *)
Connect(o) ==
    /\ page.inFlight = NoOp
    /\ Start(o, "freighter", "access", NoSubject, page.attempt + 1)
    /\ page' = [page EXCEPT !.attempt = @ + 1, !.inFlight = o]
    /\ UNCHANGED <<challengeVars, mode, cookie, loggedIn, submitted>>

(* Regression: the account that Freighter reports is active at once.       *)
DetectActive(o) ==
    /\ op[o].pc = "access"
    /\ \E w \in FreighterAccount :
         /\ op' = [op EXCEPT ![o].pc = "challenge", ![o].wallet = w, ![o].at = now]
         /\ page' = Activated(page, "freighter", w)
    /\ UNCHANGED <<challengeVars, mode, cookie, loggedIn, submitted>>

(* connectFreighterTestnet: the account selected in the extension.         *)
Detect(o) ==
    /\ op[o].pc = "access"
    /\ \E w \in FreighterAccount :
         op' = [op EXCEPT ![o].pc = "challenge", ![o].wallet = w, ![o].at = now]
    /\ UNCHANGED <<challengeVars, page, mode, cookie, loggedIn, submitted>>

(* Regression: an attempt that ends is always taken for the current one.   *)
IsCurrentAlways(o) == TRUE

IsCurrent(o) == op[o].attempt = page.attempt

FinishConnect(o) ==
    /\ op[o].pc = "accepted" /\ op[o].kind = "freighter"
    /\ IF IsCurrent(o)
         THEN /\ mode' = "freighter"
              /\ page' = Activated([page EXCEPT !.inFlight = NoOp], "freighter", op[o].wallet)
         ELSE UNCHANGED <<mode, page>>
    /\ Finish(o)
    /\ UNCHANGED <<challengeVars, cookie, loggedIn, submitted>>

(* Any await of an operation can throw: the extension or the user refuses, *)
(* the challenge is refused, an answer is lost or late.                    *)
Fail(o) ==
    /\ Running(o)
    /\ page' = IF op[o].kind = "freighter" /\ IsCurrent(o)
                 THEN [page EXCEPT !.inFlight = NoOp] ELSE page
    /\ Finish(o)
    /\ UNCHANGED <<challengeVars, mode, cookie, loggedIn, submitted>>

-----------------------------------------------------------------------------
(* The demo key.  No operation on it looks at the attempts of connect.     *)

(* connectDemo is offered by an invoice's page while the demo is active.   *)
ConnectDemo(o) ==
    /\ page.active # NoSession /\ page.active.mode = "demo"
    /\ Start(o, "demo", "challenge", DemoAccount, 0)
    /\ UNCHANGED <<challengeVars, page, mode, cookie, loggedIn, submitted>>

FinishDemo(o) ==
    /\ op[o].pc = "accepted" /\ op[o].kind = "demo"
    /\ mode' = "demo"
    /\ page' = Activated(page, "demo", op[o].wallet)
    /\ Finish(o)
    /\ UNCHANGED <<challengeVars, cookie, loggedIn, submitted>>

NoneRuns(kind) == \A o \in Op : Running(o) => op[o].kind # kind

(* The portal offers the starter unless Freighter is active.               *)
StartDemo(o) ==
    /\ page.active # NoSession => page.active.mode = "demo"
    /\ NoneRuns("starter")
    /\ Start(o, "starter", "challenge", DemoAccount, 0)
    /\ UNCHANGED <<challengeVars, page, mode, cookie, loggedIn, submitted>>

(* Leaving the page ends its operations; the next page asks for the        *)
(* session of the cookie.                                                  *)
Reload ==
    /\ op' = [o \in Op |-> IF Running(o) THEN IdleOp("done") ELSE op[o]]
    /\ page' = MountedPage(IF ValidSession(cookie, now) THEN cookie ELSE NoSession)

(* The starter goes to the demo invoice, if there is one.  (A resumed demo *)
(* also needs the demo's cookie to find it; a new one does not.)           *)
FinishStarter(o) ==
    /\ op[o].pc = "accepted" /\ op[o].kind = "starter"
    /\ mode' = "demo"
    /\ Reload \/ (Finish(o) /\ UNCHANGED page)
    /\ UNCHANGED <<challengeVars, cookie, loggedIn, submitted>>

(* payInvoiceDirectlyWithDemo: any page of a demo invoice offers it, and   *)
(* it leaves the demo's cookie behind, whatever the page shows.            *)
PayWithDemo(o) ==
    /\ NoneRuns("payment")
    /\ Start(o, "payment", "challenge", DemoAccount, 0)
    /\ UNCHANGED <<challengeVars, page, mode, cookie, loggedIn, submitted>>

FinishPayment(o) ==
    /\ op[o].pc = "accepted" /\ op[o].kind = "payment"
    /\ Finish(o)
    /\ UNCHANGED <<challengeVars, page, mode, cookie, loggedIn, submitted>>

-----------------------------------------------------------------------------
(* A transaction of the invoice's page: a payment, or a trustline, which   *)
(* only Freighter signs.  What happens to a payment is InvoicePayment's.   *)

RequestTx(o) ==
    /\ page.active # NoSession
    /\ Start(o, IF page.active.mode = "demo" THEN "demoTx" ELSE "freighterTx",
             "prepare", page.active.wallet, 0)
    /\ UNCHANGED <<challengeVars, page, mode, cookie, loggedIn, submitted>>

(* The routes build it for the wallet of the cookie.                       *)
PrepareTx(o) ==
    /\ op[o].pc = "prepare" /\ ValidSession(cookie, now)
    /\ op' = [op EXCEPT ![o].pc = "review", ![o].source = cookie.wallet]
    /\ UNCHANGED <<challengeVars, page, mode, cookie, loggedIn, submitted>>

(* The demo's key in the storage, or whatever account is selected in the   *)
(* extension when it is asked.                                             *)
Selected(o) == IF op[o].kind = "demoTx" THEN {DemoAccount} ELSE FreighterAccount

Reviewed(o, account) == account = op[o].wallet /\ account = op[o].source

(* The connected account must be the one on show at the click, and the     *)
(* transaction one of that account.                                        *)
ReviewTx(o) ==
    /\ op[o].pc = "review"
    /\ \E account \in Selected(o) :
         /\ Reviewed(o, account)
         /\ op' = [op EXCEPT ![o].pc = "sign", ![o].account = account]
    /\ UNCHANGED <<challengeVars, page, mode, cookie, loggedIn, submitted>>

(* Regression: who signed is not compared with who was connected.          *)
SignedByAnyone(o, signer) == op[o].source = op[o].account

(* The signer's address, and the review of the signed envelope.            *)
SignedByConnected(o, signer) == signer = op[o].account /\ op[o].source = op[o].account

(* The user may select another account while the extension's prompt waits, *)
(* which then signs with that account's key: such a signature is discarded.*)
SignTx(o) ==
    /\ op[o].pc = "sign"
    /\ \E signer \in Selected(o) :
         IF SignedByConnected(o, signer)
           THEN submitted' = submitted \cup {[shown |-> op[o].wallet, source |-> op[o].source,
                                              signer |-> signer]}
           ELSE UNCHANGED submitted
    /\ Finish(o)
    /\ UNCHANGED <<challengeVars, page, mode, cookie, loggedIn>>

-----------------------------------------------------------------------------
(* The page.                                                               *)

ReloadPage ==
    /\ Reload
    /\ UNCHANGED <<challengeVars, mode, cookie, loggedIn, submitted>>

(* Regression: a session without a stored mode is restored.                *)
RestorableWithoutMode == page.restoring # NoSession

Restorable == page.restoring # NoSession /\ mode # "none"

Forget == [page EXCEPT !.asked = FALSE, !.restoring = NoSession]

(* The answer about the session the page was mounted with.  The storage is *)
(* read when it arrives, and no attempt is looked at.                      *)
Restore ==
    /\ page.asked /\ Restorable
    /\ page' = Activated(Forget, mode, page.restoring.wallet)
    /\ UNCHANGED <<challengeVars, mode, cookie, op, loggedIn, submitted>>

(* No session, no stored mode for it, or an error of the route, which also *)
(* counts as no session: the mode is removed.                              *)
RestoreNothing ==
    /\ page.asked
    /\ page' = Forget
    /\ mode' = "none"
    /\ UNCHANGED <<challengeVars, cookie, op, loggedIn, submitted>>

RestoreFails ==
    /\ page.asked
    /\ page' = Forget
    /\ UNCHANGED <<challengeVars, mode, cookie, op, loggedIn, submitted>>

(* The header offers it while a wallet is active.                          *)
Logout(o) ==
    /\ page.active # NoSession
    /\ Start(o, "logout", "logout", NoSubject, 0)
    /\ UNCHANGED <<challengeVars, page, mode, cookie, loggedIn, submitted>>

LogoutAnswer(o) ==
    /\ op[o].pc = "logout"
    /\ cookie' = NoSession
    /\ Goto(o, "accepted", 0)
    /\ UNCHANGED <<challengeVars, page, mode, loggedIn, submitted>>

(* Regressions: logging out leaves connectInFlight, or the attempt.        *)
LoggedOutInFlight == [page EXCEPT !.active = NoSession, !.attempt = @ + 1]
LoggedOutSameAttempt == [page EXCEPT !.active = NoSession, !.inFlight = NoOp]

LoggedOut == [page EXCEPT !.active = NoSession, !.attempt = @ + 1, !.inFlight = NoOp]

FinishLogout(o) ==
    /\ op[o].pc = "accepted" /\ op[o].kind = "logout"
    /\ page' = LoggedOut
    /\ mode' = "none"
    /\ op' = [x \in Op |-> IF x = o THEN IdleOp("done")
                           ELSE [op[x] EXCEPT !.overtaken = @ \/ Running(x)]]
    /\ UNCHANGED <<challengeVars, cookie, loggedIn, submitted>>

Tick == ChallengeTick /\ UNCHANGED browserVars

Next ==
    \/ \E o \in Op :
         \/ IssueChallenge(o) \/ SignMessage(o) \/ Verify(o) \/ VerifyUnanswered(o)
         \/ Connect(o) \/ Detect(o) \/ FinishConnect(o) \/ Fail(o)
         \/ ConnectDemo(o) \/ FinishDemo(o)
         \/ StartDemo(o) \/ FinishStarter(o)
         \/ PayWithDemo(o) \/ FinishPayment(o)
         \/ RequestTx(o) \/ PrepareTx(o) \/ ReviewTx(o) \/ SignTx(o)
         \/ Logout(o) \/ LogoutAnswer(o) \/ FinishLogout(o)
    \/ ReloadPage \/ Restore \/ RestoreNothing \/ RestoreFails
    \/ Tick

Spec == Init /\ [][Next]_vars

-----------------------------------------------------------------------------
TypeOK ==
    /\ ChallengeTypeOK
    /\ page \in Page
    /\ mode \in {"none", "demo", "freighter"}
    /\ cookie \in Session \cup {NoSession}
    /\ op \in [Op -> OpRow]
    /\ loggedIn \subseteq Wallet
    /\ submitted \subseteq [shown : Wallet, source : Wallet, signer : Wallet]

(* Every wallet the page calls active, every session it is about to        *)
(* restore and every cookie belongs to a wallet that has signed a          *)
(* challenge: neither a key in the storage nor an account that Freighter   *)
(* reports nor a stored mode is taken for a session.                       *)
ActiveHasLoggedIn ==
    /\ page.active # NoSession => page.active.wallet \in loggedIn
    /\ page.restoring # NoSession => page.restoring.wallet \in loggedIn
    /\ cookie # NoSession => cookie.wallet \in loggedIn

(* connectInFlight is exactly the attempt no logout has overtaken: while   *)
(* it runs a second click prompts for nothing, and once it has ended or    *)
(* has been overtaken the button works, although the overtaken attempt     *)
(* still runs and will end later.                                          *)
InFlightIsTheAttempt ==
    \A o \in Op : page.inFlight = o <=>
                    (op[o].kind = "freighter" /\ Running(o) /\ ~op[o].overtaken)

(* Whatever the cookie, the page and the account in the extension became   *)
(* between the click and the signature, only a transaction of the account  *)
(* that was on show, signed with that account's key, is submitted.  (The   *)
(* one-click payment signs with the demo's key by design and is not meant.)*)
SubmittedAsShown == \A s \in submitted : s.source = s.shown /\ s.signer = s.shown

(* An attempt that a logout has overtaken never makes its wallet active,   *)
(* whenever the user answers its prompt: Freighter becomes active when an  *)
(* attempt ends that has not been overtaken, or by the restored session.   *)
Activates ==
    /\ page'.active # page.active /\ page'.asked = page.asked
    /\ page'.active # NoSession
    /\ page'.active.mode = "freighter"

OvertakenNeverActivates ==
    [][Activates =>
         \E o \in Op : /\ op[o].pc = "accepted" /\ op[o].kind = "freighter"
                       /\ ~op[o].overtaken /\ op[o].wallet = page'.active.wallet
                       /\ op'[o].pc = "done"]_vars
=============================================================================
