# Formal models of stellar-invoice

stellar-invoice issues invoices in BRLT, a token on the Stellar test network. A
customer pays an invoice with a wallet in the browser; the server prepares the
payment transaction, later looks it up on Horizon (the query service of the
network) and confirms the invoice in a PostgreSQL table. A demo mode gives new
wallets an allowance of BRLT from a distributor account.

The server is a set of stateless HTTP handlers around stored procedures. What
makes it hard is everything between two `await`s: other requests, the wallet,
the ledger, Horizon lagging behind the ledger, time bounds and leases running
out, a server that stops. In the browser it is the same between two awaits of a
page: a second click, a logout, a reload, an account changed in the wallet
extension. The models here are about that.

## 1. Inventory

| Part | State | Operations | Interacts with | Modelled in |
| --- | --- | --- | --- | --- |
| Invoice table and procedures (`supabase/migrations/0001, 0008, 0013, 0014`, `app/lib/invoices/service.ts`) | `invoices` (status, dates, confirmed hash, prepared payment), `rejected_payment_attempts` | insert, `prepare_invoice_payment`, `confirm_invoice`, `expire_invoice`, `record_rejected_payment_attempt` | called by the routes, row locks | `InvoicePayment` |
| Payment route (`app/api/invoices/[id]/payment`) | what a request read so far | look for the prepared payment, build, review, store, answer | Horizon, table, browser | `InvoicePayment` |
| Verify route (`app/api/invoices/[id]/verify`, `verification-service.ts`, `payment-verifier.ts`) | what a request read so far | load transaction, accept or reject, record, expire, confirm | Horizon, table, browser | `InvoicePayment` |
| Invoice creation (`app/api/invoices`, `app/api/admin/*`, `CreateInvoiceModal.tsx`) | the form; what a request carries | fill in and submit the form; ask for, sign and post an issuer's authorization; validate, insert | table, issuer challenge, session cookie, Horizon | `InvoiceCreation`; the row itself in `InvoicePayment` |
| Demo distribution (`app/api/demo/distribute`, `app/lib/demo`, migrations 0005, 0011, 0015, 0017) | `demo_distributions`, `demo_distribution_mutex`, the distributor's account | lock, reserve, resume, reset, prepare, store, submit, complete, release | Horizon, table | `DemoDistribution` |
| Demo sessions, resume (`app/api/demo/provision`, `resume`, migrations 0004, 0016, 0017, 0018) | `demo_sessions` | issue or replace a token, consume it, ensure one demo invoice; daily limits | distribution | partly, `DemoDistribution` |
| Wallet authentication (`app/api/auth`, `app/lib/auth`, migration 0009) | `wallet_challenges`, session cookie | challenge, verify and consume, session, logout, rate limits | all routes | `Challenges`, `WalletSession` |
| Issuer authentication (migrations 0006, 0007, `persistent-challenge.ts`) | `issuer_challenges` | challenge, verify and consume | admin routes | `Challenges`, `InvoiceCreation` |
| Browser wallet session (`app/hooks/useFreighter.ts`, `app/lib/wallet`, `DemoStarter.tsx`) | page state, attempt counter, stored mode, cookie | restore, connect, connect demo, start the demo, logout | auth routes | `WalletSession`, but for what is only displayed |
| Browser payment clients (`freighter-client.ts`, `demo-wallet-client.ts`, `InvoiceDetail.tsx`) | payment hash kept by the page | log in, review, sign, review again, broadcast, verify, retry | payment, verify and trustline routes, network | signing in `WalletSession`, the rest in `InvoicePayment`; partly |
| Account views (`account-summary.ts`, `app/api/wallet`) | none | trustline transaction, receiver's trustline, status | Horizon | the first two, in `WalletSession` and `InvoiceCreation` |
| Configuration, origin check, CSP, RLS | none or static | checks | | not modelled |
| Bootstrap and evidence scripts, backup and deployment shell | files, containers | run by hand or by a timer | | not modelled |
| `infra/supabase` | vendored third-party stack | | | not modelled |

What makes each part correct:

* an invoice is confirmed only by a successful, exact payment by its debtor that
  the ledger closed within the life of the invoice, and then never changes;
* retries and concurrent requests do not put two valid payments of one invoice
  into circulation, and what is put into circulation cannot come too late to
  count;
* a payment made in time confirms the invoice in the end;
* the distributor pays a wallet once per expired transaction at most, never
  touches its reserve, and no attempt undoes the work of another;
* a challenge is accepted once, and those that are open are limited;
* a page calls no wallet active that has not signed a challenge, drops an attempt
  to connect that a logout overtook, and submits for the account on show only;
* a signature of the issuer makes one invoice at most, the one that was signed; an
  invoice of the form has the wallet on show and that of the session in it.

`PROJECT.json` lists the hazards of this code line by line with the properties
that cover each of them.

## 2. Modules

| Module | Contents |
| --- | --- |
| `InvoiceLifecycle` | What the service promises of an invoice: absent, pending, expired, confirmed; confirmed only when settled, expired only when lapsed; and what follows from that (`Honest`, `Orderly`). |
| `InvoicePayment` | Tables, the two routes, the browser wallet, ledger, Horizon and clock; properties and the refinement mapping to `InvoiceLifecycle`. |
| `InvoicePaymentProofs` | Types, confirmation and its finality, proved for `InvoicePayment`. |
| `InvoiceOfferProofs` | What the payment route offers, proved; extends the former. |
| `InvoiceOutcomeProofs` | Verdicts on payments, paying once, and the refinement of `InvoiceLifecycle` with its consequences, proved; extends the former. |
| `MCInvoicePayment` | Values of the constants and the symmetry for TLC. |
| `DemoDistribution` | Session, distribution and mutex tables, the distribute and resume routes, the distributor's account, crashes; properties and the mapping to `DemoAllowance`. |
| `DemoAllowance` | What the distributor promises a demo wallet: one payment at a time, withdrawn once expired, fulfilled once included; only what is promised, or withdrawn but still held by somebody, goes out; and what follows from that (`Spaced`, `FulfilledIsIncluded`). |
| `DemoDistributionProofs` | The safety properties of `DemoDistribution`, proved. |
| `DemoAllowanceProofs` | That it implements `DemoAllowance`, what that implies, and paying once, proved; extends the former. |
| `MCDemoDistribution` | Symmetry for TLC. |
| `Challenges` | One-time challenges as both tables keep them, bound to a subject: operators for the two procedures and a specification of the tables under any use of them; properties. |
| `ChallengeProofs` | Its properties, proved. |
| `WalletSession` | One browser against the authentication routes; extends `Challenges`, with the wallet as subject. |
| `WalletSessionProofs` | Its properties, and that it implements `ChallengeSpec`, proved. |
| `MCWalletSession` | Symmetry for TLC. |
| `InvoiceCreation` | Both ways to create an invoice; extends `Challenges`, with the request for an invoice as subject. |
| `InvoiceCreationProofs` | Its properties, and that it implements `ChallengeSpec`, proved. |
| `MCInvoiceCreation` | The requests an issuer is asked to sign, and symmetry, for TLC. |

`WalletSession` and `InvoiceCreation` compose with `Challenges` by extending it:
a step that calls a procedure has the operator of `Challenges` as a conjunct. The
two tables are distinct, so that each module has its own copy of the variables.

The definitions named "Regression" are plausible mistakes in the definition that
follows them; `PROJECT.json` ("mutants") pairs each with the property that
notices it. They are not part of any specification.

### InvoicePayment

`inv[i]` is a row of `public.invoices`, `rejected` the other table, `req[r]` an
HTTP request in flight: `pc` names the call it awaits next, the other fields are
what the handler has read and keeps. A transaction is represented by its
content (`memo`, `payer`, `seq`, `maxTime`, and `exact`: whether receiver, asset
and amount are those of the invoice), which also stands for its hash.

One action is one `await` of a handler with the synchronous code that follows it
up to the next one; a stored procedure locks its row at entry and is one step.
Where an answer travels while the clock moves and the clock is then compared,
the query and the comparison are two actions (`PayExists`, `PayFresh`). A row is
read together with the clock that the handler reads right after it. `requested_at`
is the clock when the payment was built, not when the procedure runs.

| Code | Actions |
| --- | --- |
| `GET /api/invoices/:id/payment` | `PayRead`, `PayExists`, `PayFresh`, `PayBuild`, `PayPrepare`, `PayPaid` |
| `POST /api/invoices/:id/verify` | `VerifyRead`, `VerifyLoad`, then `VerifyRecord` and `VerifyExpire`, or `VerifyConfirm` |
| any handler failing or the server restarting | `Abort` |
| invoice creation | `CreateInvoice` |
| wallet: review, sign, submit | `Broadcast` |
| a payment made with another application | `PayManually` (successful or not, exact or not, by any account) |
| network | `LedgerClose` (inclusion, also as failed; at most one transaction per account and ledger; `maxTime` inclusive), `HorizonIngest` (only now queries show it) |
| time | `Tick` |

A request that stops without an answer, a lost answer, and a duplicate request
by the browser need no actions of their own: they are `Abort` and a further
`PayRead` or `VerifyRead`. A transaction that was broadcast need never be
included.

### DemoDistribution

`att[a]` is one `POST /api/demo/distribute`; it has a random key of its own and
stands for it. `mutex`, `dist[c]` and `session[c]` are rows; a session token is a
number, counted up when `create_demo_session` replaces it. The clock an attempt
sends as `requested_at` is any time between its previous step and the procedure
call (`\E at \in att[a].at..now`). `Fail` is an exception inside the `try` block
and runs `finally`; `Crash` does not, and leaves the mutex to its lease.

| Code | Actions |
| --- | --- |
| `POST /api/demo/provision`, expiry of a session | `Provision`, `SessionExpires` |
| `distribute/route.ts` 18 to 24 | `Begin`, `Acquire`, `ReserveDistribution` |
| 25 to 32 | `CheckExists`, `CheckExpired`, `ResetExpired` |
| 33 to 37 | `Prepare`, `Store` |
| 40 to 48 | `Recheck`, `Submit`, `SubmitSucceeds`, `Complete` |
| 49, 51 to 53 | `EnsureInvoice`, `Release` |
| `POST /api/demo/resume` | `Resume` |

A ledger includes a transaction up to and at its time bound, while the code
calls it expired from the bound on (`Expired`): at that very second a row may be
reset although its transaction can still be included. `LiveTransactionRemembered`
and `PreparedIsKept` therefore speak of transactions that the code does not yet
call expired, and the refinement says what follows of the others.

The distributor's balance only goes down: refilling it outside the app is not
modelled.

### Challenges

`chal[c]` is a row; `accepted[c]` counts how often it has been accepted and is no
part of the code. A procedure reads `now()`, the start of its transaction, and may
then wait for the advisory lock: `start` is any time since the app called, and
`at`, which the expiry was computed from, any time before that. So a transaction
can count rows that are younger than itself. A creation that the limits refuse
raises an exception, which undoes the clean-up as well: it changes nothing.
`consume` is one `UPDATE` with all its conditions and is one step, `at` being the
clock of the app.

| Code | Operators |
| --- | --- |
| `create_wallet_challenge`, `create_issuer_challenge` | `CreateChallenge` (`Surviving`, `Recent`, `RecentOf`, `Admitted`) |
| `consume` of both stores | `ConsumeChallenge` (`Acceptable`) |

The issuer's procedure has no limit per subject: `SubjectLimit` equals `Limit`.

### WalletSession

`op[o]` is one run of an asynchronous function of the page; it issues at most
one challenge, which it also names. `page` holds what the hook keeps (`active`,
`attempt`, `connectInFlight`) and whether the answer about the session is still
awaited; `mode` is the stored mode, `cookie` the session cookie. The cookie is
set by the step of the server, since the browser stores it before any code of
the page sees the answer; an answer that travels while something else happens is
a later `Verify`. A transaction is signed in two steps: the review of the
connected account, and the answer of the extension's prompt, which may come from
another account selected meanwhile and is then discarded. A reload ends all
operations of the page; a request that would reach the server after its page is
gone is taken as handled before.

| Code | Actions |
| --- | --- |
| `POST /api/auth/challenge`, its `await` in either client | `IssueChallenge` |
| `POST /api/auth/verify`, answered or not | `Verify`, `VerifyUnanswered` |
| `connect`, `authenticateFreighterWallet` | `Connect`, `Detect`, `SignMessage`, `FinishConnect` |
| `connectDemo` | `ConnectDemo`, `FinishDemo` |
| `DemoStarter` | `StartDemo`, `FinishStarter` |
| `payInvoiceDirectlyWithDemo` | `PayWithDemo`, `FinishPayment` |
| `createTrustline` and `payInvoice`, up to the signature | `RequestTx`, `PrepareTx`, `ReviewTx`, `SignTx` |
| the effect of `useFreighter`, `GET /api/auth/session` | `ReloadPage`, `Restore`, `RestoreNothing`, `RestoreFails` |
| `logout`, `POST /api/auth/logout` | `Logout`, `LogoutAnswer`, `FinishLogout` |
| any await that throws | `Fail` |
| time | `Tick` |

What may change behind the page is left open: the account selected in the
extension whenever it is asked, and the time and order of answers. A demo starter
that resumes an unfinished demo and then finds none logs in twice; that is two
operations here.

### InvoiceCreation

`auth[c]` is a run of the issuer's challenge route, `post[p]` a request that may
store an invoice and the invoice it stored, `form` the dialog of the portal with
the wallet active in its page. Any number of posts may carry one signed message,
with any body; the wallet of the cookie, and what Horizon says of a receiver, are
inputs. A request that is refused takes no further step. `wallet` and `vouched`
are history. `at` of a post is the clock at its last authorization.

| Code | Actions |
| --- | --- |
| `POST /api/admin/challenge` | `Ask`, `ReadReceiver`, `Issue` |
| `POST /api/admin/invoices` | `PostSigned`, `Consume`, `Persist` |
| `POST /api/invoices` | `Submit`, `CheckSession`, `Persist`, `Answered` |
| `CreateInvoiceModal`: fields, role, effect on role and wallet | `EditForm`, `SelectRole`, `SwitchWallet` (with `Synced`) |
| time | `Tick` |

## 3. Runs

TLC runs with `tlc -config <run>.cfg <module>`. Deadlock checking is off in all
of them: the clock and the number of transactions or attempts are bounded, so
behaviours end.

| Run | Shows | Result |
| --- | --- | --- |
| `InvoiceRequests` | One invoice, two concurrent requests, payments through the app and outside it: `TypeOK`, `ConfirmedHasPayment`, `RejectedNeverConfirms`, `TimelyNeverRejected`, `ConfirmedIsFinal`, `AcceptedIsConfirmed` | holds |
| `InvoiceOffers` | A debtor who pays only through the app, over two validity periods: `PreparedNeverLate`, `OneUnexpiredXdr`, `SecondPaymentOnlyAfterExpiry`, `PaidOnceIfSeenEarly` | holds |
| `InvoicePair` | Two invoices of one debtor: competing sequence numbers, hashes verified against the other invoice, one request at a time. `ConfirmedHasPayment`, and the code implements `InvoiceLifecycle` (`RefinesLifecycle`) | holds |
| `InvoiceLiveness` | `SettledIsConfirmed`, of payments made with the app's page, with a stranger who pays too, aborted requests and late verification | holds |
| `DoublePayment` | The security review says a retry asks for no second signature; Horizon lag makes the route offer a second payment (`PaidAtMostOnce`) | violated |
| `RejectedAsPaid` | The specification says a rejected attempt does not count as a payment; the route answers "already paid" with a failed one (`RejectedIsNotAnsweredAsPaid`) | violated |
| `UnpaidExpiry` | The specification says an unpaid invoice becomes expired; nothing does it (`UnpaidBecomesExpired`) | violated |
| `DemoDistribution` | Two wallets, three overlapping attempts, funds for two allowances: `TypeOK`, `LiveTransactionRemembered`, `SecondAllowanceOnlyAfterExpiry`, `ConfirmedIsOnLedger`, `ReserveKept`, `PreparedIsKept`, and the code implements `DemoAllowance` (`RefinesAllowance`) | holds |
| `DemoSecondAllowance` | Migration 0017 says a resumed allowance is not created twice (`OneAllowancePerWallet`) | violated |
| `DemoWithoutAllowance` | Migration 0017 says a confirmed wallet has received its allowance (`ConfirmedReceivedAllowance`) | violated |
| `WalletSession` | Four overlapping operations of one page, two accounts in the extension and the demo's key: `TypeOK`, `AcceptedOnce`, `OpenIsBounded`, `ActiveHasLoggedIn`, `InFlightIsTheAttempt`, `SubmittedAsShown`, `OvertakenNeverActivates` | holds |
| `InvoiceCreation` | Two posts, under one signature of the issuer or from the form: `TypeOK`, `OneInvoicePerSignature`, `StoredAsVouched`, `OwnInvoice` | holds |

The positive counterparts of the violated claims say what the code does achieve.
A second payment or allowance takes a first one whose time bound was over
(`SecondPaymentOnlyAfterExpiry`, `SecondAllowanceOnlyAfterExpiry`). And it takes
one of two delays. `PaidOnceIfSeenEarly` says that an invoice is paid once
through the app, whatever the order of requests and retries, while Horizon shows
every payment more than `Slack` before its time bound (`SeenEarly`) and no
payment request takes longer than `Slack` from reading the row to comparing the
clock (`Prompt`). Neither is ensured by the code. Without the first, a payment
shown after its bound is paid again. Without the second, the route has a race of
its own: a request gets Horizon's 404 before the payment is included, and
compares the clock after the bound, although Horizon showed the payment in
between. TLC finds a second payment when either half is dropped. Some behaviours
of the run meet both, others neither. The same is proved, and not run, of the
demo allowance (`OneAllowanceWhenSeen`), with the time of the 404 as a history
variable. A failed or late payment that is answered as paid is still never
confirmed, and a good one never recorded as rejected (`TimelyNeverRejected`).

Five divergences have no run; they follow from one or two actions of the model:

* section 5 of the functional specification says `expired` has no next state, and
  `confirm_invoice` (0013, line 52) confirms expired invoices on purpose, which
  `SettledIsConfirmed` relies on;
* the design of the wallet session (2026-09-21) says that a logout clears the
  cookie. A verification of an attempt in flight sets it again (`FinishLogout`,
  then `Verify`); the page drops the attempt, but the routes accept the cookie;
* it says that a logout never reactivates the demo by itself. `connectDemo` looks
  at no attempt number (`FinishLogout`, then `FinishDemo`). This is why
  `OvertakenNeverActivates` is stated of Freighter;
* it says that the demo and Freighter never appear active together. The one-click
  demo payment replaces the cookie while the page and the stored mode stay with
  Freighter (`FinishPayment`), and a reload then restores mode Freighter with the
  demo's key. What still holds is `SubmittedAsShown`;
* it says that the receiver's trustline is verified before an invoice is created.
  `POST /api/invoices` does not, and needs no authorization of the issuer
  (`CheckSession`); `StoredAsVouched` is about the issuer's invoices.

### Bounds

* `Validity`, `ReviewGrace`, `ReviewCap`, `PrepareCap`, `SkewCap`, `Lease`: a tick
  is minutes, so 180 s, 30 s, 240 s, 5 min and 2 min become 1, 1, 2, 2 and 1 in
  the order the code has them. The equal and the one-later cases all occur.
  `InvoiceOffers` has a validity of two ticks, so that the due date can lie
  inside it and cut the time bound of a payment short.
* `MaxTime`: two ticks let a payment be prepared, expire and be replaced, and an
  invoice fall due before, with and after the bound. `DoublePayment` has three,
  so that the second payment also fits, `InvoiceOffers` five, for two validity
  periods in a row and the time to read and ask before and after them; the demo
  runs two or three.
* `Slack`: one tick. With a validity of two, a payment shown in the tick in
  which it was built is early; one shown a tick later, or a request that lingers
  two ticks, is not.
* `MaxSeq`: transactions of an account. Two are enough for a failed or late first
  payment and a second one, or a payment outside the app that takes the number.
* Requests: two are enough for any pair of calls to race; the rows keep no other
  trace of a finished request. Attempts: three, so that one that lost its lease
  meets a second and the second is replaced in turn. A session token is replaced
  in `DemoSecondAllowance` and `DemoWithoutAllowance` (`MaxToken` 2).
* `Supply`, `Reserve`: two allowances above the reserve for up to three attempts,
  so that the last one can be refused or fail.
* `WalletSession`: four operations are what `InFlightIsTheAttempt` and
  `OvertakenNeverActivates` need (a login, an attempt, the logout that overtakes
  it, the next attempt). Limits of three and two are reached by four challenges. A
  challenge or a session lives one tick, so that it expires while an answer is
  awaited; `MaxAhead` is two, as 6 minutes are more than 5; the window is two
  ticks, so that creations at different times count together.
* `InvoiceCreation`: one challenge with two posts, for a race under one
  signature; due dates one and two ticks ahead, of which one passes before the
  invoice is stored.
* Symmetry: of requests, of attempts, of operations and of wallets, which no
  definition tells apart; not used under fairness, nor in `InvoiceOffers`, whose
  `PaidOnceIfSeenEarly` is a temporal implication.

### Fairness

`FairSpec` assumes that time passes, that a handler in flight takes its next
step or is aborted (weak fairness), and that the page asks again to verify a
payment it has broadcast, with not every such request aborted (strong fairness
of reading, loading and confirming such a payment: `MadeInApp`).
`useFreighter.payInvoice` keeps the hash once the broadcast was answered and
while its page stays open, and the page offers the retry; nothing on the server
does. So the assumption is that the broadcast's answer arrives and that the
customer keeps the page and tries again. Payments outside the app get no
fairness: no page holds their hashes, and `SettledIsConfirmed` says nothing of
them. The one-click demo payment never retries, and is not meant either. There
is no fairness on wallets, ledger inclusion or payments, nor any that would make
somebody verify an unpaid invoice: the code has no scheduler.
`DemoDistribution`, `WalletSession` and `InvoiceCreation` assume no fairness and
have safety properties only: an attempt to connect waits for its user for ever,
and a distribution continues only if the browser asks again.

## 4. Proofs

TLAPS proves the theorems below for all sets of invoices, debtors, requests,
wallets, attempts, operations and posts and for all values of the other constants
that the assumptions of the module allow: that durations are numbers, those of
challenges and sessions positive; that null values differ from what they stand in
for; that the set of challenges is finite; that the demo's key is none of the
extension's accounts and the issuer no party. TLC evaluates these assumptions in
every run.

| Module | Theorem | Property |
| --- | --- | --- |
| `InvoicePaymentProofs` | `TypeCorrect` | `TypeOK` |
| | `ConfirmationIsBacked` | `ConfirmedHasPayment` |
| | `ConfirmationIsFinal` | `ConfirmedIsFinal` |
| `InvoiceOfferProofs` | `OneUnexpiredOffer` | `OneUnexpiredXdr` |
| | `OffersAreNeverLate` | `PreparedNeverLate` |
| | `SecondPaymentFollowsExpiry` | `SecondPaymentOnlyAfterExpiry` |
| `InvoiceOutcomeProofs` | `VerdictsAgree` | `RejectedNeverConfirms` |
| | `RejectionIsDeserved` | `TimelyNeverRejected` |
| | `ProcedureAgrees` | `AcceptedIsConfirmed` |
| | `PaidOnceWhenSeen` | `PaidOnceIfSeenEarly` |
| | `ReviewClaimWhenSeen` | `[](SeenEarly /\ Prompt) => []PaidAtMostOnce`, for debtors who pay only through the app |
| | `LifecycleImplemented` | `RefinesLifecycle` |
| | `LifecycleIsHonest`, `ServiceIsHonest` | `[]Lifecycle!Honest`, `Lifecycle!Orderly`, of the abstract lifecycle and of the code |
| `DemoDistributionProofs` | `TypeCorrect` | `TypeOK` |
| | `ReserveIsKept` | `ReserveKept` |
| | `ConfirmedOnLedger` | `ConfirmedIsOnLedger` |
| | `LiveIsRemembered` | `LiveTransactionRemembered` |
| | `AllowancesAreSpaced` | `SecondAllowanceOnlyAfterExpiry` |
| | `PreparedTransactionsKept` | `PreparedIsKept` |
| `DemoAllowanceProofs` | `AllowanceImplemented` | `RefinesAllowance` |
| | `AllowanceSpaces`, `PaymentsAreSpaced` | `[]Allowance!Spaced`, of the abstract allowance (with `FulfilledIsIncluded`) and of the code |
| | `OneAllowanceWhenSeen` | `TimedSpec => ([](SeenEarly /\ Prompt) => []OneAllowancePerWallet)` |
| `ChallengeProofs` | `ChallengeAcceptedOnce` | `AcceptedOnce` |
| | `ChallengesBounded` | `OpenIsBounded` |
| `WalletSessionProofs` | `SessionTypeCorrect` | `TypeOK` |
| | `SessionUsesChallenges` | `Spec => ChallengeSpec` |
| | `LoginAcceptedOnce` | `AcceptedOnce` |
| | `LoginsBounded` | `OpenIsBounded` |
| | `ActiveAnsweredChallenge` | `ActiveHasLoggedIn` |
| | `OneAttemptInFlight` | `InFlightIsTheAttempt` |
| | `SubmissionsAsShown` | `SubmittedAsShown` |
| | `OvertakenIsDropped` | `OvertakenNeverActivates` |
| `InvoiceCreationProofs` | `CreationTypeCorrect` | `TypeOK` |
| | `CreationUsesChallenges` | `Spec => ChallengeSpec` |
| | `SignatureMakesOneInvoice` | `OneInvoicePerSignature` |
| | `SignedInvoiceVouched` | `StoredAsVouched` |
| | `FormInvoiceIsOwn` | `OwnInvoice` |

That is every safety property of the passing runs. Three theorems have a
hypothesis besides the specification, which the code does not ensure: `SeenEarly`
and `Prompt` in both models, and `Manual = {}` (nobody pays outside the app) in
`ReviewClaimWhenSeen`. They say what the violated claims are missing. Concurrent
requests for several invoices are covered by the theorems, `LifecycleImplemented`
among them; `InvoicePair` has one request slot.

### Invoices

*Types and confirmation.* `TypeInv` adds to the types that a request in flight
refers to an issued invoice and, past the build, to a transaction
(`HandlesInvoice`): without it an update of `inv` at an idle request's invoice
could not be typed. `ConfirmInv` adds that a request about to call
`confirm_invoice` holds a record of the ledger that settles its invoice
(`ConfirmHasPayment`), which carries the verdict of `VerifyLoad` across the steps
other actors take before the confirmation, and that only confirmed rows have a
hash (`HashIffConfirmed`). `RowSteps` classifies what one step may do to one row
(issue, prepare, expire, confirm or nothing); by `Stable` the dates of an issued
invoice never change and the ledger only grows, so a record that settled an
invoice keeps doing so (`SettlesStable`).

*Offers.* `OfferInv` says that what is offered and has not expired is what the row
of its invoice holds (`OfferedIsStored`), and that everything built fits into the
life of its invoice (`BuiltFits`, `OfferedFits`). Two unexpired offers are then
both the row's. `LedgerInv` carries the time bounds over to the ledger.
`SequenceInv` relates time and sequence numbers: of two builds in flight the one
with the higher number is the later one (`BuildOrder`), and a build overtaken by
a stored payment with a higher number will find that payment unexpired in the
row and be dropped (`Overtaken`). So of two offers for an invoice the one with
the lower number has expired (`OfferOrder`), and had when the other one closed
(`EntryOrder`).

*Outcomes.* A hash has one outcome on the ledger, since every account's numbers
are used in order and once (`OnceInv`). A recorded rejection has a record of the
ledger that does not settle its invoice (`RejectInv`), the hash of a confirmed
row one that does, and they would be the same record. Nor can a rejected one
settle it (`TimelyNeverRejected`): `RejectedHasReason` and `RecordHasReason` keep
the verdict of the route across the steps in between. The converse,
`AcceptedIsConfirmed`, is that the procedure's own checks, made later and on
another state of the row, agree with the verdict on which it was called. A
confirmed row keeps its status, an expired one is still confirmed, and that no
other row holds the hash follows from `ConfirmInv`: two confirmed rows with one
hash would have the same memo. That the close time lies not in the future, which
the procedure also asks, is `EntriesSoFar`.

*Paying once.* `SeenInv` holds while `SeenEarly` and `Prompt` do: what has been
offered and is on the ledger is what the row of its invoice holds
(`PaidIsStored`), and a build in flight is older than its bound
(`BuiltBeforeBound`). A store over it would need the bound to have passed when
the new payment was built; a request that asks Horizon after the payment is
visible does not build, and one that asked before has read its row more than
`Slack` before the bound (`BeganBefore`), so that by `Prompt` it compares the
clock before the bound. Two payments of one invoice are then both the row's, and
a hash is included once. The last step, from an invariant that holds while the
two hypotheses do to an implication between two temporal formulas, is a single
use of PTL.

*Refinement.* Each kind of step of `RowSteps`, the close of a ledger and the
clock map to a step or a stutter of `InvoiceLifecycle`; that `confirm_invoice`
acts only on settled invoices is `ConfirmInv` again. `Honest` and `Orderly` are
proved of the abstract lifecycle alone and so hold of the service
(`ServiceIsHonest`).

### Demo distribution

`StepEffects` and `StepNetwork` say once what a step may do to a row, to an
attempt, to the holder of a reservation and to the network; the rest argues from
these alone.

*Reserve.* `FundsInv`: every transaction held by an attempt, a row or the network
either has a used-up number or has the next one, and then the balance is the one
the attempt checked (`Funded`). This is where reading balance and sequence number
in one answer matters, and why the mutex does not.

*Knowledge.* `KnowledgeInv`: an attempt about to reset a transaction knows that it
expired, one about to complete it that the ledger has it; both are stable.

*Order.* A stored transaction that has not expired is the one of its wallet's row
(`MemoryInv`: nothing but a reset or the confirmation touches it). An attempt that
still holds the reservation has the latest number among the stored ones
(`RecencyInv`), so storing keeps earlier ones expired (`SpacingInv`), and the
ledger inherits that (`PaidInv`). None of this uses the mutex: the reservation
key and the comparison of hashes carry the argument, so a lapsed lease is
harmless for safety.

*Refinement.* The promise of a wallet is the transaction of its row. Storing is
`Promise`, for a row being prepared has none; a reset is `Withdraw` and a
completion `Fulfil`, by what the attempt knows; a submission is `Send` and a
closing ledger `Include`. A transaction is included once, since what Horizon shows
has a used-up number (`LedgerUsed`). The abstract `held` is what a running attempt
still carries although its row was reset (`HeldBack`): an attempt that lost its
lease may submit it, and the network refuses it or takes it at its very last
moment. `Withdraw` does not ask whether the payment was included, for an attempt
cannot know while Horizon is behind: that is how `OneAllowancePerWallet` fails.

*Consequences.* `AllowanceInv` argues about the abstract allowance alone: whatever
was out or held when the next promise was made had expired (`OutInForce`,
`FollowsExpiry`). So `Spaced` holds of everything that implements it, and of the
distribution without another look at attempts and leases, for what is included
but not yet shown by Horizon too.

*Paying once.* As with invoices. `TimedSpec` adds a history variable, `asked`:
when an attempt got Horizon's 404. It was got before the transaction was shown
(`AskedBefore`), so while `SeenEarly` and `Prompt` hold the clock is compared
before the bound (`SeenInTime`); the row of a wallet then keeps what the network
has included (`PaidStored`), since no attempt about to reset it can have found
it missing (`ResetsUnpaid`).

### Challenges

A challenge that is absent or open has been accepted by nobody (`SpentInv`), and
accepting it leaves that state for good, so a second acceptance finds it closed.

The limits are the harder part: `OpenIsBounded` speaks of every window in the past
and the future, while a creation counts one window, from the start of a
transaction that may be older than rows it finds. `OpenAfterCreate` says what one
creation does to the open rows of any window: either none is added, or all that
are left in the window were counted by this creation, because the clean-up and the
counting look at everything younger than the window's length, rows of later
transactions included. The count admitted one more. Counting only up to one's own
start (`RecentUpToNow`) would break this.

`ChallengeSpec` allows any use of the procedures; `WalletSession` and
`InvoiceCreation` are shown to implement it, so that `AcceptedOnce` and
`OpenIsBounded` hold there without a second proof.

### Wallet session

`SessionInv` adds `OpInv` to the properties: an operation whose verification was
answered names a wallet that has logged in, which is what makes every way to
activate one safe, and the attempts are ordered. They are numbered upwards, the
page keeps the latest number, and a logout takes the next one without starting
an attempt: so an attempt has the page's number exactly if no logout has
overtaken it, and `connectInFlight` is that attempt or nothing.
`OvertakenNeverActivates` follows: of all steps that change what is active, only
`FinishConnect` under the page's number activates Freighter, apart from
`Restore`. The lemmas first say what each way to change a row or the page does
(`ContinueKeeps`, `StartKeeps`, `EndKeeps`, `ConnectKeeps`, `LogoutKeeps`,
`ReloadKeeps`); the rest of the invariant (`RestOK`) is proved per action from
them. For `SubmittedAsShown`, `OpInv` keeps from the review to the signature
that the reviewed account is that of the click and of the transaction, whatever
the other actors do in between.

### Invoice creation

`CreationInv`: a challenge in the table was issued for a request whose receiver
had been vouched for (`AuthInv`); a post past its check carries the request of the
challenge it has spent, or has both wallets among its parties (`PostInv`); and of
the posts with one challenge at most one is past the check (`OnePost`), since the
challenge that a second one would need is no longer open. That the form's own
field always holds the active wallet is part of `TypeOK`, and is what the effect
on role and wallet is for.

Only model-checked, and for good: liveness under fairness (`SettledIsConfirmed`),
which is out of the prover's reach. The claims found violated are counterexamples
and need no proof.

## 5. Not modelled

* One clock: skew between the app, the database, validators, Horizon and the
  browser.
* Amounts, keys, memos, XDR encoding and signatures: a transaction matches its
  invoice or does not, a signature is by a wallet or is none, and a cookie that
  the server has not made does not exist.
* Fees, trustlines and balances of debtors: they are reasons why a transaction
  fails, and any transaction may fail.
* Demo session limits and clean-up, Friendbot: counts of hundreds of rows of a
  day under one lock, on which nothing else depends.
* That a lapsed lease lets the next distribution in: with a bounded clock a lease
  taken near the bound need not lapse. That it harms nothing is proved.
* The status of the extension that the header displays (detected, awaiting,
  rejected); lists and summaries of the portal, which may be shown for the wallet
  or role they were asked for before it changed; `GET /api/wallet/status`. All of
  it is displayed and decides nothing.
* Several pages of one browser that share cookie and storage: one page is
  modelled, its reload included. What `SubmittedAsShown` needs holds whatever the
  cookie is.
* A form that is submitted again after an answer was lost makes a second invoice;
  nothing in a request identifies the repetition, so there is nothing to state.
* The answers of a request that is overtaken on its way where nothing can tell:
  the cookie is set when the verification is handled (`Verify`), the form's
  field when the page shows another wallet (`SwitchWallet`; the effect runs
  right after the render, before a click), and Horizon answers with the
  transaction asked for, so that the verify route's rejection of another hash
  does not occur (`VerifyLoad`).
* A due date that passes while an invoice is being created: `persistInvoice`
  compares in the step that inserts, and a row that is due at once does no harm
  (`CreateInvoice` of `InvoicePayment` issues such rows).
* Static configuration, the origin check, CSP and permissions: no state.
* Scripts run by hand; backup and deployment shell, whose hazards lie in the
  semantics of the shell and the file system; the vendored stack.

## 6. What could come next

1. Two pages that share cookie and storage in `WalletSession`, with the portal's
   list as what a page has asked for.
2. Clock skew between the database host and the ledger in `InvoicePayment`, for
   payments made at once (`verification-service.ts`, line 44).
3. The restartable steps of `bootstrap-issuer.ts`.
