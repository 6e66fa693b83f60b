-------------------------- MODULE InvoiceCreation --------------------------
(***************************************************************************)
(* The two ways into the invoices table.  The issuer authorizes a request  *)
(* by signing a challenge bound to it; a logged-in wallet submits the form *)
(* of the portal.  Both end in persistInvoice.                             *)
(*                                                                         *)
(* A request that fails changes nothing more: it is one that takes no      *)
(* further step.  An invoice is the post that stored it.  Amounts are left *)
(* out: a request stands for one with a well-formed positive amount.       *)
(***************************************************************************)
EXTENDS Challenges

CONSTANTS
    Party,      \* accounts of wallets
    Issuer,     \* the configured issuer
    Nobody,     \* no account: an empty field, or no active wallet, or no session
    Post,       \* requests that create an invoice, and the invoices they store
    NoPost,     \* no request is under way
    Term        \* what the form adds to the browser's clock for the due date

Account == Party \cup {Issuer}
Request == [debtor : Account, receiver : Account, due : Nat]

ASSUME CreationAssumption ==
    /\ Issuer \notin Party /\ Nobody \notin Account /\ NoPost \notin Post
    /\ Challenge \cap (Account \cup {Nobody}) = {}
    /\ Subject \subseteq Request /\ Term \in Nat \ {0}

VARIABLES
    auth,       \* the runs of the issuer's challenge route
    form,       \* the form and the wallet that is active in its page
    post        \* the requests

creationVars == <<auth, form, post>>
vars == <<now, chal, accepted, auth, form, post>>

NoRequest == [debtor |-> Nobody, receiver |-> Nobody, due |-> 0]

(* vouched records what Horizon said of the receiver (history).            *)
AuthRow == [pc : {"new", "account", "create", "issued"},
            request : Request \cup {NoRequest}, at : Nat, vouched : BOOLEAN]

(* The own party's field is disabled and holds the active wallet.          *)
Form == {f \in [wallet : Account \cup {Nobody}, role : {"receive", "pay"},
                debtor : Account \cup {Nobody}, receiver : Account \cup {Nobody},
                busy : Post \cup {NoPost}] :
           f.wallet = IF f.role = "receive" THEN f.receiver ELSE f.debtor}

(* via: the challenge or the session that the request carries; wallet: the *)
(* active wallet of the form's page (history); at: when the last step was. *)
PostRow == [pc : {"new", "consume", "session", "persist", "stored"},
            via : Challenge \cup Account \cup {Nobody}, wallet : Account \cup {Nobody},
            request : Request \cup {NoRequest}, at : Nat]

EmptyForm(wallet) == [wallet |-> wallet, role |-> "receive", debtor |-> Nobody,
                      receiver |-> wallet, busy |-> NoPost]

Init ==
    /\ ChallengeInit
    /\ auth = [c \in Challenge |-> [pc |-> "new", request |-> NoRequest, at |-> 0,
                                    vouched |-> FALSE]]
    /\ form = EmptyForm(Nobody)
    /\ post = [p \in Post |-> [pc |-> "new", via |-> Nobody, wallet |-> Nobody,
                               request |-> NoRequest, at |-> 0]]

(* createInvoiceDraft.                                                     *)
Draftable(r, at) ==
    /\ r.debtor # Issuer /\ r.receiver # Issuer /\ r.debtor # r.receiver
    /\ r.due > at

-----------------------------------------------------------------------------
(* POST /api/admin/challenge.                                              *)

Ask(c, r) ==
    /\ auth[c].pc = "new" /\ Draftable(r, now)
    /\ auth' = [auth EXCEPT ![c] = [@ EXCEPT !.pc = "account", !.request = r]]
    /\ UNCHANGED <<challengeVars, form, post>>

(* What parseAccount makes of an account with a trustline of the configured *)
(* asset, or "none".  An account that is missing, has not one native        *)
(* balance, or has two lines of the asset is an error.                      *)
Summary(line) == [trustlinePresent |-> line # "none", authorized |-> line = "authorized"]

(* Regression: any trustline will do.                                      *)
AcceptsPresent(summary) == summary.trustlinePresent

Accepts(summary) == summary.trustlinePresent /\ summary.authorized

ReadReceiver(c) ==
    /\ auth[c].pc = "account"
    /\ \E line \in {"none", "unauthorized", "authorized"} :
         /\ Accepts(Summary(line))
         /\ auth' = [auth EXCEPT ![c] = [@ EXCEPT !.pc = "create", !.at = now,
                                          !.vouched = (line = "authorized")]]
    /\ UNCHANGED <<challengeVars, form, post>>

Issue(c) ==
    /\ auth[c].pc = "create"
    /\ \E at \in auth[c].at..now : \E start \in at..now :
         CreateChallenge(c, auth[c].request, at, start)
    /\ auth' = [auth EXCEPT ![c].pc = "issued"]
    /\ UNCHANGED <<now, accepted, form, post>>

-----------------------------------------------------------------------------
(* POST /api/admin/invoices.  The issuer has signed the message; the       *)
(* request in the body may be any, and so may the number of posts.         *)
PostSigned(p, c, r) ==
    /\ post[p].pc = "new" /\ auth[c].pc = "issued"
    /\ post' = [post EXCEPT ![p] = [pc |-> "consume", via |-> c, wallet |-> Nobody,
                                    request |-> r, at |-> now]]
    /\ UNCHANGED <<challengeVars, auth, form>>

Consume(p) ==
    /\ post[p].pc = "consume"
    /\ \E at \in post[p].at..now : ConsumeChallenge(post[p].via, post[p].request, at)
    /\ post' = [post EXCEPT ![p].pc = "persist", ![p].at = now]
    /\ UNCHANGED <<now, auth, form>>

(* persistInvoice reads its clock, validates and inserts.                  *)
Persist(p) ==
    /\ post[p].pc = "persist"
    /\ \E at \in post[p].at..now : Draftable(post[p].request, at)
    /\ post' = [post EXCEPT ![p].pc = "stored"]
    /\ UNCHANGED <<challengeVars, auth, form>>

-----------------------------------------------------------------------------
(* POST /api/invoices: the wallet of the cookie that came with the request *)
(* must be a party.  It need not be the wallet that is active in the page. *)

(* Regression: any session will do.                                        *)
AnyWallet(w, r) == TRUE

IsParty(w, r) == w \in {r.debtor, r.receiver}

CheckSession(p) ==
    /\ post[p].pc = "session"
    /\ \E w \in Account :
         /\ IsParty(w, post[p].request)
         /\ post' = [post EXCEPT ![p].pc = "persist", ![p].via = w, ![p].at = now]
    /\ UNCHANGED <<challengeVars, auth, form>>

(* The form.  handleSubmit; the button is disabled while it awaits.        *)
Submit(p) ==
    /\ post[p].pc = "new" /\ form.wallet # Nobody /\ form.busy = NoPost
    /\ form.debtor # Nobody /\ form.receiver # Nobody /\ form.debtor # form.receiver
    /\ post' = [post EXCEPT ![p] =
                  [pc |-> "session", via |-> Nobody, wallet |-> form.wallet, at |-> now,
                   request |-> [debtor |-> form.debtor, receiver |-> form.receiver,
                                due |-> now + Term]]]
    /\ form' = [form EXCEPT !.busy = p]
    /\ UNCHANGED <<challengeVars, auth>>

(* An answer, an error or a lost answer: the form can be submitted again.  *)
Answered ==
    /\ form.busy # NoPost
    /\ form' = [form EXCEPT !.busy = NoPost]
    /\ UNCHANGED <<challengeVars, auth, post>>

(* The effect on the role and the wallet.  Regression: on the role only.   *)
SyncedOnRole(f) ==
    IF f.role = form.role THEN f
    ELSE IF f.role = "receive"
      THEN [f EXCEPT !.receiver = f.wallet, !.debtor = IF @ = f.wallet THEN Nobody ELSE @]
      ELSE [f EXCEPT !.debtor = f.wallet, !.receiver = IF @ = f.wallet THEN Nobody ELSE @]

Synced(f) ==
    IF f.role = "receive"
      THEN [f EXCEPT !.receiver = f.wallet, !.debtor = IF @ = f.wallet THEN Nobody ELSE @]
      ELSE [f EXCEPT !.debtor = f.wallet, !.receiver = IF @ = f.wallet THEN Nobody ELSE @]

SelectRole ==
    /\ form.wallet # Nobody
    /\ \E role \in {"receive", "pay"} \ {form.role} :
         form' = Synced([form EXCEPT !.role = role])
    /\ UNCHANGED <<challengeVars, auth, post>>

(* The other party's field; the own one is disabled.                       *)
EditForm ==
    /\ form.wallet # Nobody /\ form.busy = NoPost
    /\ \E a \in Account :
         form' = IF form.role = "receive" THEN [form EXCEPT !.debtor = a]
                                          ELSE [form EXCEPT !.receiver = a]
    /\ UNCHANGED <<challengeVars, auth, post>>

(* The hook makes another wallet active, or none: then the form is gone.   *)
(* The effect follows the render with the new wallet at once, before the   *)
(* user can submit: one step.                                              *)
SwitchWallet ==
    /\ \E w \in (Account \cup {Nobody}) \ {form.wallet} :
         form' = IF Nobody \in {w, form.wallet} THEN EmptyForm(w)
                 ELSE Synced([form EXCEPT !.wallet = w])
    /\ UNCHANGED <<challengeVars, auth, post>>

Tick == ChallengeTick /\ UNCHANGED creationVars

Next ==
    \/ \E c \in Challenge :
         (\E r \in Subject : Ask(c, r)) \/ ReadReceiver(c) \/ Issue(c)
    \/ \E p \in Post :
         \/ \E c \in Challenge, r \in Subject : PostSigned(p, c, r)
         \/ Consume(p) \/ Persist(p) \/ CheckSession(p) \/ Submit(p)
    \/ Answered \/ SelectRole \/ EditForm \/ SwitchWallet
    \/ Tick

Spec == Init /\ [][Next]_vars

-----------------------------------------------------------------------------
TypeOK ==
    /\ ChallengeTypeOK
    /\ auth \in [Challenge -> AuthRow]
    /\ form \in Form
    /\ post \in [Post -> PostRow]

Stored(p) == post[p].pc = "stored"

(* The issuer's signature creates at most one invoice, however often and   *)
(* however concurrently the signed request is posted.                      *)
OneInvoicePerSignature ==
    \A p, q \in Post : Stored(p) /\ Stored(q) /\ post[p].via = post[q].via
                       /\ post[p].via \in Challenge => p = q

(* An invoice that the issuer authorized is the request it signed, and     *)
(* Horizon had reported an authorized trustline of that very receiver      *)
(* before the message existed.                                             *)
StoredAsVouched ==
    \A p \in Post : Stored(p) /\ post[p].via \in Challenge =>
        /\ post[p].request = auth[post[p].via].request
        /\ auth[post[p].via].vouched

(* An invoice from the form has both the wallet that the page showed when  *)
(* it was submitted and the wallet of the session among its parties, and   *)
(* neither party is the issuer, although the page, the form and the cookie *)
(* change their wallet at different times.                                 *)
OwnInvoice ==
    \A p \in Post : Stored(p) /\ post[p].via \notin Challenge =>
        {post[p].via, post[p].wallet} \subseteq
            {post[p].request.debtor, post[p].request.receiver} \ {Issuer}
=============================================================================
