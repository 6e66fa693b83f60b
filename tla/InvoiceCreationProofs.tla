----------------------- MODULE InvoiceCreationProofs -----------------------
(***************************************************************************)
(* What the invoices table may contain, for every number of wallets,       *)
(* requests, challenges and posts: the paths into it only spend what the   *)
(* issuer signed or what the session's wallet may ask for.                 *)
(***************************************************************************)
EXTENDS InvoiceCreation, ChallengeProofs

USE DEF vars, creationVars, challengeVars

(* The challenge route's and the posts' steps, seen from the tables.       *)
LEMMA IssueSteps ==
  ASSUME TypeOK, NEW c \in Challenge, Issue(c), auth[c].request \in Subject
  PROVE  \E at \in 0..now, start \in 0..now :
           CreateChallenge(c, auth[c].request, at, start)
BY DEF Issue, TypeOK, AuthRow, ChallengeTypeOK

LEMMA ConsumeSteps ==
  ASSUME TypeOK, NEW p \in Post, Consume(p)
  PROVE  \E at \in 0..now : ConsumeChallenge(post[p].via, post[p].request, at)
BY DEF Consume, TypeOK, PostRow, ChallengeTypeOK

-----------------------------------------------------------------------------
(* Types, with the facts on where requests come from that they need.       *)

Bound ==
    /\ \A c \in Challenge : auth[c].pc # "new" => auth[c].request \in Subject
    /\ \A p \in Post : post[p].pc = "consume" =>
                         post[p].via \in Challenge /\ post[p].request \in Subject

TypeInv == TypeOK /\ Bound

LEMMA TypeInit == Init => TypeInv
BY ChallengeAssumption, CreationAssumption
   DEF Init, TypeInv, Bound, TypeOK, ChallengeInit, ChallengeTypeOK, ChallengeRow,
       NoChallenge, AuthRow, PostRow, Form, EmptyForm, Account

LEMMA SyncedForm ==
  ASSUME NEW w \in Account \cup {Nobody}, NEW role \in {"receive", "pay"}, form \in Form
  PROVE  Synced([form EXCEPT !.role = role, !.wallet = w]) \in Form
<1> DEFINE f == [form EXCEPT !.role = role, !.wallet = w]
<1>1. /\ f \in [wallet : Account \cup {Nobody}, role : {"receive", "pay"},
               debtor : Account \cup {Nobody}, receiver : Account \cup {Nobody},
               busy : Post \cup {NoPost}]
      /\ f.wallet = w /\ f.role = role
  BY DEF Form
<1> HIDE DEF f
<1>2. CASE role = "receive"
  BY <1>1, <1>2 DEF Synced, Form
<1>3. CASE role = "pay"
  BY <1>1, <1>3 DEF Synced, Form
<1> QED
  BY <1>2, <1>3 DEF f

LEMMA TypeNext == TypeInv /\ [Next]_vars => TypeInv'
<1> SUFFICES ASSUME TypeInv, [Next]_vars PROVE TypeInv'
  OBVIOUS
<1> USE DEF TypeInv
<1>0. now \in Nat /\ form \in Form /\ auth \in [Challenge -> AuthRow]
      /\ post \in [Post -> PostRow]
  BY ChallengeAssumption DEF TypeOK, ChallengeTypeOK
<1>1. ASSUME NEW c \in Challenge, NEW r \in Subject, Ask(c, r) PROVE TypeInv'
  BY <1>0, <1>1, CreationAssumption DEF Ask, TypeOK, ChallengeTypeOK, AuthRow, Bound
<1>2. ASSUME NEW c \in Challenge, ReadReceiver(c) PROVE TypeInv'
  <2>1. \E v \in BOOLEAN :
          auth' = [auth EXCEPT ![c] = [@ EXCEPT !.pc = "create", !.at = now, !.vouched = v]]
    BY <1>2 DEF ReadReceiver
  <2>2. auth[c].pc = "account"
    BY <1>2 DEF ReadReceiver
  <2> DEFINE row(v) == [auth[c] EXCEPT !.pc = "create", !.at = now, !.vouched = v]
  <2>3. \A v \in BOOLEAN : row(v) \in AuthRow /\ row(v).request = auth[c].request
    BY <1>0 DEF AuthRow
  <2>4. \E v \in BOOLEAN : auth' = [auth EXCEPT ![c] = row(v)]
    BY <2>1
  <2> HIDE DEF row
  <2>5. auth' \in [Challenge -> AuthRow]
    BY <1>0, <2>3, <2>4
  <2>6. Bound'
    BY <1>0, <1>2, <2>2, <2>3, <2>4 DEF ReadReceiver, Bound
  <2> QED
    BY <1>2, <2>5, <2>6 DEF ReadReceiver, TypeOK, ChallengeTypeOK
<1>3. ASSUME NEW c \in Challenge, Issue(c) PROVE TypeInv'
  <2>1. auth[c].request \in Subject
    BY <1>3 DEF Issue, Bound
  <2>2. chal' \in [Challenge -> ChallengeRow]
    BY <1>3, <2>1, IssueSteps, CreateRows DEF TypeOK
  <2>3. auth' \in [Challenge -> AuthRow]
    BY <1>0, <1>3 DEF Issue, AuthRow
  <2>4. Bound'
    BY <1>0, <1>3 DEF Issue, Bound, AuthRow
  <2> QED
    BY <1>3, <2>2, <2>3, <2>4 DEF Issue, TypeOK, ChallengeTypeOK
<1>4. ASSUME NEW p \in Post, NEW c \in Challenge, NEW r \in Subject, PostSigned(p, c, r)
      PROVE  TypeInv'
  BY <1>0, <1>4, CreationAssumption
     DEF PostSigned, TypeOK, ChallengeTypeOK, PostRow, Bound
<1>5. ASSUME NEW p \in Post, Consume(p) PROVE TypeInv'
  <2>1. post[p].via \in Challenge /\ post[p].request \in Subject
    BY <1>5 DEF Consume, Bound
  <2>2. chal' \in [Challenge -> ChallengeRow] /\ accepted' \in [Challenge -> Nat]
    BY <1>5, <2>1, ConsumeSteps, ConsumeRows DEF TypeOK
  <2>3. post' \in [Post -> PostRow]
    BY <1>0, <1>5 DEF Consume, PostRow
  <2>4. Bound'
    BY <1>0, <1>5 DEF Consume, Bound, PostRow
  <2> QED
    BY <1>5, <2>2, <2>3, <2>4 DEF Consume, TypeOK, ChallengeTypeOK
<1>6. ASSUME NEW p \in Post, Persist(p) PROVE TypeInv'
  BY <1>0, <1>6 DEF Persist, TypeOK, ChallengeTypeOK, PostRow, Bound
<1>7. ASSUME NEW p \in Post, CheckSession(p) PROVE TypeInv'
  <2>1. PICK w \in Account :
          post' = [post EXCEPT ![p].pc = "persist", ![p].via = w, ![p].at = now]
    BY <1>7 DEF CheckSession
  <2> DEFINE row == [post[p] EXCEPT !.pc = "persist", !.via = w, !.at = now]
  <2>4. row \in PostRow
    BY <1>0 DEF PostRow
  <2>5. post' = [post EXCEPT ![p] = row]
    BY <1>0, <2>1
  <2>2. post' \in [Post -> PostRow]
    BY <1>0, <2>4, <2>5
  <2>3. Bound'
    BY <1>0, <1>7, <2>1 DEF CheckSession, Bound, PostRow
  <2> QED
    BY <1>7, <2>2, <2>3 DEF CheckSession, TypeOK, ChallengeTypeOK
<1>8. ASSUME NEW p \in Post, Submit(p) PROVE TypeInv'
  <2>1. post' \in [Post -> PostRow] /\ form' \in Form
    BY <1>0, <1>8, CreationAssumption DEF Submit, PostRow, Form, Request, Account
  <2>2. Bound'
    BY <1>0, <1>8 DEF Submit, Bound, PostRow
  <2> QED
    BY <1>8, <2>1, <2>2 DEF Submit, TypeOK, ChallengeTypeOK
<1>9. ASSUME UNCHANGED <<challengeVars, auth, post>>, form' \in Form PROVE TypeInv'
  BY <1>9 DEF TypeOK, ChallengeTypeOK, Bound
<1>10. CASE Answered
  BY <1>0, <1>9, <1>10 DEF Answered, Form
<1>11. CASE SelectRole
  <2>1. PICK role \in {"receive", "pay"} : form' = Synced([form EXCEPT !.role = role])
    BY <1>11 DEF SelectRole
  <2>2. [form EXCEPT !.role = role] = [form EXCEPT !.role = role, !.wallet = form.wallet]
    BY <1>0 DEF Form
  <2>4. form.wallet \in Account \cup {Nobody}
    BY <1>0 DEF Form
  <2>5. Synced([form EXCEPT !.role = role, !.wallet = form.wallet]) \in Form
    BY <1>0, <2>4, SyncedForm
  <2>3. form' \in Form
    BY <2>1, <2>2, <2>5
  <2> QED
    BY <1>9, <1>11, <2>3 DEF SelectRole
<1>12. CASE EditForm
  BY <1>0, <1>9, <1>12 DEF EditForm, Form
<1>13. CASE SwitchWallet
  <2>1. PICK w \in Account \cup {Nobody} :
          form' = IF Nobody \in {w, form.wallet} THEN EmptyForm(w)
                  ELSE Synced([form EXCEPT !.wallet = w])
    BY <1>13 DEF SwitchWallet
  <2>2. [form EXCEPT !.wallet = w] = [form EXCEPT !.role = form.role, !.wallet = w]
    BY <1>0 DEF Form
  <2>3. Synced([form EXCEPT !.wallet = w]) \in Form /\ EmptyForm(w) \in Form
    BY <1>0, <2>2, SyncedForm DEF Form, EmptyForm
  <2> QED
    BY <1>9, <1>13, <2>1, <2>3 DEF SwitchWallet
<1>14. CASE Tick
  BY <1>14, ChallengeAssumption DEF Tick, ChallengeTick, TypeOK, ChallengeTypeOK, Bound
<1>15. CASE UNCHANGED vars
  BY <1>9, <1>15 DEF TypeOK
<1> QED
  BY <1>1, <1>2, <1>3, <1>4, <1>5, <1>6, <1>7, <1>8, <1>10, <1>11, <1>12, <1>13, <1>14,
     <1>15 DEF Next

LEMMA TypeAlways == Spec => []TypeInv
<1> QED
  BY TypeInit, TypeNext, PTL DEF Spec

(* The state is what the tables, the routes and the form can hold; the     *)
(* form's own field always shows the active wallet.                        *)
THEOREM CreationTypeCorrect == Spec => []TypeOK
<1>1. TypeInv => TypeOK
  BY DEF TypeInv
<1> QED
  BY <1>1, TypeAlways, PTL

-----------------------------------------------------------------------------
(* Creation uses the challenges only through their procedures: every step  *)
(* of it is a step of the tables or leaves them alone, so their promises   *)
(* hold here.                                                              *)

LEMMA CreationStep == TypeInv /\ [Next]_vars => [ChallengeNext]_challengeVars
<1> SUFFICES ASSUME TypeInv, [Next]_vars PROVE [ChallengeNext]_challengeVars
  OBVIOUS
<1>1. ASSUME NEW c \in Challenge, Issue(c) PROVE ChallengeNext
  <2>1. auth[c].request \in Subject
    BY <1>1 DEF Issue, TypeInv, Bound
  <2> QED
    BY <1>1, <2>1, IssueSteps DEF TypeInv, ChallengeNext, Issue
<1>2. ASSUME NEW p \in Post, Consume(p) PROVE ChallengeNext
  <2>1. post[p].via \in Challenge /\ post[p].request \in Subject
    BY <1>2 DEF Consume, TypeInv, Bound
  <2> QED
    BY <1>2, <2>1, ConsumeSteps DEF TypeInv, ChallengeNext, Consume
<1>3. CASE Tick
  BY <1>3 DEF Tick, ChallengeNext
<1>4. CASE UNCHANGED challengeVars
  BY <1>4
<1> QED
  BY <1>1, <1>2, <1>3, <1>4
     DEF Next, Ask, ReadReceiver, PostSigned, Persist, CheckSession, Submit, Answered,
         SelectRole, EditForm, SwitchWallet

THEOREM CreationUsesChallenges == Spec => ChallengeSpec
<1>1. Init => ChallengeInit
  BY DEF Init
<1> QED
  BY <1>1, CreationStep, TypeAlways, PTL DEF Spec, ChallengeSpec

-----------------------------------------------------------------------------
(* An open challenge belongs to a request whose receiver Horizon has       *)
(* vouched for; a post that is past its check carries that very request    *)
(* and has spent the challenge, or has both wallets among its parties.     *)

Spent(p) == post[p].pc \in {"persist", "stored"}
Parties(p) == {post[p].request.debtor, post[p].request.receiver}

AuthInv(c) ==
    /\ auth[c].pc \in {"create", "issued"} => auth[c].vouched
    /\ chal[c].status # "absent" => auth[c].pc = "issued"
    /\ chal[c].status = "open" => chal[c].subject = auth[c].request

PostInv(p) ==
    /\ post[p].pc = "session" => post[p].via = Nobody /\ post[p].wallet \in Parties(p)
    /\ Spent(p) /\ post[p].via \in Challenge =>
         /\ chal[post[p].via].status \in {"consumed", "deleted"}
         /\ post[p].request = auth[post[p].via].request
    /\ Spent(p) /\ post[p].via \notin Challenge =>
         {post[p].via, post[p].wallet} \subseteq Parties(p)
    /\ post[p].pc = "stored" => Issuer \notin Parties(p)

OnePost ==
    \A p, q \in Post :
      Spent(p) /\ Spent(q) /\ post[p].via = post[q].via /\ post[p].via \in Challenge
        => p = q

CreationInv ==
    /\ TypeInv
    /\ \A c \in Challenge : AuthInv(c)
    /\ \A p \in Post : PostInv(p)
    /\ OnePost

LEMMA CreationInit == Init => CreationInv
BY TypeInit
   DEF Init, CreationInv, AuthInv, PostInv, OnePost, Spent, ChallengeInit, NoChallenge

(* Most steps change no challenge and no post, or neither.                 *)
LEMMA PostUnchanged ==
  ASSUME CreationInv, TypeInv', UNCHANGED <<chal, auth, post>>
  PROVE  CreationInv'
BY DEF CreationInv, AuthInv, PostInv, OnePost, Spent, Parties

LEMMA AuthKept ==
  ASSUME CreationInv, TypeInv', UNCHANGED post,
         \A c \in Challenge : AuthInv(c)',
         \A c \in Challenge : chal[c].status \in {"consumed", "deleted"} =>
                               /\ chal'[c].status \in {"consumed", "deleted"}
                               /\ auth'[c].request = auth[c].request
  PROVE  CreationInv'
<1>1. ASSUME NEW p \in Post PROVE PostInv(p)'
  <2>1. PostInv(p) /\ post'[p] = post[p]
    BY DEF CreationInv
  <2> QED
    BY <2>1, Zenon DEF PostInv, Spent, Parties
<1>2. OnePost'
  BY DEF CreationInv, OnePost, Spent
<1> QED
  BY <1>1, <1>2 DEF CreationInv

(* A post's own step: the other posts keep their facts.                    *)
LEMMA PostKept ==
  ASSUME CreationInv, TypeInv', UNCHANGED <<chal, auth>>, NEW p \in Post,
         \A q \in Post \ {p} : post'[q] = post[q],
         PostInv(p)',
         Spent(p)' => Spent(p) \/ post'[p].via \notin Challenge,
         Spent(p) => post'[p].via = post[p].via
  PROVE  CreationInv'
<1>1. \A c \in Challenge : AuthInv(c)'
  BY DEF CreationInv, AuthInv
<1>2. \A q \in Post : PostInv(q)'
  BY DEF CreationInv, PostInv, Spent, Parties
<1>3. OnePost'
  BY DEF CreationInv, OnePost, Spent
<1> QED
  BY <1>1, <1>2, <1>3 DEF CreationInv

LEMMA CreationNext == CreationInv /\ [Next]_vars => CreationInv'
<1> SUFFICES ASSUME CreationInv, [Next]_vars PROVE CreationInv'
  OBVIOUS
<1>0. /\ TypeInv /\ TypeInv' /\ Challenge \cap (Account \cup {Nobody}) = {}
      /\ auth \in [Challenge -> AuthRow] /\ post \in [Post -> PostRow]
      /\ chal \in [Challenge -> ChallengeRow]
  BY TypeNext, CreationAssumption DEF CreationInv, TypeInv, TypeOK, ChallengeTypeOK
<1>1. ASSUME NEW c \in Challenge, NEW r \in Subject, Ask(c, r) PROVE CreationInv'
  BY <1>0, <1>1, AuthKept DEF Ask, CreationInv, AuthInv
<1>2. ASSUME NEW c \in Challenge, ReadReceiver(c) PROVE CreationInv'
  <2>1. auth' = [auth EXCEPT ![c] = [@ EXCEPT !.pc = "create", !.at = now,
                                              !.vouched = TRUE]]
    BY <1>2 DEF ReadReceiver, Accepts, Summary
  <2>2. auth[c].pc = "account" /\ UNCHANGED <<chal, post>>
    BY <1>2 DEF ReadReceiver
  <2> QED
    BY <1>0, <2>1, <2>2, AuthKept DEF CreationInv, AuthInv, AuthRow
<1>3. ASSUME NEW c \in Challenge, Issue(c) PROVE CreationInv'
  <2>1. auth[c].request \in Subject /\ auth[c].pc = "create" /\ TypeOK
    BY <1>0, <1>3 DEF Issue, TypeInv, Bound
  <2>2. PICK at \in 0..now, start \in 0..now :
          CreateChallenge(c, auth[c].request, at, start)
    BY <1>3, <2>1, IssueSteps
  <2>3. \A d \in Challenge \ {c} :
          \/ chal'[d] = chal[d]
          \/ chal'[d].status = "deleted" /\ chal[d].status # "absent"
    <3> TAKE d \in Challenge \ {c}
    <3>1. chal'[d] = IF d \in Surviving(start) \/ chal[d].status = "absent"
                       THEN chal[d] ELSE NoChallenge("deleted")
      BY <2>2 DEF CreateChallenge
    <3>2. NoChallenge("deleted").status = "deleted"
      BY DEF NoChallenge
    <3>3. CASE d \in Surviving(start) \/ chal[d].status = "absent"
      BY <3>1, <3>3
    <3>4. CASE d \notin Surviving(start) /\ chal[d].status # "absent"
      BY <3>1, <3>2, <3>4
    <3> QED
      BY <3>3, <3>4
  <2>4. /\ chal[c].status = "absent" /\ chal'[c].status = "open"
        /\ chal'[c].subject = auth[c].request
    BY <2>2 DEF CreateChallenge
  <2>5. auth' = [auth EXCEPT ![c].pc = "issued"] /\ UNCHANGED post
    BY <1>3 DEF Issue
  <2>6. /\ auth'[c].pc = "issued" /\ auth'[c].vouched = auth[c].vouched
        /\ auth'[c].request = auth[c].request
        /\ \A d \in Challenge \ {c} : auth'[d] = auth[d]
    BY <1>0, <2>5 DEF AuthRow
  <2> QED
    BY <1>0, <2>1, <2>3, <2>4, <2>5, <2>6, AuthKept DEF CreationInv, AuthInv
<1>4. ASSUME NEW p \in Post, NEW c \in Challenge, NEW r \in Subject, PostSigned(p, c, r)
      PROVE  CreationInv'
  BY <1>0, <1>4, PostKept DEF PostSigned, PostInv, Spent
<1>5. ASSUME NEW p \in Post, Consume(p) PROVE CreationInv'
  <2> DEFINE c == post[p].via
  <2>1. /\ c \in Challenge /\ post[p].request \in Subject /\ TypeOK
        /\ post[p].pc = "consume" /\ UNCHANGED auth
    BY <1>0, <1>5 DEF Consume, TypeInv, Bound
  <2>2. PICK at \in 0..now : ConsumeChallenge(c, post[p].request, at)
    BY <1>5, ConsumeSteps, <2>1
  <2>3. /\ chal[c].status = "open" /\ chal[c].subject = post[p].request
        /\ chal'[c].status = "consumed"
        /\ \A d \in Challenge \ {c} : chal'[d] = chal[d]
    <3>1. chal[c].subject = post[p].request
      BY <2>2 DEF ConsumeChallenge, Acceptable
    <3> HIDE DEF c
    <3> QED
      BY <2>1, <2>2, <3>1, ConsumeRows DEF TypeOK
  <2>4. /\ post'[p].pc = "persist" /\ post'[p].via = c
        /\ post'[p].request = post[p].request
        /\ \A q \in Post \ {p} : post'[q] = post[q]
    BY <1>0, <1>5 DEF Consume, PostRow
  <2> HIDE DEF c
  <2>5. \A d \in Challenge : AuthInv(d)'
    BY <2>1, <2>3 DEF CreationInv, AuthInv
  <2>6. \A q \in Post \ {p} : Spent(q) => post[q].via # c
    BY <2>1, <2>3 DEF CreationInv, PostInv
  <2>7. post[p].request = auth[c].request
    BY <2>1, <2>3 DEF CreationInv, AuthInv
  <2>8. PostInv(p)'
    BY <2>1, <2>3, <2>4, <2>7 DEF PostInv, Spent
  <2>9. \A q \in Post \ {p} : PostInv(q)'
    BY <2>1, <2>3, <2>4, <2>6 DEF CreationInv, PostInv, Spent, Parties
  <2>10. OnePost'
    BY <2>4, <2>6 DEF CreationInv, OnePost, Spent
  <2> QED
    BY <1>0, <2>5, <2>8, <2>9, <2>10 DEF CreationInv
<1>6. ASSUME NEW p \in Post, Persist(p) PROVE CreationInv'
  <2>1. post[p].pc = "persist" /\ UNCHANGED <<chal, auth>>
    BY <1>6 DEF Persist
  <2>2. /\ post'[p].pc = "stored" /\ post'[p].via = post[p].via
        /\ post'[p].request = post[p].request /\ post'[p].at = post[p].at
        /\ post'[p].wallet = post[p].wallet
        /\ \A q \in Post \ {p} : post'[q] = post[q]
    BY <1>0, <1>6 DEF Persist, PostRow
  <2>3. Issuer \notin Parties(p)
    BY <1>6 DEF Persist, Draftable, Parties
  <2>4. PostInv(p)'
    BY <2>1, <2>2, <2>3 DEF CreationInv, PostInv, Spent, Parties
  <2> QED
    BY <1>0, <2>1, <2>2, <2>4, PostKept DEF Spent
<1>7. ASSUME NEW p \in Post, CheckSession(p) PROVE CreationInv'
  <2>1. post[p].pc = "session" /\ UNCHANGED <<chal, auth>>
    BY <1>7 DEF CheckSession
  <2>2. PICK w \in Account : /\ w \in Parties(p)
                            /\ post' = [post EXCEPT ![p].pc = "persist", ![p].via = w,
                                                    ![p].at = now]
    BY <1>7 DEF CheckSession, IsParty, Parties
  <2>3. /\ post'[p].pc = "persist" /\ post'[p].via = w
        /\ post'[p].request = post[p].request /\ post'[p].wallet = post[p].wallet
        /\ \A q \in Post \ {p} : post'[q] = post[q]
    BY <1>0, <2>2 DEF PostRow
  <2>4. w \notin Challenge
    BY <1>0
  <2>5. PostInv(p)'
    BY <2>1, <2>2, <2>3, <2>4 DEF CreationInv, PostInv, Spent, Parties
  <2> QED
    BY <1>0, <2>1, <2>3, <2>4, <2>5, PostKept DEF Spent
<1>8. ASSUME NEW p \in Post, Submit(p) PROVE CreationInv'
  <2>1. form.wallet \in {form.debtor, form.receiver}
    BY <1>0 DEF TypeInv, TypeOK, Form
  <2>2. PostInv(p)'
    BY <1>0, <1>8, <2>1 DEF Submit, PostInv, Spent, Parties
  <2>3. Nobody \notin Challenge /\ ~Spent(p) /\ ~Spent(p)'
    BY <1>0, <1>8 DEF Submit, Spent
  <2> QED
    BY <1>0, <1>8, <2>2, <2>3, PostKept DEF Submit
<1>9. CASE UNCHANGED <<chal, auth, post>>
  BY <1>0, <1>9, PostUnchanged
<1> QED
  BY <1>1, <1>2, <1>3, <1>4, <1>5, <1>6, <1>7, <1>8, <1>9
     DEF Next, Answered, SelectRole, EditForm, SwitchWallet, Tick, ChallengeTick

LEMMA CreationAlways == Spec => []CreationInv
<1> QED
  BY CreationInit, CreationNext, PTL DEF Spec

(* One signature of the issuer makes at most one invoice, for any number   *)
(* of posts of it, in any order, with any answers lost.                    *)
THEOREM SignatureMakesOneInvoice == Spec => []OneInvoicePerSignature
<1>1. CreationInv => OneInvoicePerSignature
  BY DEF CreationInv, OnePost, Spent, Stored, OneInvoicePerSignature
<1> QED
  BY <1>1, CreationAlways, PTL

(* That invoice is the request the issuer signed, for a receiver that      *)
(* Horizon had vouched for before there was anything to sign.              *)
THEOREM SignedInvoiceVouched == Spec => []StoredAsVouched
<1>1. CreationInv => StoredAsVouched
  BY DEF CreationInv, AuthInv, PostInv, Spent, Stored, StoredAsVouched
<1> QED
  BY <1>1, CreationAlways, PTL

(* An invoice of the form belongs to the wallet on show and to the wallet  *)
(* of the session, whenever either changed.                                *)
THEOREM FormInvoiceIsOwn == Spec => []OwnInvoice
<1>1. CreationInv => OwnInvoice
  BY DEF CreationInv, PostInv, Parties, Spent, Stored, OwnInvoice
<1> QED
  BY <1>1, CreationAlways, PTL
=============================================================================
