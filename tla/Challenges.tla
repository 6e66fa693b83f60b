----------------------------- MODULE Challenges -----------------------------
(***************************************************************************)
(* One-time challenges as the wallet_challenges and issuer_challenges      *)
(* tables keep them: create_wallet_challenge and create_issuer_challenge   *)
(* clean up, count and insert under one advisory lock; a verification is   *)
(* one conditional update.                                                 *)
(*                                                                         *)
(* A challenge is bound to a subject: the wallet that logs in, or the      *)
(* invoice request that the issuer authorizes, whose hash is part of the   *)
(* message.  The message itself and its hash are the challenge.            *)
(***************************************************************************)
EXTENDS Integers, FiniteSets

CONSTANTS
    Challenge,      \* ids of challenges
    Subject,        \* what a challenge can be bound to
    NoSubject,      \* the subject of a challenge that is not in the table
    Ttl,            \* life of a challenge (5 min)
    MaxAhead,       \* latest expiry the procedure takes, from its clock (6 min)
    Window,         \* the period in which creations are counted (1 min)
    Limit,          \* creations in a period (100; issuer: 30)
    SubjectLimit,   \* creations for one subject in a period (5; issuer: Limit)
    MaxTime         \* bound on the clock

ASSUME ChallengeAssumption ==
    /\ IsFiniteSet(Challenge) /\ NoSubject \notin Subject
    /\ Ttl \in Nat \ {0} /\ MaxAhead \in Nat /\ Window \in Nat \ {0}
    /\ Limit \in Nat \ {0} /\ SubjectLimit \in Nat \ {0} /\ MaxTime \in Nat

VARIABLES
    now,        \* clock of the app and database host
    chal,       \* the rows
    accepted    \* how often each challenge has been accepted (history)

challengeVars == <<now, chal, accepted>>

ChallengeRow == [status : {"absent", "open", "consumed", "deleted"},
                 subject : Subject \cup {NoSubject}, created : Nat, expires : Nat]

NoChallenge(status) == [status |-> status, subject |-> NoSubject,
                        created |-> 0, expires |-> 0]

ChallengeInit ==
    /\ now = 0
    /\ chal = [c \in Challenge |-> NoChallenge("absent")]
    /\ accepted = [c \in Challenge |-> 0]

-----------------------------------------------------------------------------
(* What the clean-up at the start of the procedure leaves.  start is the   *)
(* time of the transaction, which may have waited for the lock since.      *)
Surviving(start) ==
    {c \in Challenge : chal[c].status = "open" /\ chal[c].expires > start}

(* Regression: rows of transactions that started later are not counted.    *)
RecentUpToNow(start) ==
    {c \in Surviving(start) : start - Window < chal[c].created /\ chal[c].created <= start}

Recent(start) == {c \in Surviving(start) : chal[c].created > start - Window}

RecentOf(s, start) == {c \in Recent(start) : chal[c].subject = s}

(* The procedure raises an exception, which undoes its clean-up too, unless *)
(* this holds.  The app computed the expiry at its own time.               *)
Admitted(s, at, start) ==
    /\ Cardinality(Recent(start)) < Limit
    /\ Cardinality(RecentOf(s, start)) < SubjectLimit
    /\ start < at + Ttl /\ at + Ttl <= start + MaxAhead

CreateChallenge(c, s, at, start) ==
    /\ chal[c].status = "absent"
    /\ Admitted(s, at, start)
    /\ chal' = [x \in Challenge |->
                 IF x = c
                   THEN [status |-> "open", subject |-> s, created |-> start,
                         expires |-> at + Ttl]
                   ELSE IF x \in Surviving(start) \/ chal[x].status = "absent"
                          THEN chal[x] ELSE NoChallenge("deleted")]

(* Regression: a consumed challenge is found again until it is deleted.    *)
AcceptableTwice(c, s, at) ==
    chal[c].status \in {"open", "consumed"} /\ chal[c].subject = s /\ chal[c].expires > at

(* The condition of the update: at is the app's clock before the call.     *)
Acceptable(c, s, at) ==
    chal[c].status = "open" /\ chal[c].subject = s /\ chal[c].expires > at

ConsumeChallenge(c, s, at) ==
    /\ Acceptable(c, s, at)
    /\ chal' = [chal EXCEPT ![c].status = "consumed"]
    /\ accepted' = [accepted EXCEPT ![c] = @ + 1]

-----------------------------------------------------------------------------
(* The tables under any use of the procedures.                             *)

ChallengeTick == now < MaxTime /\ now' = now + 1 /\ UNCHANGED <<chal, accepted>>

ChallengeNext ==
    \/ \E c \in Challenge, s \in Subject, at \in 0..now, start \in 0..now :
         CreateChallenge(c, s, at, start) /\ UNCHANGED <<now, accepted>>
    \/ \E c \in Challenge, s \in Subject, at \in 0..now :
         ConsumeChallenge(c, s, at) /\ UNCHANGED now
    \/ ChallengeTick

ChallengeSpec == ChallengeInit /\ [][ChallengeNext]_challengeVars

ChallengeTypeOK ==
    /\ now \in 0..MaxTime
    /\ chal \in [Challenge -> ChallengeRow]
    /\ accepted \in [Challenge -> Nat]

(* A challenge is accepted once: two verifications that arrive together, a *)
(* request that is repeated because its answer was lost, and the clean-up  *)
(* between them cannot make it count twice.                                *)
AcceptedOnce == \A c \in Challenge : accepted[c] <= 1

(* The challenges a subject may still answer, created within any period of *)
(* the window's length, are at most its limit, and all subjects' together  *)
(* at most the general one, although transactions take the lock in another *)
(* order than they started.  (Those it has answered are forgotten and      *)
(* bounded by nothing.)                                                    *)
OpenIn(t) == {c \in Challenge : /\ chal[c].status = "open"
                                /\ t - Window < chal[c].created /\ chal[c].created <= t}

OpenIsBounded ==
    \A t \in 0..MaxTime :
      /\ Cardinality(OpenIn(t)) <= Limit
      /\ \A s \in Subject :
           Cardinality({c \in OpenIn(t) : chal[c].subject = s}) <= SubjectLimit
=============================================================================
