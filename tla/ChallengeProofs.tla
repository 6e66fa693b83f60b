-------------------------- MODULE ChallengeProofs --------------------------
(***************************************************************************)
(* The promises of the challenge tables for every number of challenges,    *)
(* every limit and every order of their callers: a challenge is accepted   *)
(* once, and the open ones are bounded in every period.                    *)
(***************************************************************************)
EXTENDS Challenges, FiniteSetTheorems, TLAPS

USE DEF challengeVars

(* A challenge nobody has accepted may still be accepted; one that is      *)
(* absent or open has not been.                                            *)
SpentInv ==
    /\ ChallengeTypeOK
    /\ \A c \in Challenge :
         /\ accepted[c] \in {0, 1}
         /\ chal[c].status \in {"absent", "open"} => accepted[c] = 0

(* What a step may do to one row.                                          *)
LEMMA CreateRows ==
  ASSUME ChallengeTypeOK, NEW c \in Challenge, NEW s \in Subject,
         NEW at \in 0..now, NEW start \in 0..now, CreateChallenge(c, s, at, start)
  PROVE  /\ chal' \in [Challenge -> ChallengeRow]
         /\ \A d \in Challenge :
              chal'[d].status \in {"absent", "open"} =>
                chal[d].status \in {"absent", "open"}
BY ChallengeAssumption
   DEF ChallengeTypeOK, ChallengeRow, CreateChallenge, NoChallenge, Surviving

LEMMA ConsumeRows ==
  ASSUME ChallengeTypeOK, NEW c \in Challenge, NEW s \in Subject,
         NEW at \in 0..now, ConsumeChallenge(c, s, at)
  PROVE  /\ chal' \in [Challenge -> ChallengeRow]
         /\ accepted' \in [Challenge -> Nat]
         /\ chal[c].status = "open" /\ chal'[c].status = "consumed"
         /\ \A d \in Challenge \ {c} : chal'[d] = chal[d]
BY DEF ChallengeTypeOK, ChallengeRow, ConsumeChallenge, Acceptable

LEMMA SpentInit == ChallengeInit => SpentInv
BY ChallengeAssumption
   DEF ChallengeInit, SpentInv, ChallengeTypeOK, ChallengeRow, NoChallenge

LEMMA SpentNext == SpentInv /\ [ChallengeNext]_challengeVars => SpentInv'
<1> SUFFICES ASSUME SpentInv, [ChallengeNext]_challengeVars PROVE SpentInv'
  OBVIOUS
<1>1. ASSUME NEW c \in Challenge, NEW s \in Subject, NEW at \in 0..now, NEW start \in 0..now,
             CreateChallenge(c, s, at, start), UNCHANGED <<now, accepted>>
      PROVE  SpentInv'
  <2>1. ChallengeTypeOK'
    BY <1>1, CreateRows DEF SpentInv, ChallengeTypeOK
  <2> QED
    BY <1>1, <2>1, CreateRows DEF SpentInv
<1>2. ASSUME NEW c \in Challenge, NEW s \in Subject, NEW at \in 0..now,
             ConsumeChallenge(c, s, at), UNCHANGED now
      PROVE  SpentInv'
  <2>1. ChallengeTypeOK'
    BY <1>2, ConsumeRows DEF SpentInv, ChallengeTypeOK
  <2>2. accepted' = [accepted EXCEPT ![c] = @ + 1] /\ accepted \in [Challenge -> Nat]
    BY <1>2 DEF SpentInv, ChallengeTypeOK, ConsumeChallenge
  <2>3. accepted[c] = 0 /\ chal'[c].status = "consumed"
    BY <1>2, ConsumeRows DEF SpentInv
  <2> QED
    BY <1>2, <2>1, <2>2, <2>3, ConsumeRows DEF SpentInv
<1>3. CASE ChallengeTick
  BY <1>3, ChallengeAssumption DEF ChallengeTick, SpentInv, ChallengeTypeOK
<1>4. CASE UNCHANGED challengeVars
  BY <1>4 DEF SpentInv, ChallengeTypeOK
<1> QED
  BY <1>1, <1>2, <1>3, <1>4 DEF ChallengeNext

LEMMA SpentAlways == ChallengeSpec => []SpentInv
<1> QED
  BY SpentInit, SpentNext, PTL DEF ChallengeSpec

(* A challenge is accepted at most once, by whatever calls of the two      *)
(* procedures and the conditional update, in whatever order.               *)
THEOREM ChallengeAcceptedOnce == ChallengeSpec => []AcceptedOnce
<1>1. SpentInv => AcceptedOnce
  BY DEF SpentInv, AcceptedOnce
<1> QED
  BY <1>1, SpentAlways, PTL

-----------------------------------------------------------------------------
(* The rate limits.  If the period of t counts the new row, the other rows *)
(* in it survived the clean-up and are younger than the caller's period.   *)

OpenOf(s, t) == {c \in OpenIn(t) : chal[c].subject = s}

LEMMA FewerOpen ==
  ASSUME NEW S, IsFiniteSet(S), NEW T \in SUBSET S, NEW n \in Nat, Cardinality(S) <= n
  PROVE  Cardinality(T) <= n
<1>1. Cardinality(T) <= Cardinality(S) /\ IsFiniteSet(T)
  BY FS_Subset
<1>2. Cardinality(T) \in Nat /\ Cardinality(S) \in Nat
  BY <1>1, FS_CardinalityType
<1> QED
  BY <1>1, <1>2

LEMMA OneMoreOpen ==
  ASSUME NEW S, IsFiniteSet(S), NEW c, NEW T \in SUBSET (S \cup {c}),
         NEW n \in Nat, Cardinality(S) < n
  PROVE  Cardinality(T) <= n
<1>1. /\ IsFiniteSet(S \cup {c}) /\ Cardinality(S) \in Nat
      /\ Cardinality(S \cup {c}) \in {Cardinality(S), Cardinality(S) + 1}
  BY FS_AddElement, FS_CardinalityType
<1>2. Cardinality(S \cup {c}) <= n
  BY <1>1
<1> QED
  BY <1>1, <1>2, FewerOpen

LEMMA OpenFinite ==
  /\ \A t : IsFiniteSet(OpenIn(t)) /\ \A s : IsFiniteSet(OpenOf(s, t))
  /\ \A start : IsFiniteSet(Recent(start)) /\ \A s : IsFiniteSet(RecentOf(s, start))
<1>1. \A S \in SUBSET Challenge : IsFiniteSet(S)
  BY ChallengeAssumption, FS_Subset
<1> QED
  BY <1>1 DEF OpenIn, OpenOf, Recent, RecentOf, Surviving

(* The open rows after a creation, in the period that ends at t.           *)
LEMMA OpenAfterCreate ==
  ASSUME ChallengeTypeOK, NEW c \in Challenge, NEW s \in Subject,
         NEW at \in 0..now, NEW start \in 0..now, CreateChallenge(c, s, at, start),
         NEW t \in Int, NEW r \in Subject
  PROVE  \/ OpenIn(t)' \subseteq OpenIn(t) /\ OpenOf(r, t)' \subseteq OpenOf(r, t)
         \/ /\ OpenIn(t)' \subseteq Recent(start) \cup {c}
            /\ \/ r = s /\ OpenOf(r, t)' \subseteq RecentOf(s, start) \cup {c}
               \/ r # s /\ OpenOf(r, t)' \subseteq OpenOf(r, t)
<1> DEFINE new == [status |-> "open", subject |-> s, created |-> start, expires |-> at + Ttl]
<1>1. /\ start \in Nat /\ Window \in Nat
      /\ \A d \in Challenge : chal[d].created \in Nat
  BY ChallengeAssumption DEF ChallengeTypeOK, ChallengeRow
<1>2. chal'[c] = new
  BY DEF CreateChallenge
<1>3. ASSUME NEW d \in Challenge \ {c}, chal'[d].status = "open"
      PROVE  chal'[d] = chal[d] /\ d \in Surviving(start)
  BY <1>3 DEF CreateChallenge, NoChallenge, Surviving
<1>4. CASE t - Window < start /\ start <= t
  <2>1. \A d \in OpenIn(t)' \ {c} : d \in Recent(start) /\ chal'[d] = chal[d]
    BY <1>1, <1>3, <1>4 DEF OpenIn, Recent
  <2>2. \A d \in OpenIn(t)' \ {c} : d \in OpenIn(t)
    BY <1>3 DEF OpenIn
  <2>3. CASE r = s
    BY <2>1, <2>3 DEF OpenOf, RecentOf
  <2>4. CASE r # s
    BY <1>2, <2>1, <2>2, <2>4 DEF OpenOf
  <2> QED
    BY <2>1, <2>3, <2>4
<1>5. CASE ~(t - Window < start /\ start <= t)
  <2>1. c \notin OpenIn(t)'
    BY <1>2, <1>5 DEF OpenIn
  <2>2. \A d \in OpenIn(t)' : d \in OpenIn(t) /\ chal'[d] = chal[d]
    BY <1>3, <2>1 DEF OpenIn
  <2> QED
    BY <2>2 DEF OpenOf
<1> QED
  BY <1>4, <1>5

LEMMA BoundedInit == ChallengeInit => OpenIsBounded
<1> SUFFICES ASSUME ChallengeInit PROVE OpenIsBounded
  OBVIOUS
<1>1. \A t : OpenIn(t) = {} /\ \A s : {c \in OpenIn(t) : chal[c].subject = s} = {}
  BY DEF ChallengeInit, NoChallenge, OpenIn
<1> QED
  BY <1>1, FS_EmptySet, ChallengeAssumption DEF OpenIsBounded

LEMMA BoundedCreate ==
  ASSUME ChallengeTypeOK, OpenIsBounded, NEW c \in Challenge, NEW s \in Subject,
         NEW at \in 0..now, NEW start \in 0..now, CreateChallenge(c, s, at, start)
  PROVE  OpenIsBounded'
<1> SUFFICES ASSUME NEW t \in 0..MaxTime, NEW r \in Subject
             PROVE  /\ Cardinality(OpenIn(t)') <= Limit
                    /\ Cardinality(OpenOf(r, t)') <= SubjectLimit
  BY DEF OpenIsBounded, OpenOf
<1>1. Limit \in Nat /\ SubjectLimit \in Nat
  BY ChallengeAssumption
<1>2. Cardinality(OpenIn(t)) <= Limit /\ Cardinality(OpenOf(r, t)) <= SubjectLimit
  BY DEF OpenIsBounded, OpenOf
<1>3. Cardinality(Recent(start)) < Limit /\ Cardinality(RecentOf(s, start)) < SubjectLimit
  BY DEF CreateChallenge, Admitted
<1>4. t \in Int
  BY ChallengeAssumption
<1>5. \/ Cardinality(OpenIn(t)') <= Limit /\ OpenIn(t)' \subseteq OpenIn(t)
      \/ Cardinality(OpenIn(t)') <= Limit /\ OpenIn(t)' \subseteq Recent(start) \cup {c}
  BY <1>1, <1>2, <1>3, <1>4, OpenAfterCreate, FewerOpen, OneMoreOpen, OpenFinite
<1>6. Cardinality(OpenOf(r, t)') <= SubjectLimit
  BY <1>1, <1>2, <1>3, <1>4, OpenAfterCreate, FewerOpen, OneMoreOpen, OpenFinite
<1> QED
  BY <1>5, <1>6

LEMMA BoundedLess ==
  ASSUME OpenIsBounded,
         \A c \in Challenge : chal'[c].status = "open" => chal'[c] = chal[c]
  PROVE  OpenIsBounded'
<1>1. \A t \in 0..MaxTime : Cardinality(OpenIn(t)') <= Limit
  <2> TAKE t \in 0..MaxTime
  <2>1. OpenIn(t)' \subseteq OpenIn(t)
    BY DEF OpenIn
  <2> QED
    BY <2>1, FewerOpen, OpenFinite, ChallengeAssumption DEF OpenIsBounded
<1>2. \A t \in 0..MaxTime, r \in Subject : Cardinality(OpenOf(r, t)') <= SubjectLimit
  <2> TAKE t \in 0..MaxTime, r \in Subject
  <2>1. OpenOf(r, t)' \subseteq OpenOf(r, t)
    BY DEF OpenIn, OpenOf
  <2>2. Cardinality(OpenOf(r, t)) <= SubjectLimit
    BY DEF OpenIsBounded, OpenOf
  <2> QED
    BY <2>1, <2>2, FewerOpen, OpenFinite, ChallengeAssumption
<1> QED
  BY <1>1, <1>2 DEF OpenIsBounded, OpenOf

(* In every period of the window's length the challenges still open are    *)
(* within the limits, although callers take the lock in any order.         *)
THEOREM ChallengesBounded == ChallengeSpec => []OpenIsBounded
<1>1. SpentInv /\ OpenIsBounded /\ [ChallengeNext]_challengeVars => OpenIsBounded'
  <2> SUFFICES ASSUME SpentInv, OpenIsBounded, [ChallengeNext]_challengeVars
               PROVE  OpenIsBounded'
    OBVIOUS
  <2>1. ASSUME NEW c \in Challenge, NEW s \in Subject, NEW at \in 0..now,
               NEW start \in 0..now, CreateChallenge(c, s, at, start)
        PROVE  OpenIsBounded'
    BY <2>1, BoundedCreate DEF SpentInv
  <2>2. ASSUME NEW c \in Challenge, NEW s \in Subject, NEW at \in 0..now,
               ConsumeChallenge(c, s, at)
        PROVE  OpenIsBounded'
    <3>1. \A d \in Challenge : chal'[d].status = "open" => chal'[d] = chal[d]
      BY <2>2, ConsumeRows DEF SpentInv
    <3> QED
      BY <3>1, BoundedLess
  <2>3. CASE UNCHANGED chal
    BY <2>3, BoundedLess
  <2> QED
    BY <2>1, <2>2, <2>3 DEF ChallengeNext, ChallengeTick
<1> QED
  BY <1>1, BoundedInit, SpentAlways, PTL DEF ChallengeSpec
=============================================================================
