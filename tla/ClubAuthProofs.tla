--------------------------- MODULE ClubAuthProofs --------------------------
(***************************************************************************)
(* ClubAuth for any officers, keys, challenges, sessions and requests      *)
(* served at a time; TotpReplay for any attempts, window and time.         *)
(*                                                                         *)
(* OneOutcomePerChallenge: a challenge is claimed by at most one request   *)
(* (ServedOnce), and what has come out of one is out of every request's    *)
(* reach (SpentOnce).  OnlyTheRightful: an approval is by an officer of    *)
(* its own, not the one who recovers nor the one who asked (ApprovedInv),  *)
(* and a session with a live second factor is not revoked (LiveInv).       *)
(* AcceptedGoesUp: what was stored bounds what was accepted (StoredBounds).*)
(***************************************************************************)
EXTENDS ClubAuth, TotpReplay, FiniteSetTheorems, TLAPS

Serving == {t \in Threads : handler[t].pc # "idle"}
Served(t) == handler[t].response.challenge
Claimed(c) == challenge[c].state = "claimed"

\* Every request at work has claimed a challenge that no other has.
ServedOnce ==
    /\ \A t \in Serving : Claimed(Served(t))
    /\ \A t, u \in Serving : Served(t) = Served(u) => t = u

\* A challenge something has come of is claimed, and no request works on it.
Spent == {cred[k].challenge : k \in Enrolled} \cup {session[s].challenge : s \in Issues}
SpentOnce == \A c \in Spent : Claimed(c) /\ \A t \in Serving : Served(t) # c

\* An issued session is of a challenge.
IssuedInv == \A s \in Issues : session[s].challenge \in Challenges

\* Approvals are by different officers, none of them concerned.
ApprovedInv ==
    /\ IsFiniteSet(approvals)
    /\ request.status = "none" => approvals = {}
    /\ \A a \in approvals : a.officer \notin {request.subject, request.requester}
    /\ \A a, b \in approvals : a.officer = b.officer => a = b

LiveInv == \A s \in Sessions : session[s].mfa = "live" => session[s].api = "live"

OutcomeInv == ServedOnce /\ SpentOnce /\ IssuedInv /\ OneOutcomePerChallenge
IInv == TypeOK /\ OutcomeInv /\ ApprovedInv /\ LiveInv

-----------------------------------------------------------------------------
(* Types.                                                                  *)

\* A request at work has a response.
LEMMA ServingType ==
    ASSUME TypeOK, NEW t \in Threads, handler[t].pc # "idle"
    PROVE  /\ handler[t].pc \in {"claimed", "checked", "verified", "committed"}
           /\ handler[t].response \in Responses
           /\ Served(t) \in Challenges /\ Key(t) \in Keys /\ Count(t) \in 0..MaxCount
           /\ Subject(t) \in Officers \cup {None}
  <1>1. handler[t] \in Handlers /\ handler[t] # Idle
    BY DEF TypeOK, Idle
  <1>2. handler[t] \in [pc : {"claimed", "checked", "verified", "committed"}, response : Responses]
    BY <1>1 DEF Handlers
  <1> QED
    BY <1>2 DEF TypeOK, Responses, Offered, Served, Key, Count, Subject

LEMMA StepType ==
    ASSUME TypeOK, NEW t \in Threads,
           NEW from \in {"claimed", "checked", "verified", "committed"},
           NEW to \in {"claimed", "checked", "verified", "committed"},
           Step(t, from, to)
    PROVE  /\ handler' \in [Threads -> Handlers]
           /\ handler'[t].response = handler[t].response
           /\ \A u \in Threads \ {t} : handler'[u] = handler[u]
  <1>1. handler[t] \in [pc : {"claimed", "checked", "verified", "committed"}, response : Responses]
    BY ServingType DEF Step, TypeOK, Handlers, Idle
  <1>2. handler' = [handler EXCEPT ![t] = [handler[t] EXCEPT !.pc = to]]
    BY DEF Step
  <1>3. [handler[t] EXCEPT !.pc = to] \in Handlers
    BY <1>1 DEF Handlers
  <1> QED
    BY <1>1, <1>2, <1>3 DEF TypeOK

LEMMA LeaveType ==
    ASSUME TypeOK, NEW t \in Threads, Leave(t)
    PROVE  /\ handler' \in [Threads -> Handlers]
           /\ handler'[t] = Idle
           /\ \A u \in Threads \ {t} : handler'[u] = handler[u]
  BY DEF TypeOK, Leave, Handlers

LEMMA SpendType ==
    ASSUME TypeOK, NEW e \in Events, Spend(e)
    PROVE  budget' \in [Events -> Nat]
  BY DEF TypeOK, Spend

LEMMA InitType == Init => TypeOK
  BY ConstantAssumption
  DEF Init, TypeOK, Sensible, Offered, Credentials, Held, Handlers, Responses, Purposes

LEMMA CeremonyType == TypeOK /\ Ceremony => TypeOK'
  <1> SUFFICES ASSUME TypeOK, Ceremony PROVE TypeOK'
    OBVIOUS
  <1>1. ASSUME NEW c \in Challenges, NEW o \in Officers, NEW p \in Purposes, Offer(c, o, p)
        PROVE  TypeOK'
    BY <1>1 DEF Offer, TypeOK, Offered, accounts, recovery
  <1>2. ASSUME NEW c \in Challenges, NEW k \in Keys, Sign(c, k)
        PROVE  TypeOK'
    <2>1. device' \in [Keys -> 0..MaxCount]
      BY <1>2, ConstantAssumption DEF Sign, TypeOK, Sensible
    <2>2. signed' \subseteq Responses
      BY <1>2, <2>1 DEF Sign, TypeOK, Responses
    <2> QED
      BY <1>2, <2>1, <2>2 DEF Sign, TypeOK, accounts, recovery
  <1>3. ASSUME NEW t \in Threads, NEW r \in signed, Claim(t, r)
        PROVE  TypeOK'
    <2>1. r \in Responses /\ r.challenge \in Challenges
      BY DEF TypeOK, Responses
    <2>2. challenge' \in [Challenges -> Offered]
      BY <1>3, <2>1 DEF Claim, TypeOK, Offered
    <2>3. handler' \in [Threads -> Handlers]
      BY <1>3, <2>1 DEF Claim, TypeOK, Handlers
    <2> QED
      BY <1>3, <2>2, <2>3 DEF Claim, TypeOK, accounts, recovery
  <1> QED
    BY <1>1, <1>2, <1>3 DEF Ceremony, BeginEnrolment, BeginLogin, Purposes

LEMMA ServeType == ASSUME TypeOK, NEW t \in Threads, Serve(t) \/ Die(t) PROVE TypeOK'
  <1>1. CASE Check(t)
    BY <1>1, StepType, LeaveType DEF Check, TypeOK, accounts, recovery
  <1>2. CASE Register(t)
    <2>1. cred' \in [Keys -> Credentials]
      <3>1. handler[t].pc # "idle"
        BY <1>2 DEF Register
      <3> DEFINE new == [officer |-> Subject(t), count |-> Count(t), revoked |-> FALSE,
                         challenge |-> handler[t].response.challenge]
      <3>2. new \in Credentials /\ Key(t) \in Keys
        BY <3>1, ServingType DEF Served, Credentials
      <3>3. cred' = [cred EXCEPT ![Key(t)] = new] \/ cred' = cred
        BY <1>2 DEF Register
      <3> QED
        BY <3>2, <3>3 DEF TypeOK
    <2> QED
      BY <1>2, <2>1, LeaveType DEF Register, TypeOK, accounts, recovery
  <1>3. CASE Verify(t)
    BY <1>3, StepType, LeaveType DEF Verify, TypeOK, accounts, recovery
  <1>4. CASE CommitCounter(t)
    <2>1. cred' \in [Keys -> Credentials]
      <3>1. handler[t].pc # "idle"
        BY <1>4 DEF CommitCounter
      <3> QED
        BY <1>4, <3>1, ServingType DEF CommitCounter, Credentials, TypeOK
    <2> QED
      BY <1>4, <2>1, StepType, LeaveType DEF CommitCounter, TypeOK, accounts, recovery
  <1>5. ASSUME NEW s \in Sessions, Complete(t, s)
        PROVE  TypeOK'
    <2>1. Issued(t) \in Held
      <3>1. handler[t].pc # "idle"
        BY <1>5 DEF Complete
      <3> QED
        BY <3>1, ServingType DEF Issued, Held, Served
    <2>2. session' \in [Sessions -> Held]
      BY <1>5, <2>1 DEF Complete, TypeOK
    <2> QED
      BY <1>5, <2>2, LeaveType DEF Complete, TypeOK, accounts, recovery
  <1>6. CASE Die(t)
    BY <1>6, LeaveType, SpendType DEF Die, Events, TypeOK, accounts, recovery
  <1> QED
    BY <1>1, <1>2, <1>3, <1>4, <1>5, <1>6 DEF Serve

LEMMA OthersType == TypeOK /\ (Recovery \/ Owner \/ Ends) => TypeOK'
  <1> SUFFICES ASSUME TypeOK, Recovery \/ Owner \/ Ends PROVE TypeOK'
    OBVIOUS
  <1> USE DEF TypeOK, accounts, recovery
  <1>1. ASSUME NEW o \in Officers, NEW p \in Officers, FileRequest(o, p)
        PROVE  TypeOK'
    BY <1>1 DEF FileRequest
  <1>2. ASSUME NEW o \in Officers, NEW s \in Sessions, Approve(o, s)
        PROVE  TypeOK'
    BY <1>2 DEF Approve
  <1>3. ASSUME NEW o \in Officers, Suspend(o) \/ Withdraw(o)
        PROVE  TypeOK'
    BY <1>3, SpendType DEF Suspend, Withdraw, Events
  <1>4. ASSUME NEW k \in Keys, Revoke(k)
        PROVE  TypeOK'
    BY <1>4, SpendType DEF Revoke, Events, Credentials
  <1>5. CASE TooLate
    <2>1. challenge' \in [Challenges -> Offered]
      BY <1>5 DEF TooLate, Offered
    <2> QED
      BY <1>5, <2>1, SpendType DEF TooLate, Events
  <1>6. ASSUME NEW s \in Sessions, Logout(s) \/ Lapse(s)
        PROVE  TypeOK'
    <2>1. session' \in [Sessions -> Held]
      BY <1>6 DEF Logout, Lapse, Held
    <2> QED
      BY <1>6, <2>1, SpendType DEF Logout, Lapse, Events
  <1> QED
    BY <1>1, <1>2, <1>3, <1>4, <1>5, <1>6 DEF Recovery, Owner, Ends

LEMMA NextType == TypeOK /\ [Next]_vars => TypeOK'
  <1>1. TypeOK /\ UNCHANGED vars => TypeOK'
    BY DEF TypeOK, vars, accounts, recovery
  <1> QED
    BY <1>1, CeremonyType, ServeType, OthersType DEF Next

\* Every variable keeps its type.
THEOREM TypeCorrect == Spec => []TypeOK
  BY InitType, NextType, PTL DEF Spec

-----------------------------------------------------------------------------
(* One outcome.                                                            *)

LEMMA SpentType ==
    ASSUME TypeOK, IssuedInv
    PROVE  /\ Spent \subseteq Challenges
           /\ DOMAIN cred = Keys /\ DOMAIN session = Sessions
  BY DEF TypeOK, IssuedInv, Spent, Enrolled, Credentials

\* What gives no key or session, claims nothing and frees no challenge.
LEMMA OutcomeFrame ==
    ASSUME TypeOK, TypeOK', OutcomeInv,
           \A c \in Challenges : Claimed(c) => Claimed(c)',
           \A t \in Serving' : t \in Serving /\ Served(t)' = Served(t),
           \A k \in Keys : cred'[k].challenge = cred[k].challenge,
           \A s \in Sessions : /\ session'[s].officer = session[s].officer
                               /\ session'[s].challenge = session[s].challenge
    PROVE  OutcomeInv'
  <1>1. Enrolled' = Enrolled /\ Issues' = Issues
    BY DEF TypeOK, Enrolled, Issues
  <1>2. Spent' = Spent
    BY <1>1, SpentType DEF Spent, OutcomeInv, Enrolled, Issues
  <1>3. ServedOnce'
    <2>1. \A t \in Serving : Served(t) \in Challenges
      BY ServingType DEF Serving
    <2> QED
      BY <2>1 DEF OutcomeInv, ServedOnce
  <1>4. SpentOnce'
    BY <1>2, SpentType DEF OutcomeInv, SpentOnce
  <1>5. IssuedInv' /\ OneOutcomePerChallenge'
    BY <1>1, SpentType DEF OutcomeInv, IssuedInv, OneOutcomePerChallenge, Enrolled, Issues
  <1> QED
    BY <1>3, <1>4, <1>5 DEF OutcomeInv

LEMMA ClaimOutcome ==
    ASSUME TypeOK, TypeOK', OutcomeInv, NEW t \in Threads, NEW r \in signed, Claim(t, r)
    PROVE  OutcomeInv'
  <1> DEFINE c == r.challenge
  <1>1. c \in Challenges /\ ~Claimed(c)
    BY DEF Claim, TypeOK, Responses, Claimed
  <1>2. Claimed(c)' /\ \A d \in Challenges : Claimed(d) => Claimed(d)'
    BY <1>1 DEF Claim, TypeOK, Claimed
  <1>3. /\ handler[t] = Idle /\ handler'[t] = [pc |-> "claimed", response |-> r]
        /\ \A u \in Threads \ {t} : handler'[u] = handler[u]
    BY DEF Claim, TypeOK
  <1>4. /\ t \notin Serving /\ Serving' = Serving \cup {t}
        /\ Served(t)' = c /\ \A u \in Serving : Served(u)' = Served(u) /\ Served(u) # c
    BY <1>1, <1>3 DEF Serving, Served, Idle, OutcomeInv, ServedOnce
  <1>5. ServedOnce'
    <2>1. \A u \in Serving : Served(u) \in Challenges
      BY ServingType DEF Serving
    <2> QED
      BY <1>2, <1>4, <2>1 DEF OutcomeInv, ServedOnce
  <1>6. Enrolled' = Enrolled /\ Issues' = Issues /\ Spent' = Spent /\ UNCHANGED <<cred, session>>
    BY DEF Claim, Enrolled, Issues, Spent
  <1>7. SpentOnce'
    BY <1>1, <1>2, <1>4, <1>6, SpentType DEF OutcomeInv, SpentOnce
  <1> QED
    BY <1>5, <1>6, <1>7 DEF OutcomeInv, IssuedInv, OneOutcomePerChallenge

\* The challenge of a request at work is spent once the request leaves.
LEMMA SpendOutcome ==
    ASSUME TypeOK, TypeOK', OutcomeInv, NEW t \in Serving, Leave(t), UNCHANGED challenge,
           Spent' \subseteq Spent \cup {Served(t)}
    PROVE  Served(t) \notin Spent /\ ServedOnce' /\ SpentOnce'
  <1>1. t \in Threads /\ handler[t].pc # "idle"
    BY DEF Serving
  <1>2. Served(t) \in Challenges /\ Claimed(Served(t)) /\ Served(t) \notin Spent
    BY <1>1, ServingType DEF OutcomeInv, ServedOnce, SpentOnce
  <1>3. Serving' = Serving \ {t} /\ \A u \in Serving' : Served(u)' = Served(u)
    BY <1>1, LeaveType DEF Serving, Served, Idle
  <1>4. \A c \in Challenges : Claimed(c)' = Claimed(c)
    BY DEF Claimed
  <1>5. \A u \in Serving : Served(u) \in Challenges
    BY ServingType DEF Serving
  <1>6. ServedOnce'
    BY <1>3, <1>4, <1>5 DEF OutcomeInv, ServedOnce
  <1>7. SpentOnce'
    BY <1>2, <1>3, <1>4, SpentType DEF OutcomeInv, SpentOnce, ServedOnce
  <1> QED
    BY <1>2, <1>6, <1>7

LEMMA RegisterOutcome ==
    ASSUME TypeOK, TypeOK', OutcomeInv, NEW t \in Threads, Register(t)
    PROVE  OutcomeInv'
  <1>1. t \in Serving /\ Leave(t) /\ Key(t) \in Keys /\ Served(t) \in Challenges
        /\ UNCHANGED <<challenge, session>>
    BY ServingType DEF Register, Serving
  <1>2. /\ \A k \in Keys \ {Key(t)} : cred'[k] = cred[k]
        /\ cred'[Key(t)] = cred[Key(t)] \/ cred'[Key(t)].challenge = Served(t)
    BY <1>1 DEF Register, Served, TypeOK
  <1>3. Issues' = Issues
    BY <1>1 DEF Issues
  <1>4. /\ Enrolled' \subseteq Enrolled \cup {Key(t)}
        /\ \A k \in Enrolled' : \/ k \in Enrolled /\ cred'[k].challenge = cred[k].challenge
                                \/ k = Key(t) /\ cred'[k].challenge = Served(t)
    <2>1. DOMAIN cred = Keys /\ DOMAIN cred' = Keys
      BY DEF TypeOK
    <2>2. ASSUME NEW k \in Enrolled'
          PROVE  \/ k \in Enrolled /\ cred'[k].challenge = cred[k].challenge
                 \/ k = Key(t) /\ cred'[k].challenge = Served(t)
      <3>1. k \in Keys /\ cred'[k].challenge # None
        BY <2>1 DEF Enrolled
      <3>2. cred'[k] = cred[k] => k \in Enrolled
        BY <2>1, <3>1 DEF Enrolled
      <3> QED
        BY <1>2, <3>1, <3>2
    <2> QED
      BY <2>2
  <1>5. Spent' \subseteq Spent \cup {Served(t)}
    BY <1>1, <1>3, <1>4 DEF Spent
  <1>6. Served(t) \notin Spent /\ ServedOnce' /\ SpentOnce'
    BY <1>1, <1>5, SpendOutcome
  <1>7. \A k \in Enrolled : cred[k].challenge # Served(t)
    BY <1>6 DEF Spent
  <1>8. \A s \in Issues : session[s].challenge # Served(t)
    BY <1>6 DEF Spent
  <1>9. OneOutcomePerChallenge'
    BY <1>1, <1>3, <1>4, <1>7, <1>8 DEF OutcomeInv, OneOutcomePerChallenge
  <1> QED
    BY <1>1, <1>3, <1>6, <1>9 DEF OutcomeInv, IssuedInv

LEMMA CompleteOutcome ==
    ASSUME TypeOK, TypeOK', OutcomeInv, NEW t \in Threads, NEW s \in Sessions, Complete(t, s)
    PROVE  OutcomeInv'
  <1>1. t \in Serving /\ Leave(t) /\ Served(t) \in Challenges /\ UNCHANGED <<challenge, cred>>
    BY ServingType DEF Complete, Serving
  <1>2. /\ \A u \in Sessions \ {s} : session'[u] = session[u]
        /\ session'[s] = session[s] \/ session'[s].challenge = Served(t)
    BY <1>1 DEF Complete, Issued, Served, TypeOK
  <1>3. Enrolled' = Enrolled
    BY <1>1 DEF Enrolled
  <1>4. /\ Issues' \subseteq Issues \cup {s}
        /\ \A u \in Issues' : \/ u \in Issues /\ session'[u].challenge = session[u].challenge
                              \/ u = s /\ session'[u].challenge = Served(t)
    <2>1. DOMAIN session = Sessions /\ DOMAIN session' = Sessions
      BY DEF TypeOK
    <2>2. ASSUME NEW u \in Issues'
          PROVE  \/ u \in Issues /\ session'[u].challenge = session[u].challenge
                 \/ u = s /\ session'[u].challenge = Served(t)
      <3>1. u \in Sessions /\ session'[u].officer # None
        BY <2>1 DEF Issues
      <3>2. session'[u] = session[u] => u \in Issues
        BY <2>1, <3>1 DEF Issues
      <3> QED
        BY <1>2, <3>1, <3>2
    <2> QED
      BY <2>2
  <1>5. Spent' \subseteq Spent \cup {Served(t)}
    BY <1>1, <1>3, <1>4 DEF Spent
  <1>6. Served(t) \notin Spent /\ ServedOnce' /\ SpentOnce'
    BY <1>1, <1>5, SpendOutcome
  <1>7. \A k \in Enrolled : cred[k].challenge # Served(t)
    BY <1>6 DEF Spent
  <1>8. \A u \in Issues : session[u].challenge # Served(t)
    BY <1>6 DEF Spent
  <1>9. OneOutcomePerChallenge'
    BY <1>1, <1>3, <1>4, <1>7, <1>8 DEF OutcomeInv, OneOutcomePerChallenge
  <1>10. IssuedInv'
    BY <1>1, <1>4 DEF OutcomeInv, IssuedInv
  <1> QED
    BY <1>6, <1>9, <1>10 DEF OutcomeInv

\* Every other step neither claims nor gives anything.
LEMMA OtherOutcome ==
    ASSUME TypeOK, TypeOK', OutcomeInv,
           \/ \E c \in Challenges, o \in Officers : BeginEnrolment(c, o) \/ BeginLogin(c, o)
           \/ \E c \in Challenges, k \in Keys : Sign(c, k)
           \/ \E t \in Threads : Check(t) \/ Verify(t) \/ CommitCounter(t) \/ Die(t)
           \/ Recovery \/ Owner \/ Ends \/ UNCHANGED vars
    PROVE  OutcomeInv'
  <1>1. \A c \in Challenges : Claimed(c) => Claimed(c)'
    BY DEF BeginEnrolment, BeginLogin, Offer, Sign, Check, Verify, CommitCounter, Die, Recovery,
           FileRequest, Approve, Owner, Suspend, Withdraw, Revoke, Ends, TooLate, Logout, Lapse,
           vars, Claimed, TypeOK
  <1>2. \A t \in Serving' : t \in Serving /\ Served(t)' = Served(t)
    <2>1. ASSUME NEW t \in Threads, Check(t) \/ Verify(t) \/ CommitCounter(t) \/ Die(t)
          PROVE  \A u \in Serving' : u \in Serving /\ Served(u)' = Served(u)
      <3>1. t \in Serving
        BY <2>1 DEF Check, Verify, CommitCounter, Die, Serving, TypeOK, Handlers, Idle
      <3>2. /\ handler'[t] = Idle \/ handler'[t].response = handler[t].response
            /\ \A u \in Threads \ {t} : handler'[u] = handler[u]
        BY <2>1, StepType, LeaveType DEF Check, Verify, CommitCounter, Die
      <3> QED
        BY <3>1, <3>2 DEF Serving, Served, Idle
    <2>2. UNCHANGED handler => \A u \in Serving' : u \in Serving /\ Served(u)' = Served(u)
      BY DEF Serving, Served
    <2> QED
      BY <2>1, <2>2
      DEF BeginEnrolment, BeginLogin, Offer, Sign, Recovery, FileRequest, Approve, Owner, Suspend,
          Withdraw, Revoke, Ends, TooLate, Logout, Lapse, vars
  <1>3. \A k \in Keys : cred'[k].challenge = cred[k].challenge
    <2>1. ASSUME NEW t \in Threads, CommitCounter(t)
          PROVE  \A k \in Keys : cred'[k].challenge = cred[k].challenge
      BY <2>1 DEF CommitCounter, TypeOK, Credentials
    <2>2. ASSUME NEW l \in Keys, Revoke(l)
          PROVE  \A k \in Keys : cred'[k].challenge = cred[k].challenge
      BY <2>2 DEF Revoke, TypeOK, Credentials
    <2> QED
      BY <2>1, <2>2
      DEF BeginEnrolment, BeginLogin, Offer, Sign, Check, Verify, Die, Recovery, FileRequest,
          Approve, Owner, Suspend, Withdraw, Ends, TooLate, Logout, Lapse, vars
  <1>4. \A s \in Sessions : /\ session'[s].officer = session[s].officer
                            /\ session'[s].challenge = session[s].challenge
    <2>1. ASSUME NEW u \in Sessions, Logout(u) \/ Lapse(u)
          PROVE  \A s \in Sessions : /\ session'[s].officer = session[s].officer
                                     /\ session'[s].challenge = session[s].challenge
      BY <2>1 DEF Logout, Lapse, TypeOK, Held
    <2> QED
      BY <2>1
      DEF BeginEnrolment, BeginLogin, Offer, Sign, Check, Verify, CommitCounter, Die, Recovery,
          FileRequest, Approve, Owner, Suspend, Withdraw, Revoke, Ends, TooLate, vars
  <1> QED
    BY <1>1, <1>2, <1>3, <1>4, OutcomeFrame

LEMMA NextOutcome == ASSUME TypeOK, OutcomeInv, [Next]_vars PROVE OutcomeInv'
  <1>1. TypeOK'
    BY NextType
  <1> QED
    BY <1>1, ClaimOutcome, RegisterOutcome, CompleteOutcome, OtherOutcome DEF Next, Ceremony, Serve

-----------------------------------------------------------------------------
(* Which steps change keys, and which sessions.                            *)

LEMMA CredChanges ==
    ASSUME [Next]_vars
    PROVE  \/ \E t \in Threads : Register(t) \/ CommitCounter(t)
           \/ \E l \in Keys : Revoke(l)
           \/ UNCHANGED cred
  BY DEF Next, Ceremony, BeginEnrolment, BeginLogin, Offer, Sign, Claim, Recovery, FileRequest,
         Approve, Owner, Suspend, Withdraw, Ends, TooLate, Logout, Lapse, Serve, Check, Verify,
         Complete, Die, vars

LEMMA SessionChanges ==
    ASSUME [Next]_vars
    PROVE  \/ \E t \in Threads, s \in Sessions : Complete(t, s)
           \/ \E s \in Sessions : Logout(s) \/ Lapse(s)
           \/ UNCHANGED session
  BY DEF Next, Ceremony, BeginEnrolment, BeginLogin, Offer, Sign, Claim, Recovery, FileRequest,
         Approve, Owner, Suspend, Withdraw, Revoke, Ends, TooLate, Serve, Check, Register, Verify,
         CommitCounter, Die, vars

-----------------------------------------------------------------------------
(* Approvals and live sessions.                                            *)

LEMMA NextApproved == ASSUME TypeOK, ApprovedInv, [Next]_vars PROVE ApprovedInv'
  <1>1. ASSUME NEW o \in Officers, NEW p \in Officers, FileRequest(o, p)
        PROVE  ApprovedInv'
    BY <1>1 DEF FileRequest, ApprovedInv
  <1>2. ASSUME NEW o \in Officers, NEW s \in Sessions, Approve(o, s)
        PROVE  ApprovedInv'
    <2> DEFINE new == [officer |-> o, session |-> s]
    <2>1. approvals' = approvals \cup {new} /\ UNCHANGED request
      BY <1>2 DEF Approve
    <2>2. IsFiniteSet(approvals')
      BY <2>1, FS_AddElement DEF ApprovedInv
    <2>3. o \notin {request.subject, request.requester} /\ request.status = "pending"
          /\ \A a \in approvals : a.officer # o
      BY <1>2 DEF Approve
    <2> QED
      BY <2>1, <2>2, <2>3 DEF ApprovedInv
  <1>3. CASE TooLate
    <2>1. /\ UNCHANGED approvals
          /\ \/ UNCHANGED request
             \/ request.status # "none" /\ request' = [request EXCEPT !.status = "expired"]
      BY <1>3 DEF TooLate
    <2>2. request'.subject = request.subject /\ request'.requester = request.requester
          /\ (request'.status = "none" => request.status = "none")
      BY <2>1 DEF TypeOK
    <2> QED
      BY <2>1, <2>2 DEF ApprovedInv
  <1>4. CASE UNCHANGED <<request, approvals>>
    BY <1>4 DEF ApprovedInv
  <1> QED
    BY <1>1, <1>2, <1>3, <1>4
    DEF Next, Ceremony, BeginEnrolment, BeginLogin, Offer, Sign, Claim, Recovery, Owner, Suspend,
        Withdraw, Revoke, Ends, Logout, Lapse, Serve, Check, Register, Verify, CommitCounter,
        Complete, Die, vars, recovery

LEMMA NextLive == ASSUME TypeOK, LiveInv, [Next]_vars PROVE LiveInv'
  <1>1. ASSUME NEW t \in Threads, NEW s \in Sessions, Complete(t, s)
        PROVE  LiveInv'
    BY <1>1 DEF Complete, Issued, LiveInv, TypeOK
  <1>2. ASSUME NEW s \in Sessions, Logout(s) \/ Lapse(s)
        PROVE  LiveInv'
    <2>1. session'[s].mfa = "ended" /\ \A u \in Sessions \ {s} : session'[u] = session[u]
      BY <1>2 DEF Logout, Lapse, TypeOK, Held
    <2> QED
      BY <2>1 DEF LiveInv
  <1>3. CASE UNCHANGED session
    BY <1>3 DEF LiveInv
  <1> QED
    BY <1>1, <1>2, <1>3, SessionChanges

-----------------------------------------------------------------------------
(* The invariant, and what it is for.                                      *)

LEMMA InitInv == Init => IInv
  <1> SUFFICES ASSUME Init PROVE IInv
    OBVIOUS
  <1>1. TypeOK
    BY InitType
  <1>2. Serving = {} /\ Enrolled = {} /\ Issues = {} /\ Spent = {}
    BY DEF Init, Idle, Serving, Enrolled, Issues, Spent
  <1>3. OutcomeInv
    BY <1>2 DEF OutcomeInv, ServedOnce, SpentOnce, IssuedInv, OneOutcomePerChallenge
  <1>4. ApprovedInv /\ LiveInv
    BY FS_EmptySet DEF Init, ApprovedInv, LiveInv
  <1> QED
    BY <1>1, <1>3, <1>4 DEF IInv

LEMMA NextInv == IInv /\ [Next]_vars => IInv'
  BY NextType, NextOutcome, NextApproved, NextLive DEF IInv

\* The invariant the results rest on.
THEOREM Invariance == Spec => []IInv
  BY InitInv, NextInv, PTL DEF Spec

\* Whatever is sent again and whoever serves it, a challenge makes at most one
\* key or one session (claim_webauthn_challenge).
THEOREM OneOutcome == Spec => []OneOutcomePerChallenge
  <1>1. IInv => OneOutcomePerChallenge
    BY DEF IInv, OutcomeInv
  <1> QED
    BY <1>1, Invariance, PTL

\* However logins overlap, the stored count of a key never goes back
\* (commit_webauthn_counter).
THEOREM CountsRise == Spec => CountsGoUp
  <1>1. ASSUME TypeOK, [Next]_vars, NEW k \in DOMAIN cred, cred'[k].officer = cred[k].officer
        PROVE  cred'[k].count >= cred[k].count
    <2>1. k \in Keys /\ cred[k] \in Credentials /\ cred[k].count \in Nat
      BY <1>1, ConstantAssumption DEF TypeOK, Credentials, Sensible
    <2>2. ASSUME NEW t \in Threads, Register(t)
          PROVE  cred'[k].count = cred[k].count
      <3>1. CASE cred'[k] = cred[k]
        BY <3>1
      <3>2. CASE cred'[k] # cred[k]
        <4>1. k = Key(t) /\ cred[k].officer = None /\ CanEnrol(Subject(t))
              /\ cred'[k].officer = Subject(t)
          BY <1>1, <2>1, <2>2, <3>2 DEF Register, TypeOK
        <4> QED
          BY <1>1, <4>1, ConstantAssumption DEF CanEnrol, TypeOK, Sensible
      <3> QED
        BY <3>1, <3>2
    <2>3. ASSUME NEW t \in Threads, CommitCounter(t)
          PROVE  cred'[k].count >= cred[k].count
      <3>1. CASE cred'[k] = cred[k]
        BY <2>1, <3>1
      <3>2. CASE cred'[k] # cred[k]
        <4>1. /\ k = Key(t) /\ cred'[k].count = Count(t)
              /\ CountsOn(Count(t), cred[k].count)
          BY <1>1, <2>1, <2>3, <3>2 DEF CommitCounter, TypeOK, Credentials
        <4>2. Count(t) \in Nat
          BY <1>1, <2>3, ServingType, ConstantAssumption DEF CommitCounter, Sensible
        <4> QED
          BY <2>1, <4>1, <4>2 DEF CountsOn
      <3> QED
        BY <3>1, <3>2
    <2>4. ASSUME NEW l \in Keys, Revoke(l)
          PROVE  cred'[k].count = cred[k].count
      BY <1>1, <2>1, <2>4 DEF Revoke, TypeOK, Credentials
    <2>5. UNCHANGED cred => cred'[k].count >= cred[k].count
      BY <2>1
    <2> QED
      BY <1>1, <2>1, <2>2, <2>3, <2>4, <2>5, CredChanges
  <1>2. TypeOK /\ [Next]_vars =>
          [\A k \in DOMAIN cred :
             cred'[k].officer = cred[k].officer => cred'[k].count >= cred[k].count]_vars
    BY <1>1
  <1> QED
    BY <1>2, TypeCorrect, PTL DEF Spec, CountsGoUp

\* Two approvals that count are by two others who hold the permission and a
\* live second factor.
LEMMA ReadyMeansTwo ==
    ASSUME IInv, Ready
    PROVE  \E a, b \in approvals :
             /\ a.officer # b.officer
             /\ \A x \in {a, b} :
                  x.officer \notin {request.subject, request.requester}
                    /\ Current(x) /\ session[x.session].api # "revoked"
  <1> DEFINE S == {a \in approvals : Current(a)}
  <1>1. IsFiniteSet(S) /\ Cardinality(S) \in Nat /\ Cardinality(S) >= 2
    BY FS_Subset, FS_CardinalityType DEF IInv, ApprovedInv, Ready
  <1>2. S # {}
    BY <1>1, FS_EmptySet
  <1>3. PICK a \in S : TRUE
    BY <1>2
  <1>4. S # {a}
    BY <1>1, FS_Singleton
  <1>5. PICK b \in S : b # a
    BY <1>3, <1>4
  <1>6. ASSUME NEW x \in S
        PROVE  x.officer \notin {request.subject, request.requester}
                 /\ Current(x) /\ session[x.session].api # "revoked"
    BY DEF IInv, TypeOK, ApprovedInv, LiveInv, Current
  <1>7. a.officer # b.officer
    BY <1>3, <1>5 DEF IInv, ApprovedInv
  <1> QED
    BY <1>3, <1>5, <1>6, <1>7

\* Keys and sessions come to those who may have them, whatever is withdrawn
\* between the steps of the ceremony (register_verified_webauthn_credential,
\* complete_verified_webauthn_login).
THEOREM RightfulOnly == Spec => OnlyTheRightful
  <1>1. ASSUME IInv, [Next]_vars, NEW k \in DOMAIN cred
        PROVE  EnrolledByTwo(k)
    <2> SUFFICES ASSUME cred[k].officer = None, cred'[k].officer # None
                 PROVE  /\ cred'[k].officer \in active
                        /\ Ready
      BY <1>1, ReadyMeansTwo DEF EnrolledByTwo
    <2>1. k \in Keys /\ cred[k] \in Credentials /\ cred'[k] # cred[k]
      BY <1>1 DEF IInv, TypeOK
    <2>2. ASSUME NEW t \in Threads, Register(t)
          PROVE  cred'[k].officer \in active /\ Ready
      BY <1>1, <2>1, <2>2 DEF Register, CanEnrol, IInv, TypeOK
    <2>3. ASSUME NEW t \in Threads, CommitCounter(t)
          PROVE  cred'[k].officer = cred[k].officer
      BY <1>1, <2>1, <2>3 DEF CommitCounter, IInv, TypeOK, Credentials
    <2>4. ASSUME NEW l \in Keys, Revoke(l)
          PROVE  cred'[k].officer = cred[k].officer
      BY <1>1, <2>1, <2>4 DEF Revoke, IInv, TypeOK, Credentials
    <2> QED
      BY <1>1, <2>1, <2>2, <2>3, <2>4, CredChanges
  <1>2. ASSUME IInv, [Next]_vars, NEW s \in DOMAIN session
        PROVE  IssuedToTheRightful(s)
    <2> SUFFICES ASSUME session[s].officer = None, session'[s].officer # None
                 PROVE  /\ session'[s].officer \in active
                        /\ cred[session'[s].key].officer = session'[s].officer
                        /\ ~cred[session'[s].key].revoked
      BY DEF IssuedToTheRightful
    <2>1. s \in Sessions /\ session[s] \in Held /\ session'[s] # session[s]
      BY <1>2 DEF IInv, TypeOK
    <2>2. ASSUME NEW t \in Threads, NEW u \in Sessions, Complete(t, u)
          PROVE  /\ session'[s].officer \in active
                 /\ cred[session'[s].key].officer = session'[s].officer
                 /\ ~cred[session'[s].key].revoked
      <3>1. session'[s] = Issued(t) /\ Key(t) \in Owned(Subject(t)) /\ Subject(t) \in active
        BY <1>2, <2>1, <2>2 DEF Complete, IInv, TypeOK
      <3>2. session'[s].officer = Subject(t) /\ session'[s].key = Key(t)
        BY <3>1 DEF Issued
      <3>3. cred[Key(t)].officer = Subject(t) /\ ~cred[Key(t)].revoked
        BY <3>1 DEF Owned
      <3> QED
        BY <3>1, <3>2, <3>3
    <2>3. ASSUME NEW u \in Sessions, Logout(u) \/ Lapse(u)
          PROVE  session'[s].officer = session[s].officer
      BY <1>2, <2>1, <2>3 DEF Logout, Lapse, IInv, TypeOK, Held
    <2> QED
      BY <1>2, <2>1, <2>2, <2>3, SessionChanges
  <1>3. IInv /\ [Next]_vars =>
          [/\ \A k \in DOMAIN cred : EnrolledByTwo(k)
           /\ \A s \in DOMAIN session : IssuedToTheRightful(s)]_vars
    BY <1>1, <1>2
  <1> QED
    BY <1>3, Invariance, PTL DEF Spec, OnlyTheRightful

-----------------------------------------------------------------------------
(* TotpReplay.                                                             *)

\* What was stored is not below what was accepted.
StoredBounds == \A f \in Storers : \A i \in DOMAIN accepted[f] : accepted[f][i] <= stored[f]

CodeIInv == CodeTypeOK /\ StoredBounds /\ AcceptedGoesUp

\* A step appended above the bound of a rising sequence leaves it rising.
LEMMA RisingAppend ==
    ASSUME NEW S, S \subseteq Int, NEW s \in Seq(S), NEW b \in Int, NEW x \in S, b < x,
           \A i \in DOMAIN s : s[i] <= b,
           \A i, j \in DOMAIN s : i < j => s[i] < s[j]
    PROVE  /\ \A i \in DOMAIN Append(s, x) : Append(s, x)[i] <= x
           /\ \A i, j \in DOMAIN Append(s, x) : i < j => Append(s, x)[i] < Append(s, x)[j]
<1>1. \A i \in DOMAIN s : s[i] \in Int
    <2>1. \A i \in DOMAIN s : s[i] \in S
        OBVIOUS
    <2> QED
        BY <2>1
<1>2. DOMAIN Append(s, x) = 1..(Len(s) + 1) /\ DOMAIN s = 1..Len(s) /\ Len(s) \in Nat
    OBVIOUS
<1>3. Append(s, x)[Len(s) + 1] = x /\ \A i \in DOMAIN s : Append(s, x)[i] = s[i]
    OBVIOUS
<1> x \in Int
    OBVIOUS
<1>4. \A i \in DOMAIN Append(s, x) : i \in DOMAIN s \/ i = Len(s) + 1
    BY <1>2
<1>5. \A i \in DOMAIN s : s[i] < x
    BY <1>1
<1>6. ASSUME NEW i \in DOMAIN Append(s, x)
      PROVE  Append(s, x)[i] <= x
    BY <1>3, <1>4, <1>5, <1>1
<1>7. ASSUME NEW i \in DOMAIN Append(s, x), NEW j \in DOMAIN Append(s, x), i < j
      PROVE  Append(s, x)[i] < Append(s, x)[j]
    <2>1. i \in DOMAIN s
        BY <1>2, <1>7
    <2>2. CASE j \in DOMAIN s
        BY <2>1, <2>2, <1>3, <1>7
    <2>3. CASE j = Len(s) + 1
        BY <2>1, <2>3, <1>3, <1>5
    <2> QED
        BY <2>2, <2>3, <1>4
<1> QED
    BY <1>6, <1>7

\* The initial state satisfies the invariant.
LEMMA CodeInitInv == CodeInit => CodeIInv
BY ParameterAssumption DEF CodeInit, CodeIInv, CodeTypeOK, StoredBounds, AcceptedGoesUp, Storers, Steps, Places

\* A store above the last step keeps the invariant.
LEMMA StoreInv ==
    ASSUME CodeIInv, NEW l \in Logins, NEW f \in Storers, Store(l, f), stored[f] < login[l].code,
           UNCHANGED <<clock, accountActive>>
    PROVE  CodeIInv'
<1> DEFINE c == login[l].code
<1>1. c \in Steps /\ Steps \subseteq Int /\ stored[f] \in Int /\ accepted[f] \in Seq(Steps)
    BY ParameterAssumption DEF CodeIInv, CodeTypeOK, Steps
<1>2. /\ \A i \in DOMAIN Append(accepted[f], c) : Append(accepted[f], c)[i] <= c
      /\ \A i, j \in DOMAIN Append(accepted[f], c) : i < j => Append(accepted[f], c)[i] < Append(accepted[f], c)[j]
    <2>1. c \in Steps /\ stored[f] < c
        BY <1>1
    <2>2. \A i \in DOMAIN accepted[f] : accepted[f][i] <= stored[f]
        BY DEF CodeIInv, StoredBounds
    <2>3. \A i, j \in DOMAIN accepted[f] : i < j => accepted[f][i] < accepted[f][j]
        BY DEF CodeIInv, AcceptedGoesUp
    <2> HIDE DEF c
    <2> QED
        BY <1>1, <2>1, <2>2, <2>3, RisingAppend
<1>3. Append(accepted[f], c) \in Seq(Steps)
    BY <1>1
<1>4. /\ accepted' = [accepted EXCEPT ![f] = Append(accepted[f], c)]
      /\ stored' = [stored EXCEPT ![f] = c]
      /\ login' = [login EXCEPT ![l].at = "accepted"]
    BY DEF Store, Move
<1>5. CodeTypeOK'
    BY <1>1, <1>3, <1>4 DEF CodeIInv, CodeTypeOK, Places
<1>6. accepted'[f] = Append(accepted[f], c) /\ stored'[f] = c
    BY <1>4 DEF CodeIInv, CodeTypeOK
<1>7. \A g \in Storers \ {f} : accepted'[g] = accepted[g] /\ stored'[g] = stored[g]
    BY <1>4 DEF CodeIInv, CodeTypeOK
<1> HIDE DEF c
<1>8. StoredBounds'
    BY <1>2, <1>6, <1>7 DEF CodeIInv, StoredBounds
<1>9. AcceptedGoesUp'
    BY <1>2, <1>6, <1>7 DEF CodeIInv, AcceptedGoesUp
<1> QED
    BY <1>5, <1>8, <1>9 DEF CodeIInv

\* A step that stores nothing keeps the invariant, if it keeps the types.
LEMMA CodeQuietInv ==
    ASSUME CodeIInv, UNCHANGED <<stored, accepted>>, CodeTypeOK'
    PROVE  CodeIInv'
BY DEF CodeIInv, StoredBounds, AcceptedGoesUp

\* Moving an attempt to another place keeps the types.
LEMMA CodeMoveInv ==
    ASSUME CodeIInv, NEW l \in Logins, NEW place \in Places, Move(l, place), UNCHANGED <<clock, stored, accountActive, accepted>>
    PROVE  CodeIInv'
<1>1. CodeTypeOK'
    BY DEF CodeIInv, CodeTypeOK, Move
<1> QED
    BY <1>1, CodeQuietInv

\* Every step keeps the invariant.
LEMMA CodeStepInv == CodeIInv /\ [CodeNext]_codeVars => CodeIInv'
<1> SUFFICES ASSUME CodeIInv, [CodeNext]_codeVars PROVE CodeIInv'
    OBVIOUS
<1>1. CASE Tick
    <2>1. CodeTypeOK'
        BY <1>1, ParameterAssumption DEF CodeIInv, CodeTypeOK, Tick
    <2> QED
        BY <1>1, <2>1, CodeQuietInv DEF Tick
<1>2. CASE SuspendAccount
    <2>1. CodeTypeOK'
        BY <1>2 DEF CodeIInv, CodeTypeOK, SuspendAccount
    <2> QED
        BY <1>2, <2>1, CodeQuietInv DEF SuspendAccount
<1>3. ASSUME NEW l \in Logins, VerifyTotp(l) PROVE CodeIInv'
    BY <1>3, CodeMoveInv DEF VerifyTotp, Places
<1>4. ASSUME NEW l \in Logins, Consume(l) PROVE CodeIInv'
    <2>1. CASE accountActive /\ stored["consume"] < login[l].code
        BY <1>4, <2>1, StoreInv DEF Consume, Storers
    <2>2. CASE ~(accountActive /\ stored["consume"] < login[l].code)
        BY <1>4, <2>2, CodeMoveInv DEF Consume, Refuse, Places
    <2> QED
        BY <2>1, <2>2
<1>5. ASSUME NEW l \in Logins, CheckAccount(l) PROVE CodeIInv'
    BY <1>5, CodeMoveInv DEF CheckAccount, Places
<1>6. ASSUME NEW l \in Logins, InsertStep(l) PROVE CodeIInv'
    <2>1. CASE stored["claim"] < login[l].code
        BY <1>6, <2>1, StoreInv DEF InsertStep, Storers
    <2>2. CASE ~(stored["claim"] < login[l].code)
        BY <1>6, <2>2, CodeMoveInv DEF InsertStep, Refuse, Places
    <2> QED
        BY <2>1, <2>2
<1>7. ASSUME NEW l \in Logins, NEW f \in Storers, NEW step \in Steps, Type(l, f, step) PROVE CodeIInv'
    <2>1. CodeTypeOK'
        BY <1>7 DEF CodeIInv, CodeTypeOK, Type, Places
    <2> QED
        BY <1>7, <2>1, CodeQuietInv DEF Type
<1>8. CASE UNCHANGED codeVars
    <2>1. CodeTypeOK'
        BY <1>8 DEF CodeIInv, CodeTypeOK, codeVars
    <2> QED
        BY <1>8, <2>1, CodeQuietInv DEF codeVars
<1> QED
    BY <1>1, <1>2, <1>3, <1>4, <1>5, <1>6, <1>7, <1>8 DEF CodeNext

\* However attempts overlap, the steps either function accepts go up strictly
\* (totp.py:5): no code is accepted twice by it, nor one older than the last.
THEOREM AcceptedRises == CodeSpec => []AcceptedGoesUp
<1>1. CodeIInv => AcceptedGoesUp
    BY DEF CodeIInv
<1> QED
    BY <1>1, CodeInitInv, CodeStepInv, PTL DEF CodeSpec
=============================================================================
