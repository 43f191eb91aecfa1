------------------------------ MODULE ClubAuth ------------------------------
(***************************************************************************)
(* Security keys and sessions of the club's officers: the WebAuthn         *)
(* ceremonies (webauthn_flow.py), their store in PostgreSQL                *)
(* (pg_webauthn_store.py, migrations 015, 017-019, 021, 022) and the       *)
(* controller that turns a verified login into a session.  Every call of   *)
(* the store is a transaction of its own, so that suspensions, revocations *)
(* and other requests come in between two calls of one ceremony.           *)
(*                                                                         *)
(* External: signatures are valid, the browser may send a response again,  *)
(* authenticators count their signatures or always say zero, the database  *)
(* owner suspends, grants and revokes.  Time limits are expiries that may  *)
(* come at any moment.                                                     *)
(***************************************************************************)
EXTENDS Naturals, FiniteSets

CONSTANTS
    Officers,
    Keys,        \* security keys
    Counting,    \* those that count
    Founders,    \* [Officers -> SUBSET Keys]: keys enrolled before
    Challenges,  \* challenge ids
    Sessions,    \* session ids
    Threads,     \* requests served at a time
    MaxCount,    \* bound: signatures of a key
    Budget       \* bound: how often each kind of event may happen

Events == {"suspend", "withdraw", "revoke", "logout", "lapse", "late", "die"}

None == "none"

\* What the constants of an instance are.
Sensible ==
    /\ MaxCount \in Nat /\ Budget \in [Events -> Nat]
    /\ None \notin Officers
    /\ Counting \subseteq Keys /\ Founders \in [Officers -> SUBSET Keys]
ASSUME ConstantAssumption == Sensible

Purposes == {"register", "authenticate"}
Offered == [state : {"unused", "open", "claimed", "expired"}, officer : Officers \cup {None}, purpose : Purposes]
Credentials == [officer : Officers \cup {None}, count : 0..MaxCount, revoked : BOOLEAN, challenge : Challenges \cup {None}]
Responses == [challenge : Challenges, key : Keys, count : 0..MaxCount]
Held == [officer : Officers \cup {None}, key : Keys \cup {None}, count : 0..MaxCount, challenge : Challenges \cup {None},
         mfa : {"none", "live", "ended"}, api : {"none", "live", "revoked"}]
Idle == [pc |-> "idle"]
Handlers == {Idle} \cup [pc : {"claimed", "checked", "verified", "committed"}, response : Responses]

VARIABLES
    active,     \* officers whose account is active
    granted,    \* officers who may approve a recovery
    challenge,  \* officer_webauthn_challenges
    cred,       \* officer_webauthn_credentials
    device,     \* what each key has counted
    signed,     \* responses a browser has
    session,    \* officer_mfa_sessions with their officer_api_sessions
    request,    \* the recovery request: subject, requester, status
    approvals,  \* security_change_approvals
    handler,    \* where each thread is
    budget      \* events left

accounts == <<active, granted>>
recovery == <<request, approvals>>
vars == <<accounts, challenge, cred, device, signed, session, recovery, handler, budget>>

Owned(o) == {k \in Keys : cred[k].officer = o /\ ~cred[k].revoked}
Spend(e) == budget[e] > 0 /\ budget' = [budget EXCEPT ![e] = @ - 1]

Init ==
    /\ active = Officers /\ granted = Officers
    /\ challenge = [c \in Challenges |-> [state |-> "unused", officer |-> None, purpose |-> "register"]]
    /\ cred = [k \in Keys |-> [officer |-> IF \E o \in Officers : k \in Founders[o] THEN CHOOSE o \in Officers : k \in Founders[o] ELSE None,
                               count |-> 0, revoked |-> FALSE, challenge |-> None]]
    /\ device = [k \in Keys |-> 0] /\ signed = {}
    /\ session = [s \in Sessions |-> [officer |-> None, key |-> None, count |-> 0, challenge |-> None, mfa |-> "none", api |-> "none"]]
    /\ request = [subject |-> None, requester |-> None, status |-> "none"] /\ approvals = {}
    /\ handler = [t \in Threads |-> Idle] /\ budget = Budget

-----------------------------------------------------------------------------
(* Recovery needs two approvals which are current when they are used.      *)

FileRequest(subject, requester) ==
    /\ request.status = "none"
    /\ request' = [subject |-> subject, requester |-> requester, status |-> "pending"]
    /\ UNCHANGED <<accounts, challenge, cred, device, signed, session, approvals, handler, budget>>

May(o) == o \in active /\ o \in granted

\* The insert trigger; one approval for an officer and for a session.
Approve(o, s) ==
    /\ request.status = "pending" /\ o \notin {request.subject, request.requester}
    /\ session[s].officer = o /\ session[s].mfa = "live" /\ May(o)
    /\ ~\E a \in approvals : a.officer = o \/ a.session = s
    /\ approvals' = approvals \cup {[officer |-> o, session |-> s]}
    /\ UNCHANGED <<accounts, challenge, cred, device, signed, session, request, handler, budget>>

Current(a) == session[a.session].mfa = "live" /\ May(a.officer)

\* security_change_ready.
Ready == request.status = "pending" /\ Cardinality({a \in approvals : Current(a)}) >= 2

CanEnrol(o) == o \in active /\ o = request.subject /\ Ready

-----------------------------------------------------------------------------
(* The ceremonies.                                                         *)

Offer(c, o, purpose) ==
    /\ challenge[c].state = "unused"
    /\ challenge' = [challenge EXCEPT ![c] = [state |-> "open", officer |-> o, purpose |-> purpose]]
    /\ UNCHANGED <<accounts, cred, device, signed, session, recovery, handler, budget>>

BeginEnrolment(c, o) == CanEnrol(o) /\ Offer(c, o, "register")
BeginLogin(c, o) == o \in active /\ Owned(o) # {} /\ Offer(c, o, "authenticate")

\* The officer's key signs; a key that is registered is not registered again.
Sign(c, k) ==
    /\ challenge[c].state # "unused" /\ ~\E r \in signed : r.challenge = c
    /\ IF challenge[c].purpose = "register" THEN cred[k].officer = None ELSE cred[k].officer = challenge[c].officer
    /\ k \in Counting => device[k] < MaxCount
    /\ device' = IF k \in Counting THEN [device EXCEPT ![k] = @ + 1] ELSE device
    /\ signed' = signed \cup {[challenge |-> c, key |-> k, count |-> device'[k]]}
    /\ UNCHANGED <<accounts, challenge, cred, session, recovery, handler, budget>>

Step(t, from, to) == handler[t].pc = from /\ handler' = [handler EXCEPT ![t].pc = to]
Leave(t) == handler' = [handler EXCEPT ![t] = Idle]
Subject(t) == challenge[handler[t].response.challenge].officer
Key(t) == handler[t].response.key
Count(t) == handler[t].response.count
Purpose(t) == challenge[handler[t].response.challenge].purpose

\* Mutant: the challenge is looked up and not consumed.
ClaimKeeping(t, r) ==
    /\ handler[t] = Idle /\ r \in signed /\ challenge[r.challenge].state = "open"
    /\ handler' = [handler EXCEPT ![t] = [pc |-> "claimed", response |-> r]]
    /\ UNCHANGED <<accounts, challenge, cred, device, signed, session, recovery, budget>>

\* One statement; a challenge that is not open is refused and nothing changes.
Claim(t, r) ==
    /\ handler[t] = Idle /\ r \in signed /\ challenge[r.challenge].state = "open"
    /\ challenge' = [challenge EXCEPT ![r.challenge].state = "claimed"]
    /\ handler' = [handler EXCEPT ![t] = [pc |-> "claimed", response |-> r]]
    /\ UNCHANGED <<accounts, cred, device, signed, session, recovery, budget>>

\* The account is looked at after the challenge is consumed.
Check(t) ==
    /\ handler[t].pc = "claimed"
    /\ IF (IF Purpose(t) = "register" THEN CanEnrol(Subject(t)) ELSE Subject(t) \in active)
       THEN Step(t, "claimed", "checked") ELSE Leave(t)
    /\ UNCHANGED <<accounts, challenge, cred, device, signed, session, recovery, budget>>

Register(t) ==
    /\ handler[t].pc = "checked" /\ Purpose(t) = "register" /\ Leave(t)
    /\ IF CanEnrol(Subject(t)) /\ cred[Key(t)].officer = None
       THEN cred' = [cred EXCEPT ![Key(t)] = [officer |-> Subject(t), count |-> Count(t), revoked |-> FALSE,
                                              challenge |-> handler[t].response.challenge]]
       ELSE UNCHANGED cred
    /\ UNCHANGED <<accounts, challenge, device, signed, session, recovery, budget>>

\* The key is among those stored and has counted on, or has never counted.
CountsOn(new, old) == new > old \/ (new = 0 /\ old = 0)

Verify(t) ==
    /\ handler[t].pc = "checked" /\ Purpose(t) = "authenticate"
    /\ IF Key(t) \in Owned(Subject(t)) /\ Subject(t) \in active /\ CountsOn(Count(t), cred[Key(t)].count)
       THEN Step(t, "checked", "verified") ELSE Leave(t)
    /\ UNCHANGED <<accounts, challenge, cred, device, signed, session, recovery, budget>>

\* Mutant: the verified count is stored without another look.
CommitBlindly(t) ==
    /\ handler[t].pc = "verified"
    /\ IF Key(t) \in Owned(Subject(t)) /\ Subject(t) \in active
       THEN cred' = [cred EXCEPT ![Key(t)].count = Count(t)] /\ Step(t, "verified", "committed")
       ELSE UNCHANGED cred /\ Leave(t)
    /\ UNCHANGED <<accounts, challenge, device, signed, session, recovery, budget>>

CommitCounter(t) ==
    /\ handler[t].pc = "verified"
    /\ IF Key(t) \in Owned(Subject(t)) /\ Subject(t) \in active /\ CountsOn(Count(t), cred[Key(t)].count)
       THEN cred' = [cred EXCEPT ![Key(t)].count = Count(t)] /\ Step(t, "verified", "committed")
       ELSE UNCHANGED cred /\ Leave(t)
    /\ UNCHANGED <<accounts, challenge, device, signed, session, recovery, budget>>

Issued(t) == [officer |-> Subject(t), key |-> Key(t), count |-> Count(t),
              challenge |-> handler[t].response.challenge, mfa |-> "live", api |-> "live"]

\* Mutant: the key is not looked at again.
CompleteForOfficer(t, s) ==
    /\ handler[t].pc = "committed" /\ session[s].officer = None /\ Leave(t)
    /\ session' = IF Subject(t) \in active THEN [session EXCEPT ![s] = Issued(t)] ELSE session
    /\ UNCHANGED <<accounts, challenge, cred, device, signed, recovery, budget>>

\* complete_verified_webauthn_login: both sessions in one transaction, or none.
Complete(t, s) ==
    /\ handler[t].pc = "committed" /\ session[s].officer = None /\ Leave(t)
    /\ session' = IF Key(t) \in Owned(Subject(t)) /\ Subject(t) \in active
                  THEN [session EXCEPT ![s] = Issued(t)] ELSE session
    /\ UNCHANGED <<accounts, challenge, cred, device, signed, recovery, budget>>

Die(t) ==
    /\ handler[t] # Idle /\ Spend("die") /\ Leave(t)
    /\ UNCHANGED <<accounts, challenge, cred, device, signed, session, recovery>>

-----------------------------------------------------------------------------
(* The ends of sessions, challenges and requests; the database owner.      *)

\* revoke_verified_beta_token.
Logout(s) ==
    /\ session[s].api = "live" /\ Spend("logout")
    /\ session' = [session EXCEPT ![s].api = "revoked", ![s].mfa = "ended"]
    /\ UNCHANGED <<accounts, challenge, cred, device, signed, recovery, handler>>

Lapse(s) ==
    /\ session[s].mfa = "live" /\ Spend("lapse")
    /\ session' = [session EXCEPT ![s].mfa = "ended"]
    /\ UNCHANGED <<accounts, challenge, cred, device, signed, recovery, handler>>

\* Five minutes, and a day.
TooLate ==
    /\ Spend("late")
    /\ \/ /\ \E c \in Challenges : challenge[c].state = "open" /\ challenge' = [challenge EXCEPT ![c].state = "expired"]
          /\ UNCHANGED request
       \/ /\ request.status = "pending" /\ request' = [request EXCEPT !.status = "expired"]
          /\ UNCHANGED challenge
    /\ UNCHANGED <<accounts, cred, device, signed, session, approvals, handler>>

Suspend(o) ==
    /\ Spend("suspend") /\ active' = IF o \in active THEN active \ {o} ELSE active \cup {o}
    /\ UNCHANGED <<granted, challenge, cred, device, signed, session, recovery, handler>>

Withdraw(o) ==
    /\ Spend("withdraw") /\ o \in granted /\ granted' = granted \ {o}
    /\ UNCHANGED <<active, challenge, cred, device, signed, session, recovery, handler>>

Revoke(k) ==
    /\ Spend("revoke") /\ cred[k].officer # None /\ ~cred[k].revoked
    /\ cred' = [cred EXCEPT ![k].revoked = TRUE]
    /\ UNCHANGED <<accounts, challenge, device, signed, session, recovery, handler>>

-----------------------------------------------------------------------------
Ceremony ==
    \/ \E c \in Challenges, o \in Officers : BeginEnrolment(c, o) \/ BeginLogin(c, o)
    \/ \E c \in Challenges, k \in Keys : Sign(c, k)
    \/ \E t \in Threads, r \in signed : Claim(t, r)

Serve(t) ==
    \/ Check(t) \/ Register(t) \/ Verify(t) \/ CommitCounter(t)
    \/ \E s \in Sessions : Complete(t, s)

Recovery ==
    \/ \E o, p \in Officers : FileRequest(o, p)
    \/ \E o \in Officers, s \in Sessions : Approve(o, s)

Owner ==
    \/ \E o \in Officers : Suspend(o) \/ Withdraw(o)
    \/ \E k \in Keys : Revoke(k)

Ends == TooLate \/ \E s \in Sessions : Logout(s) \/ Lapse(s)

Next == Ceremony \/ Recovery \/ Owner \/ Ends \/ \E t \in Threads : Serve(t) \/ Die(t)

Spec == Init /\ [][Next]_vars

-----------------------------------------------------------------------------
TypeOK ==
    /\ active \subseteq Officers /\ granted \subseteq Officers
    /\ challenge \in [Challenges -> Offered] /\ cred \in [Keys -> Credentials]
    /\ device \in [Keys -> 0..MaxCount] /\ signed \subseteq Responses
    /\ session \in [Sessions -> Held] /\ handler \in [Threads -> Handlers]
    /\ request \in [subject : Officers \cup {None}, requester : Officers \cup {None}, status : {"none", "pending", "expired"}]
    /\ approvals \subseteq [officer : Officers, session : Sessions]
    /\ budget \in [Events -> Nat]

\* (Over the keys and sessions there are, whatever instance they are of.)
Enrolled == {k \in DOMAIN cred : cred[k].challenge # None}
Issues == {s \in DOMAIN session : session[s].officer # None}

\* One ceremony, one outcome: whatever is sent again and whoever serves it, a
\* challenge makes at most one key or one session (claim_webauthn_challenge).
OneOutcomePerChallenge ==
    /\ \A k, l \in Enrolled : cred[k].challenge = cred[l].challenge => k = l
    /\ \A s, u \in Issues : session[s].challenge = session[u].challenge => s = u
    /\ \A k \in Enrolled, s \in Issues : cred[k].challenge # session[s].challenge

\* However logins overlap, the stored count of a key never goes back, so that
\* an older signature than one already used opens nothing
\* (commit_webauthn_counter).
CountsGoUp ==
    [][\A k \in DOMAIN cred :
         cred'[k].officer = cred[k].officer => cred'[k].count >= cred[k].count]_vars

\* A key is added only while two officers, neither the one who recovers nor
\* the one who asked, hold the permission and a live second factor, though
\* both may be lost between the ceremony's steps
\* (register_verified_webauthn_credential, security_change_ready).
EnrolledByTwo(k) ==
    cred[k].officer = None /\ cred'[k].officer # None =>
        /\ cred'[k].officer \in active
        /\ \E a, b \in approvals :
             /\ a.officer # b.officer
             /\ \A x \in {a, b} :
                  x.officer \notin {request.subject, request.requester}
                    /\ Current(x) /\ session[x.session].api # "revoked"

\* No session is issued for a key that was revoked, or an officer suspended,
\* while the login was under way (complete_verified_webauthn_login).
IssuedToTheRightful(s) ==
    session[s].officer = None /\ session'[s].officer # None =>
        LET new == session'[s]
        IN  new.officer \in active /\ cred[new.key].officer = new.officer /\ ~cred[new.key].revoked

\* Keys and sessions come to those who may have them, whatever is withdrawn
\* between the steps of the ceremony that gives them.
OnlyTheRightful ==
    [][/\ \A k \in DOMAIN cred : EnrolledByTwo(k)
       /\ \A s \in DOMAIN session : IssuedToTheRightful(s)]_vars
=============================================================================
