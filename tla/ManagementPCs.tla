--------------------------- MODULE ManagementPCs ---------------------------
(***************************************************************************)
(* Enrolment and revocation of management PCs (management_pc.py).  Four    *)
(* stores have to agree: the registry file, the publishers of the trust    *)
(* store, Home Assistant's users, and the keys of the SFTP app.  An        *)
(* operation changes them one after the other under the registry's lock;   *)
(* each write may raise, and Home Assistant may die between two.           *)
(*                                                                         *)
(* The start-up policy and the writers of the shared password              *)
(* (__init__.py, config_flow.py) change the same app, the latter without   *)
(* the lock.                                                               *)
(*                                                                         *)
(* A key stands for the pair of SSH and signing key a PC presents.         *)
(***************************************************************************)
EXTENDS Naturals, Sequences, FiniteSets

CONSTANTS
    Devices,      \* management PCs
    Keys,         \* key pairs; LegacyKey is none of them
    PubIds,       \* publisher ids
    Pub,          \* [Devices -> PubIds]: role and twelve digits of the device id
    MaxUser,      \* bound: system users ever created
    Homes         \* installations: whether the config entry holds a pre-v5.5
                  \* password, and, a bound, how often each mishap may happen

RegistrarMishaps == {"fail",      \* a write or a call of another component raises
                     "crash",     \* Home Assistant dies
                     "reload",    \* the config entry is set up again
                     "password"}  \* the password is set up by service or options flow

ASSUME RegistrarAssumption ==
    /\ Devices # {} /\ Pub \in [Devices -> PubIds] /\ MaxUser \in Nat
    /\ {"legacy", "none"} \cap Keys = {} /\ "role" \notin PubIds
    /\ Homes \subseteq [password : BOOLEAN, times : [RegistrarMishaps -> Nat]]

LegacyKey == "legacy"
Users == 1..MaxUser
Trust == [PubIds \cup {"role"} -> Keys \cup {LegacyKey, "none"}]
Records == [status : {"none", "active", "revoked"}, key : Keys \cup {"none"}, user : 0..MaxUser, done : BOOLEAN]
Registries == [pc : [Devices -> Records], legacy : SUBSET {LegacyKey}]
NoRecord == [status |-> "none", key |-> "none", user |-> 0, done |-> FALSE]
Access == [keys : SUBSET (Keys \cup {LegacyKey}), password : BOOLEAN]
NoAccess == [keys |-> {}, password |-> FALSE]

VARIABLES
    registry,  \* pcs.json
    trust,     \* publishers.json: the key each publisher signs with
    users,     \* system users of Home Assistant
    nextUser,  \* the next one to be created
    conf,      \* options of the SFTP app
    live,      \* what its running server accepts
    codes,     \* enrolment codes that are neither used nor expired
    waiting,   \* requests <<device, key>> whose code is consumed
    kind,      \* the operation that holds the registry's lock
    pos,       \* its step
    dev, key,  \* of an enrolment or a revocation
    mem,       \* its registry in memory
    prevReg, prevTrust, newUser, oldUser,   \* of an enrolment
    entry,     \* what the set-up of the config entry has still to do
    writer,    \* the unlocked writer of the password
    outcome,   \* ghost: what the last operation on a device reported
    registrarBudget,    \* mishaps left
    home       \* the installation

stores == <<registry, trust, users, conf, live>>
args == <<dev, key, prevReg, prevTrust, newUser, oldUser>>
op == <<kind, pos, mem, args>>
meanwhile == <<nextUser, codes, waiting, entry, writer>>
trouble == <<registrarBudget, home>>
registrarVars == <<stores, op, meanwhile, outcome, trouble>>

SpendRegistrar(mishap) ==
    /\ registrarBudget[mishap] > 0 /\ registrarBudget' = [registrarBudget EXCEPT ![mishap] = @ - 1]
    /\ UNCHANGED home

HasPassword == home.password

\* Before the upgrade to v5.5 the app knew a password, or keys which the
\* upgrade recorded; or there was no app.
RegistrarInit ==
    /\ home \in Homes /\ registrarBudget = home.times
    /\ \E legacy \in SUBSET {LegacyKey} :
         /\ registry = [pc |-> [d \in Devices |-> NoRecord], legacy |-> legacy]
         /\ conf = [keys |-> legacy, password |-> HasPassword /\ legacy = {}]
         /\ live = conf
    /\ trust = [p \in PubIds \cup {"role"} |-> IF p = "role" THEN LegacyKey ELSE "none"]
    /\ users = {} /\ nextUser = 1 /\ codes = 0 /\ waiting = {}
    /\ kind = "none" /\ pos = 1 /\ dev \in Devices /\ key = "none"
    /\ mem = registry /\ prevReg = registry /\ prevTrust = trust /\ newUser = 0 /\ oldUser = 0
    /\ entry = "policy" /\ writer = "none"
    /\ outcome = [d \in Devices |-> "none"]

-----------------------------------------------------------------------------
(* The steps of an operation.                                              *)

\* Mutant: a revocation leaves the publisher trusted.
OrderLax == [enroll |-> <<"user", "token", "sync", "start", "save", "trust", "retire">>,
          undo   |-> <<"sync", "start", "save", "trust_back", "drop_new">>,
          revoke |-> <<"drop_user", "sync", "start", "save">>,
          legacy |-> <<"sync", "start", "save", "drop_role">>,
          policy |-> <<"sync", "start", "save">>]

\* "sync" and "start" are _sync_sftp_authorized_keys: the app's options are
\* written, then the app is restarted, or stopped when no key is left.
Order == [enroll |-> <<"user", "token", "sync", "start", "save", "trust", "retire">>,
          undo   |-> <<"sync", "start", "save", "trust_back", "drop_new">>,
          revoke |-> <<"drop_user", "drop_pub", "sync", "start", "save">>,
          legacy |-> <<"sync", "start", "save", "drop_role">>,
          policy |-> <<"sync", "start", "save">>]
Kinds == DOMAIN Order

Step == IF kind = "none" THEN "none" ELSE Order[kind][pos]
Last == pos = Len(Order[kind])

ActiveKeys(reg) == {reg.pc[d].key : d \in {e \in Devices : reg.pc[e].status = "active"}}
KnownKeys(reg) == ActiveKeys(reg) \cup reg.legacy

\* Set-up goes on once the policy has returned or raised.
PolicyDone(mode) == IF HasPassword /\ mode # "publickey" THEN "password" ELSE "none"

Mode(reg) == IF KnownKeys(reg) # {} THEN "publickey" ELSE "unconfigured"

Report(k) == CASE k = "enroll" -> "enrolled" [] k = "revoke" -> "revoked" [] k = "undo" -> "failed" [] OTHER -> "none"

\* The operation's step is done: the next one, or the lock is released.
Advance ==
    IF ~Last THEN pos' = pos + 1 /\ UNCHANGED <<kind, entry, outcome>>
    ELSE /\ kind' = "none" /\ pos' = 1
         /\ outcome' = IF kind \in {"enroll", "revoke", "undo"} THEN [outcome EXCEPT ![dev] = Report(kind)] ELSE outcome
         /\ entry' = IF kind = "policy" THEN PolicyDone(Mode(mem)) ELSE entry

Start(k, d, reg) ==
    /\ kind = "none"
    /\ kind' = k /\ pos' = 1 /\ dev' = d /\ mem' = reg

-----------------------------------------------------------------------------
(* Enrolment.                                                              *)

\* Valid for ten minutes: a code may as well expire.
CreateCode ==
    /\ codes = 0 /\ kind = "none"
    /\ codes' = 1
    /\ UNCHANGED <<stores, op, nextUser, waiting, entry, writer, outcome, trouble>>

\* _consume_code has its own section under the lock; what the request carries
\* is looked at afterwards, and an invalid one ends here.
ConsumeCode(d, k) ==
    /\ codes > 0 /\ kind = "none" /\ nextUser + Cardinality(waiting) <= MaxUser
    /\ codes' = codes - 1
    /\ waiting' \in {waiting, waiting \cup {<<d, k>>}}
    /\ UNCHANGED <<stores, op, nextUser, entry, writer, outcome, trouble>>

Enrolled(reg, d, k, u) ==
    [reg EXCEPT !.pc[d] = [status |-> "active", key |-> k, user |-> u, done |-> FALSE]]

\* enroll: an active PC keeps its keys; its previous user is retired at the end.
Enroll(d, k) ==
    /\ <<d, k>> \in waiting /\ waiting' = waiting \ {<<d, k>>}
    /\ kind = "none"
    /\ LET old == registry.pc[d] IN
       IF old.status = "active" /\ old.key # k THEN UNCHANGED <<op, outcome>>
       ELSE /\ Start("enroll", d, Enrolled(registry, d, k, nextUser))
            /\ key' = k /\ prevReg' = registry /\ prevTrust' = trust /\ newUser' = nextUser
            /\ oldUser' = IF old.status = "active" /\ old.user \in users THEN old.user ELSE 0
            /\ outcome' = [outcome EXCEPT ![d] = "none"]
    /\ UNCHANGED <<stores, nextUser, codes, entry, writer, trouble>>

CreateUser ==
    /\ Step = "user"
    /\ users' = users \cup {newUser} /\ nextUser' = newUser + 1
    /\ Advance
    /\ UNCHANGED <<registry, trust, conf, live, args, mem, codes, waiting, writer, trouble>>

CreateToken ==
    /\ Step = "token" /\ Advance
    /\ UNCHANGED <<stores, args, mem, nextUser, codes, waiting, writer, trouble>>

Retire ==
    /\ Step = "retire"
    /\ users' = users \ {oldUser}
    /\ Advance
    /\ UNCHANGED <<registry, trust, conf, live, args, mem, nextUser, codes, waiting, writer, trouble>>

-----------------------------------------------------------------------------
(* Steps that several operations share.                                    *)

\* Mutant: keys found in the app are adopted.
SyncKeysAdopting ==
    /\ Step = "sync"
    /\ conf' = [keys |-> KnownKeys(mem) \cup conf.keys, password |-> FALSE]
    /\ Advance
    /\ UNCHANGED <<registry, trust, users, live, args, mem, nextUser, codes, waiting, writer, trouble>>

\* Options of the app: the known keys and no password.
SyncKeys ==
    /\ Step = "sync"
    /\ conf' = [keys |-> KnownKeys(mem), password |-> FALSE]
    /\ Advance
    /\ UNCHANGED <<registry, trust, users, live, args, mem, nextUser, codes, waiting, writer, trouble>>

StartApp ==
    /\ Step = "start"
    /\ live' = IF KnownKeys(mem) = {} THEN NoAccess ELSE conf
    /\ Advance
    /\ UNCHANGED <<registry, trust, users, conf, args, mem, nextUser, codes, waiting, writer, trouble>>

Save ==
    /\ Step = "save"
    /\ registry' = mem
    /\ Advance
    /\ UNCHANGED <<trust, users, conf, live, args, mem, nextUser, codes, waiting, writer, trouble>>

\* _upsert_publisher, _remove_publisher and the store written back whole.
ChangeTrust ==
    /\ \/ Step = "trust" /\ trust' = [trust EXCEPT ![Pub[dev]] = key]
       \/ Step = "drop_pub" /\ trust' = [trust EXCEPT ![Pub[dev]] = "none"]
       \/ Step = "drop_role" /\ trust' = [trust EXCEPT !["role"] = "none"]
       \/ Step = "trust_back" /\ trust' = prevTrust
    /\ Advance
    /\ UNCHANGED <<registry, users, conf, live, args, mem, nextUser, codes, waiting, writer, trouble>>

DropUser ==
    /\ \/ Step = "drop_user" /\ users' = users \ {mem.pc[dev].user}
       \/ Step = "drop_new" /\ users' = users \ {newUser}
    /\ Advance
    /\ UNCHANGED <<registry, trust, conf, live, args, mem, nextUser, codes, waiting, writer, trouble>>

\* What a start that raises leaves: nothing done, the app stopped, or an app
\* that runs too late to be seen.
FailedStart == live' \in {live, NoAccess, conf}

\* The policy raised for the app, or for the registry file: only in the first
\* case the set-up goes on.
AfterPolicy == IF Step = "save" THEN "none" ELSE PolicyDone("unconfigured")

EndFailed ==
    /\ kind' = "none" /\ pos' = 1
    /\ entry' = IF kind = "policy" THEN AfterPolicy ELSE entry
    /\ outcome' = IF kind = "enroll" THEN [outcome EXCEPT ![dev] = "failed"] ELSE outcome

Fail ==
    /\ Step # "none" /\ SpendRegistrar("fail")
    /\ IF Step = "start" THEN FailedStart ELSE UNCHANGED live
    /\ LET undone == kind = "enroll" /\ Step \in {"sync", "start", "save", "trust"}
           skipped == kind = "undo" /\ Step \in {"sync", "start", "save"}
           ignored == Step \in {"trust_back", "drop_new", "retire"}
       IN \/ undone /\ kind' = "undo" /\ pos' = 1 /\ mem' = prevReg /\ UNCHANGED <<entry, outcome>>
          \/ skipped /\ pos' = 4 /\ UNCHANGED <<kind, mem, entry, outcome>>
          \/ ignored /\ Advance /\ UNCHANGED mem
          \/ ~undone /\ ~skipped /\ ~ignored /\ EndFailed /\ UNCHANGED mem
    /\ UNCHANGED <<registry, trust, users, conf, args, nextUser, codes, waiting, writer>>

-----------------------------------------------------------------------------
(* The other operations.                                                   *)

Commission(d) ==
    /\ kind = "none" /\ registry.pc[d].status = "active" /\ registry.pc[d].user \in users
    /\ registry' = [registry EXCEPT !.pc[d].done = TRUE]
    /\ UNCHANGED <<trust, users, conf, live, op, meanwhile, outcome, trouble>>

\* revoke_pc; the record of a revoked PC is found as well.
Revoke(d) ==
    /\ registry.pc[d].status # "none"
    /\ Start("revoke", d, [registry EXCEPT !.pc[d].status = "revoked"])
    /\ outcome' = [outcome EXCEPT ![d] = "none"]
    /\ UNCHANGED <<stores, key, prevReg, prevTrust, newUser, oldUser, meanwhile, trouble>>

\* Mutant: no commissioned PC is asked for.
RevokeLegacyEarly ==
    /\ Start("legacy", dev, [registry EXCEPT !.legacy = {}])
    /\ UNCHANGED <<stores, key, prevReg, prevTrust, newUser, oldUser, meanwhile, outcome, trouble>>

RevokeLegacy ==
    /\ \E d \in Devices : registry.pc[d].status = "active" /\ registry.pc[d].done
    /\ Start("legacy", dev, [registry EXCEPT !.legacy = {}])
    /\ UNCHANGED <<stores, key, prevReg, prevTrust, newUser, oldUser, meanwhile, outcome, trouble>>

\* ensure_transport_policy, from async_setup_entry.
Policy ==
    /\ entry = "policy"
    /\ Start("policy", dev, registry)
    /\ entry' = "running"
    /\ UNCHANGED <<stores, key, prevReg, prevTrust, newUser, oldUser, nextUser, codes, waiting, writer, outcome, trouble>>

\* async_ensure_sftp_app, without the registry's lock: at set-up, or by
\* repair_sftp, update_sftp and the legacy step of the options flow.
WritePassword ==
    /\ HasPassword /\ writer = "none"
    /\ \/ entry = "password" /\ entry' = "none" /\ UNCHANGED trouble
       \/ SpendRegistrar("password") /\ UNCHANGED entry
    /\ conf' = [keys |-> {}, password |-> TRUE]
    /\ writer' = "start"
    /\ UNCHANGED <<registry, trust, users, live, op, nextUser, codes, waiting, outcome>>

StartWithPassword ==
    /\ writer = "start" /\ writer' = "none"
    /\ live' = conf
    /\ UNCHANGED <<registry, trust, users, conf, op, nextUser, codes, waiting, entry, outcome, trouble>>

Reload ==
    /\ entry = "none" /\ SpendRegistrar("reload")
    /\ entry' = "policy"
    /\ UNCHANGED <<stores, op, nextUser, codes, waiting, writer, outcome>>

\* The app goes on without Home Assistant; set-up follows at once.
HomeAssistantDies ==
    /\ SpendRegistrar("crash") /\ (kind # "none" \/ waiting # {} \/ writer # "none")
    /\ kind' = "none" /\ pos' = 1 /\ waiting' = {} /\ writer' = "none" /\ entry' = "policy"
    /\ UNCHANGED <<stores, args, mem, nextUser, codes, outcome>>

Operation ==
    \/ \E d \in Devices, k \in Keys : Enroll(d, k)
    \/ CreateUser \/ CreateToken \/ SyncKeys \/ StartApp \/ Save \/ ChangeTrust \/ DropUser \/ Retire
    \/ Fail \/ Policy \/ StartWithPassword

RegistrarNext ==
    \/ Operation
    \/ CreateCode
    \/ \E d \in Devices, k \in Keys : ConsumeCode(d, k)
    \/ \E d \in Devices : Commission(d) \/ Revoke(d)
    \/ RevokeLegacy \/ WritePassword \/ Reload \/ HomeAssistantDies

RegistrarSpec == RegistrarInit /\ [][RegistrarNext]_registrarVars
\* The event loop runs what holds the lock or waits for it; a lock of asyncio
\* is handed on in the order of the requests.
RegistrarFairSpec == RegistrarSpec /\ WF_registrarVars(Operation) /\ \A d \in Devices, k \in Keys : SF_registrarVars(Enroll(d, k))

-----------------------------------------------------------------------------
(* Properties.                                                             *)

RegistrarTypeOK ==
    /\ registry \in Registries /\ mem \in Registries /\ prevReg \in Registries
    /\ trust \in Trust /\ prevTrust \in Trust
    /\ users \subseteq Users /\ nextUser \in 1..(MaxUser + 1)
    /\ conf \in Access /\ live \in Access
    /\ codes \in 0..1 /\ waiting \subseteq Devices \X Keys
    /\ kind \in Kinds \cup {"none"} /\ pos \in 1..7
    /\ dev \in Devices /\ key \in Keys \cup {"none"} /\ newUser \in 0..MaxUser /\ oldUser \in 0..MaxUser
    /\ entry \in {"none", "policy", "running", "password"} /\ writer \in {"none", "start"}
    /\ outcome \in [Devices -> {"none", "enrolled", "revoked", "failed"}]
    /\ registrarBudget \in [RegistrarMishaps -> Nat] /\ home \in Homes

Quiet == kind = "none" /\ entry = "none" /\ writer = "none"
ActiveAs(d, k) == registry.pc[d].status = "active" /\ registry.pc[d].key = k

\* What happens to the installation.
NothingFails == home.times["fail"] = 0
OneFails == home.times["fail"] = 1
NothingDies == home.times["crash"] = 0
\* No call fails, nothing dies, there is no password, and no two PCs are one publisher.
Undisturbed ==
    /\ NothingFails /\ NothingDies /\ ~HasPassword
    /\ \A d, e \in Devices : Pub[d] = Pub[e] => d = e

\* Between operations the SFTP server lets nobody in whom the registry does not
\* list, though a call fails, or Home Assistant dies half-way, however often
\* (the next set-up puts it right).
OnlyKnownKeys ==
    /\ RegistrarTypeOK
    /\ Quiet /\ (NothingFails \/ (OneFails /\ NothingDies)) => live.keys \subseteq KnownKeys(registry)

\* A PC that was reported revoked can neither log in to the SFTP server nor
\* sign packages, and the registry does not name a user for it that exists.
RevokedIsOut ==
    Quiet => \A d \in Devices : outcome[d] = "revoked" =>
        /\ registry.pc[d].status = "revoked" /\ registry.pc[d].user \notin users
        /\ trust[Pub[d]] # "none" => \E e \in Devices \ {d} : Pub[e] = Pub[d] /\ ActiveAs(e, trust[Pub[e]])
        /\ (NothingFails \/ (OneFails /\ NothingDies)) /\ registry.pc[d].key \in live.keys =>
              registry.pc[d].key \in KnownKeys(registry)

\* A PC that was reported enrolled keeps its identity, its publisher and its
\* SFTP key through everything that happens to other PCs.
EnrolledIsWhole ==
    Undisturbed /\ Quiet => \A d \in Devices : outcome[d] = "enrolled" =>
        /\ registry.pc[d].status = "active" /\ registry.pc[d].user \in users
        /\ trust[Pub[d]] = registry.pc[d].key
        /\ registry.pc[d].key \in conf.keys

\* What was reported is so: a PC reported revoked can neither log in nor sign
\* packages, one reported enrolled keeps its identity, publisher and key (the
\* latter as long as nothing fails).
ReportIsTrue == RevokedIsOut /\ EnrolledIsWhole

\* An enrolment that fails while it writes the stores leaves registry, trust
\* store and users as they were before it, and no key that was not known.
FailedEnrolmentUndone ==
    \A d \in Devices : kind = "undo" /\ outcome[d] = "none" /\ outcome'[d] = "failed" =>
        registry' = prevReg /\ trust' = prevTrust /\ newUser \notin users'
        /\ conf'.keys \subseteq KnownKeys(prevReg)

\* The legacy credentials go only after a PC was commissioned that still has
\* all it needs to take over.
LegacyAfterCommission ==
    trust["role"] = LegacyKey /\ trust'["role"] = "none" =>
        \E d \in Devices : registry.pc[d].done /\ registry.pc[d].key \in conf.keys /\ trust[Pub[d]] = registry.pc[d].key

\* Nobody loses a credential by what does not succeed or comes too early: an
\* enrolment that fails leaves registry, trust store and users as before (unless its
\* undoing fails too), and the legacy credentials go only after a PC can take over
\* (as long as nothing fails).
CredentialsAreKept ==
    [][/\ NothingFails \/ OneFails => FailedEnrolmentUndone
       /\ Undisturbed => LegacyAfterCommission]_registrarVars

\* Every request whose code was taken is answered, and the lock is free again.
Waits(d, k) == <<d, k>> \in waiting
Answered(d, k) == <<d, k>> \notin waiting /\ kind = "none"
EnrolmentsAnswered == \A d \in Devices, k \in Keys : Waits(d, k) ~> Answered(d, k)
=============================================================================
