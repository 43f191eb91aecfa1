------------------------------ MODULE SftpApp ------------------------------
(***************************************************************************)
(* The JNS Secure SFTP app as addon.py drives it through the Supervisor:   *)
(* repository, installation, update, choice of a host port, options, start *)
(* and removal, and what is written down about it: the config entry, the   *)
(* registry of management PCs, and what an enrolled PC is told.  Calls are *)
(* made one at a time (ManagementPCs has the interleavings of two).        *)
(*                                                                         *)
(* External: the Supervisor, which refuses to start an app on a host port  *)
(* another app is bound to and reports a container as started before its   *)
(* program is ready; the sshd service script of jns_secure_sftp; other     *)
(* apps, which hold their ports while they are installed.                  *)
(***************************************************************************)
EXTENDS Naturals

CONSTANTS
    PCs,       \* management PCs, each with its key
    Others,    \* other apps, the legacy gateway among them
    First,     \* the preferred port, 2222
    Ports,     \* the candidates
    Sites      \* bound: the installations, each with its PCs, its other apps and
               \* how often what may happen

SftpMishaps == {"fail",     \* a call to the Supervisor raises
                "exit",     \* sshd's script exits
                "crash",    \* Home Assistant dies
                "gateway",  \* an other app is installed, or removed
                "release",  \* a new version appears in the store
                "manual"}   \* the administrator installs or uninstalls the app

ASSUME PortAssumption == First \in Ports /\ Ports \subseteq Nat \ {0} /\ \A p \in Ports : First <= p
\* The versions of the app are 1..newest; at most so many host keys are made.
ASSUME SiteAssumption ==
    Sites \subseteq [pcs : SUBSET PCs, others : SUBSET Others, newest : Nat, hosts : Nat,
                     times : [SftpMishaps -> Nat]]

Confs == [keys : SUBSET PCs, password : BOOLEAN]
Empty == [keys |-> {}, password |-> FALSE]
Password == [keys |-> {}, password |-> TRUE]
Apps == [version : Nat, state : {"off", "starting", "serving"}, port : Ports, conf : Confs, host : Nat]
NoApp == [version |-> 0, state |-> "off", port |-> First, conf |-> Empty, host |-> 0]
CallKinds == {"none", "policy", "enrol", "undo", "revoke", "setup", "repair", "update", "legacy", "remove"}
CallSteps == {"none", "repo", "find", "port", "install", "backup", "renew", "options", "start", "wait", "identity",
              "stop", "halt", "erase"}
Calls == [kind : CallKinds, step : CallSteps, pc : PCs \cup {"none"}, conf : Confs, created : BOOLEAN, port : Ports]
NoCall == [kind |-> "none", step |-> "none", pc |-> "none", conf |-> Empty, created |-> FALSE, port |-> First]

VARIABLES
    repo,      \* the repository is registered
    listed,    \* the store lists the app
    store,     \* its version there
    app,       \* the app; version 0: not installed
    sftpLive,  \* port and options its container was started with
    nextHost,  \* the next host key sshd makes
    export,    \* the host key in jns/sftp/server_host_ed25519.pub
    others,    \* the port of each other app, 0: not installed
    backups,   \* versions the Supervisor has a backup of
    sftpEntry, \* of the config entry: there, created by it, slug recorded, port
    sftpRegistry, \* of pcs.json: active PCs and port
    told,      \* what each PC was told: port and host key
    call,      \* the call in flight
    last,      \* ghost: the last call, once it succeeded and nobody interfered
    owner,     \* ghost: who installed the app
    site,      \* the installation
    sftpBudget \* mishaps left

server == <<app, sftpLive, nextHost, export, owner>>
supervisor == <<repo, listed, store, backups, others, site>>
notes == <<sftpEntry, sftpRegistry, told>>
sftpVars == <<server, supervisor, notes, call, last, sftpBudget>>

Installed == app.version # 0
SpendSftp(mishap) == sftpBudget[mishap] > 0 /\ sftpBudget' = [sftpBudget EXCEPT ![mishap] = @ - 1]
AtStep(step) == call.step = step
Goto(step) == call' = [call EXCEPT !.step = step]
Idle == call = NoCall

SftpInit ==
    /\ repo = FALSE /\ listed \in BOOLEAN /\ store = 1
    /\ app = NoApp /\ sftpLive = [port |-> First, conf |-> Empty] /\ nextHost = 1 /\ export = 0
    /\ site \in Sites
    /\ others \in [Others -> {0, First}]
    /\ \A o, q \in Others : others[o] = First => o \in site.others /\ (others[q] = First => q = o)
    /\ backups = {} /\ owner = "none"
    /\ sftpEntry = [there |-> TRUE, created |-> FALSE, slug |-> FALSE, port |-> First]
    /\ sftpRegistry = [pcs |-> {}, port |-> First]
    /\ told = [d \in PCs |-> [port |-> 0, host |-> 0]]
    /\ call = NoCall /\ last = NoCall /\ sftpBudget = site.times

-----------------------------------------------------------------------------
(* How a call begins.                                                      *)

\* The transport follows the registry: keys are applied, or the transport is
\* disabled when none is left.
Applied(pcs) == [keys |-> pcs, password |-> FALSE]

Begin(k, d, options) ==
    /\ Idle /\ sftpEntry.there
    /\ call' = [NoCall EXCEPT !.kind = k, !.pc = d, !.conf = options,
                  !.step = IF options = Empty THEN "stop" ELSE "repo"]
    /\ last' = NoCall
    /\ UNCHANGED <<server, supervisor, notes, sftpBudget>>

ApplyPolicy == Begin("policy", "none", Applied(sftpRegistry.pcs))
Enrol(d) == d \in site.pcs /\ Begin("enrol", d, Applied(sftpRegistry.pcs \cup {d}))
RevokeKey(d) == d \in sftpRegistry.pcs /\ Begin("revoke", d, Applied(sftpRegistry.pcs \ {d}))
\* At set-up, by service, and in the options flow.
UsePassword(k) == Begin(k, "none", Password)
Setup == sftpRegistry.pcs = {} /\ UsePassword("setup")

\* async_remove_entry.
Remove ==
    /\ Idle /\ sftpEntry.there
    /\ sftpEntry' = [sftpEntry EXCEPT !.there = FALSE]
    /\ IF sftpEntry.created /\ sftpEntry.slug
       THEN call' = [NoCall EXCEPT !.kind = "remove", !.step = "stop"] ELSE UNCHANGED call
    /\ last' = NoCall
    /\ UNCHANGED <<server, supervisor, sftpRegistry, told, sftpBudget>>

-----------------------------------------------------------------------------
(* How it ends.                                                            *)

\* A failed enrolment puts the previous keys back, and the previous registry;
\* a failed restoration is logged.
Failed ==
    /\ call' = IF call.kind # "enrol" THEN NoCall
               ELSE [NoCall EXCEPT !.kind = "undo", !.conf = Applied(sftpRegistry.pcs),
                       !.step = IF sftpRegistry.pcs = {} THEN "stop" ELSE "repo"]
    /\ last' = NoCall
    /\ UNCHANGED notes

\* The registry is saved with the port the app was given.
Register(port) ==
    sftpRegistry' = CASE call.kind = "enrol" -> [pcs |-> sftpRegistry.pcs \cup {call.pc}, port |-> port]
                  [] call.kind = "revoke" -> [pcs |-> sftpRegistry.pcs \ {call.pc}, port |-> port]
                  [] call.kind = "policy" -> [sftpRegistry EXCEPT !.port = port]
                  [] OTHER -> sftpRegistry

\* Set-up records the port with the slug, once; the options flow the
\* preferred port, whatever port was chosen.
Record ==
    sftpEntry' = CASE call.kind = "setup" /\ ~sftpEntry.slug -> [sftpEntry EXCEPT !.slug = TRUE, !.port = call.port]
               [] call.kind = "legacy" -> [sftpEntry EXCEPT !.slug = TRUE, !.port = First, !.created = @ \/ call.created]
               [] OTHER -> sftpEntry

Succeed ==
    /\ Record /\ Register(call.port)
    /\ IF call.kind = "enrol" THEN Goto("identity") /\ UNCHANGED last
       ELSE call' = NoCall /\ last' = call
    /\ UNCHANGED told

-----------------------------------------------------------------------------
(* Its steps.                                                              *)

\* Registered already, or added now, and indexed in time.
EnsureRepository ==
    /\ AtStep("repo") /\ repo' = TRUE /\ Goto("find")
    /\ UNCHANGED <<server, listed, store, backups, others, site, notes, last, sftpBudget>>

WaitForApp ==
    /\ AtStep("find") /\ (Installed \/ listed)
    /\ call' = [call EXCEPT !.created = ~Installed,
                  !.step = IF call.kind # "update" THEN "port" ELSE IF app.version \in 1..(store - 1) THEN "backup" ELSE "repo",
                  !.kind = IF call.kind = "update" /\ app.version \notin 1..(store - 1) THEN "repair" ELSE @]
    /\ UNCHANGED <<server, supervisor, notes, last, sftpBudget>>

\* Two minutes are over.
AppDeadline ==
    /\ AtStep("find") /\ ~Installed /\ ~listed
    /\ Failed /\ UNCHANGED <<server, supervisor, sftpBudget>>

Used == {others[o] : o \in Others}

SelectPort ==
    /\ AtStep("port")
    /\ IF Ports \ Used = {} THEN Failed
       ELSE /\ call' = [call EXCEPT !.port = CHOOSE p \in Ports \ Used : \A q \in Ports \ Used : p <= q,
                          !.step = IF call.created THEN "install" ELSE IF app.version < store THEN "backup" ELSE "options"]
            /\ UNCHANGED <<notes, last>>
    /\ UNCHANGED <<server, supervisor, sftpBudget>>

Install ==
    /\ AtStep("install")
    /\ app' = [NoApp EXCEPT !.version = store] /\ owner' = "jns" /\ Goto("options")
    /\ UNCHANGED <<sftpLive, nextHost, export, supervisor, notes, last, sftpBudget>>

\* Mutant: the update does without a backup.
NoBackup ==
    /\ AtStep("backup") /\ Goto("renew")
    /\ UNCHANGED <<server, supervisor, notes, last, sftpBudget>>

Backup ==
    /\ AtStep("backup") /\ backups' = backups \cup {app.version} /\ Goto("renew")
    /\ UNCHANGED <<server, repo, listed, store, others, site, notes, last, sftpBudget>>

\* A container that is started reads the options of the moment.
Started == app.state # "off"
Launched(a) == /\ app' = [a EXCEPT !.state = "starting"]
               /\ sftpLive' = [port |-> a.port, conf |-> a.conf]

\* The Supervisor restarts an app it updates, if it was running.
Renew ==
    /\ AtStep("renew")
    /\ IF Started THEN Launched([app EXCEPT !.version = store])
       ELSE app' = [app EXCEPT !.version = store] /\ UNCHANGED sftpLive
    /\ call' = IF call.kind = "update" THEN [call EXCEPT !.kind = "repair", !.step = "repo"] ELSE [call EXCEPT !.step = "options"]
    /\ UNCHANGED <<nextHost, export, owner, supervisor, notes, last, sftpBudget>>

ApplyOptions ==
    /\ AtStep("options")
    /\ app' = [app EXCEPT !.conf = call.conf, !.port = call.port] /\ Goto("start")
    /\ UNCHANGED <<sftpLive, nextHost, export, owner, supervisor, notes, last, sftpBudget>>

\* Mutant: an app that runs is left running.
StartOnly ==
    /\ AtStep("start")
    /\ IF Started THEN Goto("wait") /\ UNCHANGED <<app, sftpLive, notes, last>>
       ELSE IF app.port \in Used THEN app' = [app EXCEPT !.state = "off"] /\ UNCHANGED sftpLive /\ Failed
       ELSE Launched(app) /\ Goto("wait") /\ UNCHANGED <<notes, last>>
    /\ UNCHANGED <<nextHost, export, owner, supervisor, sftpBudget>>

\* Restarted when it runs, started when it does not.
StartServer ==
    /\ AtStep("start")
    /\ IF app.port \in Used THEN app' = [app EXCEPT !.state = "off"] /\ UNCHANGED sftpLive /\ Failed
       ELSE Launched(app) /\ Goto("wait") /\ UNCHANGED <<notes, last>>
    /\ UNCHANGED <<nextHost, export, owner, supervisor, sftpBudget>>

\* Started is enough; off until the deadline is a failure.
WaitForRunning ==
    /\ AtStep("wait")
    /\ IF Started THEN Succeed ELSE Failed
    /\ UNCHANGED <<server, supervisor, sftpBudget>>

\* The first export found, or none after five seconds.
Answer ==
    /\ AtStep("identity")
    /\ told' = [told EXCEPT ![call.pc] = [port |-> sftpRegistry.port, host |-> export]]
    /\ call' = NoCall /\ last' = call
    /\ UNCHANGED <<server, supervisor, sftpEntry, sftpRegistry, sftpBudget>>

\* async_disable_management_transport, and the removal of the app.
Disable ==
    /\ AtStep("stop")
    /\ IF ~Installed THEN Register(sftpRegistry.port) /\ call' = NoCall /\ last' = call /\ UNCHANGED <<app, sftpEntry, told>>
       ELSE /\ app' = IF call.kind = "remove" THEN app ELSE [app EXCEPT !.conf = Empty]
            /\ Goto("halt") /\ UNCHANGED <<notes, last>>
    /\ UNCHANGED <<sftpLive, nextHost, export, owner, supervisor, sftpBudget>>

Halt ==
    /\ AtStep("halt")
    /\ app' = [app EXCEPT !.state = "off"]
    /\ IF call.kind = "remove" THEN Goto("erase") /\ UNCHANGED <<notes, last>>
       ELSE Register(app.port) /\ call' = NoCall /\ last' = call /\ UNCHANGED <<sftpEntry, told>>
    /\ UNCHANGED <<sftpLive, nextHost, export, owner, supervisor, sftpBudget>>

Uninstall ==
    /\ AtStep("erase")
    /\ app' = NoApp /\ owner' = "none" /\ call' = NoCall /\ last' = call
    /\ UNCHANGED <<sftpLive, nextHost, export, supervisor, notes, sftpBudget>>

\* A call to the Supervisor raises; what it did may have been done.
CallFails ==
    /\ call.step \notin {"none", "identity"} /\ SpendSftp("fail")
    /\ repo' \in IF AtStep("repo") THEN {repo, TRUE} ELSE {repo}
    /\ app' \in IF AtStep("start") THEN {app, [app EXCEPT !.state = "off"]} ELSE {app}
    /\ Failed
    /\ UNCHANGED <<sftpLive, nextHost, export, owner, listed, store, backups, others, site>>

HomeAssistantStops ==
    /\ ~Idle /\ SpendSftp("crash") /\ call' = NoCall /\ last' = NoCall
    /\ UNCHANGED <<server, supervisor, notes>>

-----------------------------------------------------------------------------
(* The container, the Supervisor's store, other apps, the administrator.   *)

\* The script makes a host key once, exports it, and exits when neither keys
\* nor a password are configured.
Sshd ==
    /\ app.state = "starting" /\ (app.host # 0 \/ nextHost <= site.hosts)
    /\ LET host == IF app.host = 0 THEN nextHost ELSE app.host IN
         /\ app' = [app EXCEPT !.host = host, !.state = IF sftpLive.conf = Empty THEN "off" ELSE "serving"]
         /\ export' = host
         /\ nextHost' = IF app.host = 0 THEN nextHost + 1 ELSE nextHost
    /\ UNCHANGED <<sftpLive, owner, supervisor, notes, call, last, sftpBudget>>

SshdExits ==
    /\ Started /\ SpendSftp("exit") /\ app' = [app EXCEPT !.state = "off"]
    /\ UNCHANGED <<sftpLive, nextHost, export, owner, supervisor, notes, call, last>>

List ==
    /\ repo /\ ~listed /\ listed' = TRUE
    /\ UNCHANGED <<server, repo, store, backups, others, site, notes, call, last, sftpBudget>>

Release ==
    /\ store < site.newest /\ SpendSftp("release") /\ store' = store + 1
    /\ UNCHANGED <<server, repo, listed, backups, others, site, notes, call, last>>

\* Between calls.
OtherApp(o) ==
    /\ o \in site.others /\ Idle /\ SpendSftp("gateway")
    /\ others' \in {[others EXCEPT ![o] = p] : p \in {0} \cup (Ports \ (Used \cup (IF Installed THEN {app.port} ELSE {})))}
    /\ others'[o] # others[o]
    /\ UNCHANGED <<server, repo, listed, store, backups, site, notes, call, last>>

Administrator ==
    /\ Idle /\ SpendSftp("manual") /\ last' = NoCall
    /\ IF Installed THEN app' = NoApp /\ owner' = "none" /\ UNCHANGED <<sftpLive, repo, listed>>
       ELSE /\ app' = [NoApp EXCEPT !.version = store, !.conf = Password] /\ owner' = "administrator"
            /\ repo' = TRUE /\ listed' = TRUE /\ UNCHANGED sftpLive
    /\ UNCHANGED <<nextHost, export, store, backups, others, site, notes, call>>

-----------------------------------------------------------------------------
Requests ==
    \/ ApplyPolicy \/ Setup \/ Remove
    \/ \E d \in PCs : Enrol(d) \/ RevokeKey(d)
    \/ \E k \in {"repair", "update", "legacy"} : UsePassword(k)

Work ==
    \/ EnsureRepository \/ WaitForApp \/ AppDeadline \/ SelectPort \/ Install \/ Backup \/ Renew
    \/ ApplyOptions \/ StartServer \/ WaitForRunning \/ Answer \/ Disable \/ Halt \/ Uninstall

World ==
    \/ CallFails \/ HomeAssistantStops \/ Sshd \/ SshdExits \/ List \/ Release \/ Administrator
    \/ \E o \in Others : OtherApp(o)

SftpNext == Requests \/ Work \/ World

SftpSpec == SftpInit /\ [][SftpNext]_sftpVars

\* The event loop goes on with a call it has begun; nobody else has to move.
SftpFair == SftpSpec /\ WF_sftpVars(Work)

-----------------------------------------------------------------------------
SftpTypeOK ==
    /\ repo \in BOOLEAN /\ listed \in BOOLEAN /\ store \in Nat \ {0}
    /\ app \in Apps /\ sftpLive \in [port : Ports, conf : Confs]
    /\ nextHost \in Nat \ {0} /\ export \in Nat
    /\ others \in [Others -> {0} \cup Ports] /\ backups \subseteq Nat
    /\ sftpEntry \in [there : BOOLEAN, created : BOOLEAN, slug : BOOLEAN, port : Ports]
    /\ sftpRegistry \in [pcs : SUBSET PCs, port : Ports]
    /\ told \in [PCs -> [port : {0} \cup Ports, host : Nat]]
    /\ call \in Calls /\ last \in Calls
    /\ owner \in {"none", "jns", "administrator"} /\ site \in Sites /\ sftpBudget \in [SftpMishaps -> Nat]

\* A call that succeeded, key apply, password set-up or disabling, is what the
\* server accepts from then on, on the port the caller was told: options that
\* are written but not read by a restarted container are no success
\* (async_apply_management_keys, async_ensure_sftp_app, async_disable_...).
AppliedIsLive ==
    (last.kind # "none" /\ Started) =>
        last.conf # Empty /\ sftpLive.conf = last.conf /\ sftpLive.port = last.port

\* The port an app is about to be started on is free of the other apps, so
\* that the legacy gateway keeps its port and the start is not refused for
\* that (_async_select_sftp_host_port).
StartsOnFreePort == AtStep("start") => app.port \notin Used

NobodyElse == site.times["gateway"] = 0 /\ site.times["manual"] = 0

\* Where no other app comes or goes and nobody reinstalls or removes the app,
\* an enrolled PC finds the app where it was told, under the host key it was told, through
\* failed enrolments, crashes, updates and changes of the transport's mode.
ToldIsServed ==
    (Idle /\ sftpEntry.there) => \A d \in sftpRegistry.pcs :
        /\ told[d].port \in {0, app.port}
        /\ told[d].host \in {0, app.host}

\* A version of the app is replaced only when a backup of it was made
\* (_async_update_installed_sftp_app).
UpdateIsBackedUp ==
    Installed /\ app'.version > app.version => app.version \in backups

\* Removing the entry never removes an app the administrator installed
\* (async_remove_entry), whoever configured it in between.
AdministratorsAppIsKept ==
    owner = "administrator" /\ owner' = "none" => call.kind # "remove"

\* The app is where it was told: a call that succeeded is what the server
\* accepts from then on, it starts on a port that no other app holds, and where
\* no other app comes or goes and nobody reinstalls or removes the app, an
\* enrolled PC finds it on the port and under the host key it was told.
AppIsWhereTold ==
    /\ SftpTypeOK /\ AppliedIsLive /\ StartsOnFreePort
    /\ NobodyElse => ToldIsServed

\* No version of the app goes without a backup, and an app the administrator
\* installed does not go with the entry: where the administrator comes once. An
\* entry that is noted as the app's creator stays so noted when its app is
\* removed and installed again by hand.
AppIsKept ==
    [][/\ UpdateIsBackedUp
       /\ site.times["manual"] <= 1 => AdministratorsAppIsKept]_sftpVars

\* Every call ends: with an app that never becomes available, an app that
\* does not stay up and a Supervisor that raises, too.
InProgress == ~Idle
CallsEnd == InProgress ~> Idle
=============================================================================
