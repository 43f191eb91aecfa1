# TLA+ models of the JNS Home Assistant deployment

This directory specifies, model-checks and proves properties of the JNS
deployment platform: a Home Assistant integration (`custom_components/`), the
gateway that changes a running house by jobs and scripts, the services beside it,
and the automations and controllers the house depends on. Each module is
translated from the source; comments name the code, and `PROJECT.json` maps
every definition to the lines it stands for.

Contents: [1 Inventory](#1-inventory) · [2 Plan](#2-plan) ·
[3 The package transaction engine](#3-the-package-transaction-engine) ·
[4 The other components](#4-the-other-components) · [5 Runs](#5-runs) ·
[6 Findings](#6-findings) · [7 Observations](#7-observations-what-the-bounds-exclude) ·
[8 Proofs](#8-proofs) · [9 What is not modelled](#9-what-is-not-modelled)

## 1 Inventory

Paths are relative to `src/`; `jd/` is `custom_components/jns_deployment/`.

| Component | State it keeps | Operations | What is hard | Module |
|---|---|---|---|---|
| **Package transaction engine** `jd/deployment.py` | live configuration files; `backups/<transaction>/` with copies and `transaction.json`; in-memory record | install (with upgrade), uninstall, rollback, recovery, marking at start-up | crash between two writes; exception half-way; foreign edits; archive replaced; long sequences | `PackageTransactions` |
| **Platform updater** `jd/deployment.py` 1338–1699, `jd/recovery_tool.py` | the integration's own directory, staging and hold directories, pending file, records | install, confirm at start-up, rollback, emergency recovery by hand | tree copies that are cut off; restart into another version; three writers of one record | `PlatformUpdate` |
| **Service layer** `jd/__init__.py` | `hass.data`: manager, `async_lock`, registry | services; entry setup and reload; automatic rollback after a failed configuration check | a reload under a running operation replaces both in-process locks | `ServiceLayer` |
| **Management-PC registry** `jd/management_pc.py` | codes, registry, trust store, Home Assistant users, SFTP keys | create code, enrol, revoke, commission, start-up policy, repair | one enrolment spans four stores; compensation can fail; process can die | `ManagementPCs` |
| **SFTP provisioning** `jd/addon.py` | options, port and state of a Supervisor app; what was written down about it | ensure, update, apply, disable, remove the entry | remote service polled with deadlines; ports chosen again and again | `SftpApp` |
| **Audit log** `jd/audit.py` | append-only file, hash chain | append (verify, then write), verify | concurrent append, torn line, failing fsync | `AuditLog`, `Ledger` |
| **Network identity** `custom_components/jns_network_identity/` | DNS rewrites of AdGuard, status | import bindings | a loop of remote calls that may stop half-way; overlapping imports | `DnsImport` |
| **Gateway queue** `gateway/dispatcher.sh`, `.github/workflows/jns-nodec-gateway.yml` | job, result and status files on `main` | submit, check out, run, publish with retry | overlapping pushes; runs stopped half-way; legacy jobs | `GatewayQueue` |
| **Package handler** `gateway/trusted/ha-package-install-handler-v1.sh` | one package file and its backups | back up, write, check, restart, roll back through the guest agent | commands given up that take effect later; handler killed | `PackageHandler` |
| **Guarded releases** `gateway/*/deploy.py`, `patch_vm905.py`, `rollback_vm905.py` | configuration files of VM 905 and VM 902 | patch, check, restore, restart or reload, verify | a write that fails in the middle; a late check; successive releases of one file | `GuardedRelease`, `ReleaseScripts` |
| **Natural Automation and Steward** `natural_automation_steward/src/` | proposals, `automations.yaml` and backups; reviews and removal proposals | propose, apply, check, restart, restore; scan, review | threads without a common lock; remote calls that time out after having worked | `StewardApply`, `ReviewStore` |
| **Club-manager authentication** `club-manager/auth/`, `migrations/` | challenges, credentials, counters, sessions, approvals, TOTP steps in PostgreSQL | enrol, log in, recover, TOTP | races between separate store calls | `ClubAuth`, `TotpReplay` |
| **Security controller handover** `gateway/solar/ha906_*`, `ha_security_*` | two virtual machines, attestations, markers, timer and cron entry | cut over, accept, fail back, emergency restoration | five programs on three machines, by ssh | `ControllerHandover` |
| **Router power interlock** `example_packages/infrastructure_power_interlocks.yaml` | a socket, three helpers, timers | arm, reboot, restore | restarts lose timers; calls fail | `PowerInterlock` |
| **Advert cover and recogniser** `gateway/trusted/veyra-*` | phase, cover process, mute record | start, end, preview, keep | late requests, crashes, a player that restarts | `AdCover` |
| **Recorder trials** `gateway/trusted/veyra-*-v0.5.5.sh` to `v1.3.3.sh` | the recorder process, timers, markers | stop the recorder, measure, resume; emergency resume by a timer | a trial interrupted or killed between two steps; two trials at once | `RecorderPause`, `RecorderTrials`; with the row above `TakenForAWhile` |
| **Exterior lights** `gateway/arrival_lighting/`, `garden_features/` | one light, three timers and flags | demand, release | demands that overlap | `ExteriorLights` |
| Inbox and reports; trust store and package validation; progress model; management bridge; identity failover; club schema and site; other gateway scripts; dashboards, media, mail server, workflows, texts | — | — | — | [not modelled](#9-what-is-not-modelled) |

How they interact. The service layer calls the engine and the updater on executor
threads, under one `asyncio.Lock`, and inside them `_exclusive_operation` takes a
thread lock and a file lock without waiting. Each engine operation appends to the
audit log, and an append that raises is, for the engine, a failed operation.
Enrolment applies keys through SFTP provisioning, writes the trust store that
package validation reads, and creates Home Assistant users. The gateway queue
carries the jobs; the package handler, the guarded releases and the Steward all
change files of Home Assistant on VM 905, in processes of its guest agent that
outlive the callers who give up on them. The controller handover decides which
machine the house's hardware obeys. Other programs (editors, HACS, Home
Assistant itself) change the same files at any time.

The hazards that bite are listed, each at its line, in `PROJECT.json`; section 7
adds those that the code does not withstand.

## 2 Plan

Order: the engine first, because it can destroy the user's configuration and its
hardest states (between two writes) are the ones no test reaches; then what shares
its locks and records; then what changes the house.

1. **PackageTransactions** — done, proofs in **PackageTransactionsProofs**.
2. **PlatformUpdate**, **ServiceLayer**, **AuditLog** refining **Ledger** — done,
   proofs in **PlatformUpdateProofs**, **ServiceLayerProofs** and **RecordsProofs**
   (with the refinement).
3. **ManagementPCs**, **SftpApp** — done, proofs in **RecordsProofs**.
4. **GatewayQueue**, **GuardedRelease**, **StewardApply**, **ReviewStore**,
   **PackageHandler** — done, proofs in **GatewayProofs**, **GuardedReleaseProofs** and,
   for the handler, **HouseProofs**.
5. **ClubAuth**, **TotpReplay** — done, proofs in **ClubAuthProofs**.
6. **ControllerHandover**, **PowerInterlock**, **DnsImport**, **AdCover** and
   **RecorderPause** with **RecorderTrials** (together **TakenForAWhile**),
   **ExteriorLights** — done, proofs in **HouseProofs**.

Proved: every safety and action property that a passing run checks. Left to TLC: the four
liveness properties. Left to model: a waiting service call beside a revocation
(ServiceLayer with ManagementPCs); the parts called *partly* in `PROJECT.json`.

## 3 The package transaction engine

`PackageTransactions.tla` models `install_package`, `uninstall_package`,
`rollback_transaction`, `recover_interrupted_transaction`, the two except
clauses and `_mark_interrupted_transactions`.

### State

| Variable | In the code |
|---|---|
| `live` | the files below the configuration root; `Absent` is a missing file |
| `backup[x]` | the copies below `backups/<transaction>` |
| `records[x]` | `transaction.json` of transaction `x`, as on disk |
| `count` | how many transactions exist; numbers are in `created_ns` order |
| `pc` | the statement the operation that holds the lock will execute next |
| `tx`, `mem` | the transaction it works on and its dictionary `transaction` in memory (for a rollback or recovery: `record`) |
| `manifest` | the payload staged, or planned until then |
| `todo`, `tgt` | what the current `for` loop has still to visit; the file it is at |
| `budget` | bound: mishaps left, by kind |
| `pre`, `touched`, `declared` | ghosts: files when each transaction began; files somebody else changed since; files its staged manifest declares |

A content stands for its own SHA-256 (no collisions). A record's list of files
becomes a function from targets to entries, because a target occurs at most once
in it: `_validate_declared_files` refuses duplicates, and stale entries are for
undeclared targets only. An entry keeps the fields that other code reads:
`action`, `previously_existed`, `installed_sha256` (`installed`),
`post_absent`; `backup_sha256` is a check on the copy that is not modelled, as
nobody edits the backup tree. Loops visit `todo` in any order: a manifest may
list files in any order, and undoing in reverse order touches distinct files.

### Actions

Each step that has a durable effect is an action, so a crash, an exception or a
foreign edit may fall between any two.

* **Install** (746–954): `BeginInstall` is the plan, its drift check and the first
  record; `StageInstall` opens the archive again, perhaps another one; per
  declared file `LeaveUnchanged`, or `BackUpFile`, `RecordIntent`, `CopyStaged`,
  `VerifyCopy` (or `CopyMismatch`); `FilesInstalled` turns to the previous
  version's files; per stale file `BackUpStale` (or `StaleDrift`),
  `ApplyBaseline` (or `BaselineFails`), `RecordOutcome`; then `Commit` and
  `AuditCommit`. Exactly as in the code, a stale file's entry is appended to the
  record in memory only, and reaches the disk at `RecordOutcome`.
* **Uninstall** (1248–1336): `BeginUninstall`, `StartUninstall`, per file
  `BackUpManaged`, `RecordIntent`, `ApplyBaseline`, `RecordOutcome`, then
  `Commit`, `AuditCommit`.
* **Except clauses**: `Fail` is anything in the `try` block that raises; a
  `Save` that fails does the same. `UndoFile`, `UndoFileFails`, `UndoDone`.
  `StartAuditFails` raises outside the `try` block.
* **Rollback and recovery** (984–1102): `BeginRollback` with its drift and backup
  checks, `BeginRecovery`, `RestoreFile`, `RestoreDone`, `RestoreFails`.
* **Environment**: `Crash` (process dies, comes up and marks), `Restart` (orderly),
  `UserEdit`.

`ActiveInstall`, `FirstNaming`, `Baseline`, `StaleTargets` translate
`_active_install_record` and `_baseline_for_target`: they read records from disk,
at the step where the code does.

### Simplifications

One operation at a time: `_exclusive_operation` is taken as given here, and is the
subject of ServiceLayer. Single file writes are atomic (`_write_json_atomic` and
`_copy_file_durable` write a temporary file, fsync and rename). Audit appends
appear only as steps that may raise. Records are ordered by number: `created_ns`
is assumed not to step back.

## 4 The other components

The comment on each VARIABLE says which file, attribute or process it stands for.
Every module bounds its mishaps by `Budget` (how often each kind may happen) or a
named bound, and says what is external. Assumptions on constants are named ASSUMEs of the
component: the proofs use them, and TLC evaluates them in the run that extends it. Where
a run takes further instances by INSTANCE, its module assumes the same of those
(`ConstantAssumption` in `MCEnds`, `MCReturns` and `MCIntegration`, `RecoveringAssumption`
in `MCClubAuth`).

What a behaviour may suffer is drawn in its initial state from a set of such
possibilities: `plan` from `Plans`, and likewise `bounds`, `home`, `site`, `limits`,
`granted`, `allowed`, `machine`, `setting`, `use`, `suite`. A property can then name its
condition (`limits["overlap"] = 0`, `site.times["manual"] <= 1`), one run covers several
plans, and a theorem covers all of them.

**PlatformUpdate.** A tree is a version, `Partial` or `Missing`; `live`, `stage`,
`hold`, `aside`, `backup` are directories, `state` and `to` the records, `pending`
the pending file, `running` the code that is loaded. `Install` has one action per
step of `install_platform_update` (1442–1608), copies and deletions being a begin
and an end; `Undo` is its except clause; `Rollback` is
`rollback_platform_update`; `Confirm` the three steps of
`confirm_pending_platform_update` at every set-up; `Emergency` is
`recovery_tool.py`, run by hand while Home Assistant is down. Crash, failing
write, exchanged archive, foreign change of the directory and reload may come
anywhere; a behaviour draws how often (`bounds`) from the set `Bounds`, so that
properties can say `Never("io")`. `spoilt` remembers that somebody rolled back to a
backup that had itself been cut off, which neither the service nor the tool looks for.
Its definitions have names of their own (`UpdateInit`, `left`, `step`) as
`MCIntegration` has it beside ServiceLayer.

**ServiceLayer.** Calls hold or wait for the asyncio lock of the set-up they began
under (`queue[gen]`), then the manager's thread lock (`tlock[gen]`) and the machine's
file lock, both without waiting. `Step(c)` is a handler's next step: entering,
being refused, the engine operation as a begin and an end, the configuration check
(`CheckConfig`) and the rollback it starts. `Unload`, `Setup` are the reload. A
transaction is a status and whether it breaks the configuration; what it does to
files is section 3's. The platform update services appear as `quarantine`: one
operation without a package transaction.

**AuditLog**, **Ledger.** Lines are records with number and predecessor, whole, cut
or changed; `synced` of them are on the disk. A writer verifies, makes its record,
writes, syncs; `Locked` writers hold the engine's lock, the unlocked one is the
confirmation at set-up. Ledger is what a trail promises: entries are added at the
end, an entry whose append has returned stays, only what has not been settled may
be lost. AuditLog implements it with `log` the numbers of its records,
`stable <- synced` and `broken <- tampered`: a ledger somebody changed by hand promises
nothing any more (`Break`). `overlapped` remembers that two appends were once under way
together, which the engine's lock prevents and the unlocked writer does not.

**ManagementPCs.** Registry file, trust store, users and the app's keys
(`conf` written, `live` accepted) are changed one after the other in the `Order` of
the operation (`enroll`, its undo, `revoke`, ...), under the registry's lock; every
store call may raise and the machine may stop between any two. `Policy` is the
start-up decision between keys and password; `WritePassword` and the set-up's own
writer work without the lock, as in `__init__.py`. `home` says whether the config entry
holds a password from before v5.5, and how often what may happen.

**SftpApp.** One call at a time: ensure the repository, wait for the app, choose a
port, install or back up and update, write options, restart, wait for it, answer;
disable; remove with the entry. The Supervisor, sshd's script, other apps and the
administrator are external and change things between a call's steps, except that
another app takes its port between two calls only. `site` is the installation: its PCs,
other apps, versions and mishaps.

**GatewayQueue.** `main` is the tree of `origin/main`; a run checks out the tree of
the commit that triggered it, executes each `.json` job unless both its result and its
status file exist, and publishes with fetch, reset to `origin/main`, its own paths put
back, commit and push in up to five attempts. GitHub keeps one run and the newest waiting
one. `Kill` stops the
dispatcher, `Die` the runner.

**PackageHandler.** The seven guest commands in their order, each of which may not
be started, fail, be given up and yet take effect later (`late`), the EXIT trap, and
the handler killed without it. `disk` has the package file, each job's backup and
what Core runs; `machine` says which commands may fail, which may take effect late, and
whether the handler may be killed.

**GuardedRelease**, **ReleaseScripts.** One protocol, and one record for each of
thirty-five scripts that says how it differs: the order of its files, which of them are
new or written whatever they are, when it compares before it writes, whether a failing
patch undoes its writes, whether the rollback compares, skips what it cannot restore, or
is told when it fails; whether Core checks, restarts, reloads or is left alone; what is
verified, and whether a failure after the check is taken back. A file's content is the
set of those who have a part in it. One job runs at a time (all of them on the one
self-hosted runner of Node C), but a process in the guest may outlive its job. Comparing
a file and replacing it is one step. `plan`, chosen in the initial state from `Plans`,
holds the scripts, the edits somebody may make, the faults, and whether the guest or
the check may be slower than the script waits; the properties name the plans they are
about (`Quiet`: no edits and no slow guest). `core` is what Core has loaded, so that a release
that is blocked can be seen to run no more (`BlockedRunsNothing`).

**StewardApply.** Each request has a handler thread and a script in the guest
(`Backup`, `Read`, `Write`, `Replace`), which goes on when the handler gives up.
After it: check, restart, verify, record, or restore and restart back. Requests
overlap as `Concurrency` allows; backups are named by the second.

**ReviewStore.** The two JSON lists of suggestions and removal proposals; every
operation is a load, a change of the copy and a save by a thread, and `Scan` saves a
list merged from the one it loaded.

**ClubAuth.** Challenges, credentials, sessions, the recovery request and its
approvals are tables; every store call of a ceremony (`Claim`, account check,
`CommitCounter`, `Complete`, `Register`) is a transaction of its own, with
suspension, revocation, logout, expiry, another request and the death of the server
in between. Signatures are valid: cryptography is an input.

**TotpReplay.** The two verifiers, each with its own stored step: `Verify` reads the
last step and finds the code's, `Consume` (or `CheckAccount` and `InsertStep`) stores
it in one statement that compares again. Its Init, Next and variables have names of
their own (`CodeInit`, `CodeNext`, `codeVars`), as a run has it beside ClubAuth.

**ControllerHandover.** The operator's workflows (`OpStep`, by the call they make
next), `restore()` as run by cron entry, timer or workflow (`RestoreStep`), the two
virtual machines, the ESPHome entry and its flow, and the files the programs leave
for each other: armed state, fence attestation, acceptance marker. A call by ssh may
fail with the command carried out or not; a workflow may be killed. `plan`, chosen in
the initial state from `Plans`, says which workflows the operator starts and which
watchdogs are installed; the properties name the plans they are about.

**PowerInterlock**, **ExteriorLights** follow Home Assistant's way: what is due runs
before time passes, a restart loses running scripts, delays and `for`s, helpers
without an initial value keep their state, a failing service call ends its run.
PowerInterlock counts in units of five seconds; its `setting` says which of the calls to
the socket may fail. The `use` of the lights says which demands there are and whether
somebody uses the switch.

**DnsImport.** Every request to AdGuard is a step that may fail; the listing, the
deletions and additions name by name, the second listing and the status entity.
Two service calls may overlap.

**AdCover.** The recogniser's decisions, its requests with a time-out (a request that
is given up is still carried out), the controller with its steps under the lock, the
keeper thread, the cover process, and the file that records the prior mute. That a muted
player has its record (`MuteIsRecorded`) is promised where no `pactl` fails (section 7).

**RecorderPause**, **RecorderTrials.** The trials that stop the recorder to measure
something else, one record for each version of the script: whether the emergency timer
looks for a marker, whether the trap resumes, which other units an overlap is looked for
in. A trial is a process of steps (`pc`) that may be interrupted (its trap runs) or
killed, the timer a second one, and two trials overlap where their checks let them. The
`suite` says which scripts are run, how many may die and how often the recorder restarts.
**TakenForAWhile** puts AdCover and RecorderPause beside each other: both take something
that must be given back.

## 5 Runs

TLC's instances are put together: an MC module holds several *parts*, each an instance
of a component with its own constants. A behaviour chooses a part at the
beginning and leaves the variables of the other components in an initial state; a
property says of each part what the component says of itself. A run thus answers one
question about several small systems, and its state space is the sum of theirs, not the
product. The type invariant of each component is a conjunct of a property of its run.

The safety runs EXTEND their components, whose variables and definitions have names of
their own for that reason, so that what a run checks is the very definition that a theorem
of section 8 names:

| MC module | Parts |
|---|---|
| `MCPackageTransactions` | PackageTransactions, as `crashes`, `faults` and `long` |
| `MCIntegration` | PlatformUpdate, ServiceLayer |
| `MCRecords` | `registrar` (ManagementPCs), `trail` (AuditLog), `sftp` (SftpApp) |
| `MCGateway` | `apply` (StewardApply), `review` (ReviewStore), `queue` (GatewayQueue), `releases` (GuardedRelease) |
| `MCHouse` | `handover`, `power`, `handler`, `dns`, `lights`; `cover` and `trials` (TakenForAWhile) |
| `MCClubAuth` | ClubAuth, TotpReplay |

INSTANCE is for a second set of constants (`Faulty`, `Checks`, `Recovering`) and for the
liveness runs. In `MCEnds` and `MCReturns` the parts take turns in the same variables
`x1, x2, ...`, and `Goes1, Goes2, ...` combine the fairness conditions of different parts;
as `part` never changes, WF of `Goes_j` in a behaviour is WF of that part's action. For
the same reason one leads-to stands for those of several parts: what a behaviour has begun
in its part can only end there.

| Run | Module | Question |
|---|---|---|
| `pkg_crash` | `MCPackageTransactions` | The engine. Does disk suffice wherever the process dies, memory whatever raises, is a failed operation undone, a commit exact, does an uninstall give back what preceded the package? (One package in two versions through 2 transactions, with 2 crashes and an edit, or 2 failing writes and an exchanged archive; two packages sharing a file through 4 undisturbed transactions) |
| `integration` | `MCIntegration` | Two updates of the integration; two calls with reloads. Is the integration never lost, does the right tree go live, do operations exclude each other, is a broken configuration undone? |
| `records` | `MCRecords` | Enrolled PCs, the SFTP app, the audit trail. Do what is recorded, accepted and reported agree, through failures and crashes? Does the trail implement the ledger? |
| `gateway` | `MCGateway` | Queue, releases, Steward, reviews. Is nothing lost, done twice, left half or left running, are others' edits kept? |
| `house` | `MCHouse` | Handover, power, package handler, names, cover, recorder, light. Is there one controller, do reboots stay bounded, are files, names, sound, recorder and light what was asked for? |
| `auth` | `MCClubAuth` | One outcome per challenge, counters and steps that only rise, sessions and keys for the rightful |
| `ends` | `MCEnds` | Does what has begun end and what was accepted get its answer? |
| `returns` | `MCReturns` | Does what was taken away come back, and what is meant for a while end? |
| `pkg_staledrift`, `hand_stale`, `ad_header`, `audit_race` | | the four statements of section 6, each violated |

Deadlock is not checked where requests, operations or mishaps are bounded: the model
rests when they are used up, and the program when nobody asks anything.

**Why the bounds suffice.** *Engine:* two files give every relation between an old and
a new manifest (kept, dropped, added back), and a file in a loop is independent of the
others except through the record, for which a first and a later one are enough. Two
transactions give upgrade, install after failure, uninstall and rollback of each;
three give rollback out of order; four give install, upgrade, reinstall, uninstall.
Two crashes give a crash in the recovery of a crash; two failing writes a failure in
the except clause of a failure. *Updater:* two updates give a rollback to, and from,
an older one. *Concurrency:* two calls, requests, imports, threads or ceremonies are
what the code's races are between; a third request is there where a backup or list can
be overwritten twice. *Registry:* two or three PCs give one that keeps what another
loses. *Queue:* two jobs and two overlaps give a run whose checkout lacks another's
result. *Releases:* two to four successive ones that share a file, or that repeat a shape no
other plan has, with up to two faults. *House:* two faults
in five programs; each duration is long enough to tell the timers apart and the units
keep their order (off 10 s < force 15 s < arm delay < stale arm < cool-down).

**Bounds that exclude.** Each passing property names its conditions ("as long as
nothing fails", "with one request at a time") in its comment: the part has no budget
for that mishap, because with it the code breaks the property. Section 7 lists these
cases with the lines; they are not hidden by small numbers.

**Fairness.** Only what goes on by itself is fair, and weakly: the next step of an
operation whose thread runs (it waits for nothing, or for locks that are released), a
handler's next step, the runner's, a script in the guest; Home Assistant's due steps
and time; the watchdogs' timers and their restore; the keeper and the controller's
lock holder. Strong fairness is assumed once, of a consumed enrolment code that waits
for the registry's lock: asyncio's lock is first come, first served. Breaks of the
broadcast, and the graphic at their end, are fair as well (the recogniser can do
nothing without). No fairness is assumed of requests, mishaps, people or restarts,
except that Home Assistant, once down, starts again.

Every property has a mutant, an operator in front of the definition it changes, as a
plausible slip in the code would have it: a live file replaced before the intent is
recorded, undoing from the disk's record instead of memory's, the latest baseline
instead of the first, a check carried out once instead of twice.

In the engine "touched" matters in most properties: if somebody else, or another
package's transaction, changes a file after a transaction began, undoing it restores
its own snapshot and not the newer content; the properties speak of files nobody else
touched.

## 6 Findings

Four statements of the repository that the code does not keep, each with the run that
shows it:

* `pkg_staledrift` (`deployment.py:1010`): an upgrade that removes a stale file records
  neither its hash nor its absence, so a file somebody creates there later is
  overwritten by an unforced rollback. `PRODUCTION_ACCEPTANCE.md:31` has rollback
  refuse a changed target.
* `hand_stale` (`ha906_emergency_restore_ha905_services_20261028.py:158`): the emergency
  script resumes 905 while the fence attestation still exists; when Node A's timer fires
  in between it starts 906 beside it. The script's own docstring: "NEVER resume target
  with VM906 active."
* `ad_header` (`cover.py:221`): the controller takes requests with the header
  `ad-cover-v071`, everybody else sends `ad-cover-v070`: no break is ever covered.
* `audit_race` (`deployment.py:1631`): the confirmation at set-up appends without the
  lock; beside an operation that appends, both records get one number and the chain
  fails for good, though nobody tampered.

## 7 Observations: what the bounds exclude

What the models can do and the code does not withstand. Each was a counterexample of
a property when its mishap was allowed; the run that keeps the property leaves the
mishap out, and the property's comment says so. Paths as in section 1;
`na.py` is `natural_automation_steward/src/natural_automation.py`.

*Engine* (`jd/deployment.py`)
* `:904` An upgrade removes a dropped file before its record on disk names it: after a
  crash there, recovery restores every other file but not this one, though its backup
  exists. So recovery is stated for declared files (`RecoveredIsRestored`).
* `:1064` A crash inside an uninstall is marked interrupted, but recovery and the
  emergency tool accept installs only.
* `:1012`, `:1039` After a crash inside a rollback the retry is refused because files
  "changed after deployment", though only the rollback changed them; `force` helps.
* `:1303` A file found identical by the first version and replaced by the second keeps
  the second's bytes after uninstall (`UninstallGivesBack` excepts it); a record from
  before an earlier uninstall is still chosen as the first.
* `:913` The audit append follows the committed record: if it raises, and the process
  then dies before the except clause has written, the record says committed and the
  files are restored. `:1074` Recovery of an old install overwrites what later ones did.
  `:619` The order of records rests on a wall clock.

*Updater* (`jd/deployment.py`, `jd/recovery_tool.py`)
* `:1651` Rollback and tool accept a transaction whose tree copy was cut off, and install
  it. `:1594` A failure after the swap is recorded as rolled back, with the new tree live.
  `:1623` The pending file survives that failure, and the next start confirms the update.
* `:1543` A crash between record and pending file, and `:1678` a rollback of an older
  update, leave an update that nobody confirms. `:1630` A set-up that confirms beside an
  update may write the older pending file back.

*Service layer* (`jd/__init__.py`)
* `:461` After a reload the automatic rollback is turned away by locks held elsewhere;
  `:203` a crash before the check leaves an unchecked install; `:210` one edited file
  makes the rollback raise. `:423` A caller is authorised before it waits.

*Registry* (`jd/management_pc.py`, `jd/__init__.py`)
* `:322` A user whose token cannot be made stays. `:364` A compensation whose keys cannot
  be re-applied does not restore the registry. `:348` A crash after the registry is saved
  leaves an active PC without a publisher. `:297` Two devices may share a publisher id.
* `__init__.py:487` An enrolment during set-up loses its key; `:475` one Supervisor error
  at a restart brings the password configuration back; `:329` so does the repair service.

*SFTP app*: `config_flow.py:168` the entry stores 2222 whatever port was chosen;
`management_pc.py:367` the compensation may apply old keys on a new port; `:394` the
exported host key may be a previous server's; `__init__.py:518` an app installed by an
enrolment stays when the entry is removed; an entry noted as the app's creator stays so
noted when the administrator removes that app and installs his own, and removing the entry
then removes his (`AppIsKept` allows him one visit). `config_flow.py` `async_step_user` also uses a
name `result` that nothing defines.

*Audit log*: `audit.py:93` a line cut off by a crash or a short write is never repaired;
every later operation is refused.

*Queue*: `jns-nodec-gateway.yml:22` a job submitted while a run is in progress has a
checkout without that run's results and executes its jobs again; `dispatcher.sh:94` a
legacy request is copied to a name the dispatcher does not look for.

*Package handler*: `:142` the trap is set before the backup exists; if the backup fails the
rollback removes the package. A killed handler, and a command that takes effect late,
leave what they leave; the rollback does not restart Core.

*Releases*: `heating_presence/patch_vm905.py:121` the second write's failure leaves the
first; `lux_priority/deploy.py:14` a patch that was given up goes on during the next
job; `garden_features/rollback_vm905.py:28` all files are compared before the first is
restored, none again; `doorbell_monitor/deploy.py:105` a rollback's refusal is not told;
`wc-lighting/deploy.py:56` a check that is late is followed by nothing;
`lux_priority/deploy.py:143` files meant to stay for inspection are restored. A job that is
cancelled between patch and check is recovered by nobody.
`doorbell/porch-darkday-apply.py:137` and `network/set_ha_general_urls.py:131` put a backup
back without a look at the file, so an edit made meanwhile is lost;
`apply-audio-lighting-live.py:412` a failure in the middle of the moves restores nothing;
`lux_manual_override/deploy_v2.py:104` the exit code of the reload after a restore is
ignored, so a release taken back may run on untold (`BlockedRunsNothing` is about scripts
that look at it).

*Steward* (`steward/writer.py`, `na.py`): `writer.py:123` a failing request copies a backup
over another's success, and over edits (`:31`); `:56` two requests of one second share a
backup; `:83` a late answer of the writing script is outside the try block. `na.py:990`
two requests may apply one proposal; `:995` the re-check passes when the automations
cannot be read; `:1009` a recording that fails is told as nothing changed. Reviews:
`:645`, `:623`, `:552`, `:600` load and save are separate, so a concurrent decision,
proposal or list entry is lost; `:461` a blind scan forgets all of them.

*Club authentication*: a recovery needs two approvers whose own sessions of fifteen
minutes live at once, so no fairness of two people makes it end. The two TOTP functions
keep separate stores, and nothing in the repository calls either.

*Handover* (`gateway/solar/`): `ha906_nodec_auto_failback_20261028.py:173` an acceptance
during a restore leaves nobody running; `ha906_emergency_restore_ha905_services_20261028.py:188`
the cron entry may start 906 between its check and the resumption of 905;
`ha906_to_905_exclusive_cutover_operator_20261028.py:75` reports a restoration that found
the lock taken.

*Power*: `:151` a restart loses both timers that clear an arm, and the one that ends a
cool-down; a call that fails while cutting leaves lease and cool-down on.

*Names*: `:173` two overlapping imports may leave two answers for a name; two MACs with the
same last six digits take it from each other.

*Cover*: `vision.py:155` a start that is late counts as declined while the cover is shown;
`:192` the end after lost sampling is sent once; `cover.py:90` a failing `pactl` loses the
record of the mute. The passing runs take the header as agreed (section 6 has the one
with the header as installed), and a player's new stream as unmuted.

*Recorder* (`gateway/trusted/`): `veyra-recorder-load-ab-v0.5.5.sh:73` an interruption
between the stop and `paused=1` leaves the trap nothing to resume, and it cancels the timer;
`veyra-obs-xwayland-gpu-v1.3.3.sh:147` the timer of a run interrupted before its marker
finds the next run's marker, takes it away just before that run's stop, and nobody resumes.

*Lights*: `jns_garden_features_backdoor.yaml:67` two demands that overlap record each
other's light as one that was on before, and it stays on.

## 8 Proofs

The modules named `...Proofs` are checked by TLAPS: for every value of the constants
that the ASSUMEs of the component allow, so for any number of files, packages, PCs,
releases, jobs, requests, writers, officers, imports, trials and transactions, and any
number of mishaps of each kind, in any plan. The assumptions say of what type a constant
is, that a value standing for "none" is no other value, that a `Window` is one the code is
called with, that ports start at the preferred one, and which scripts a trial may be made
of (`ScriptOK`). A property's own conditions ("as long as nobody reloads") are in its
definition. Every safety and action property of the passing runs has its theorem; where the
name does not show which, it is in brackets.

| Module | Component | Theorems |
|---|---|---|
| `PackageTransactionsProofs` | PackageTransactions | `TypeCorrect`, `UnfinishedUndoable`, `RunningUndoable`, `FailedRestored`, `RecoveredRestored`, `RolledBackRestored`, `CommitExact`, `CommittedIntact`, `UninstallGives` (`UninstallGivesBack`) |
| `ServiceLayerProofs` | ServiceLayer | `Exclusion` (`EngineExclusive`), `BrokenUndone`; `TypeCorrect` |
| `PlatformUpdateProofs` | PlatformUpdate | `NeverGone` (`NeverLost`), `RightTree` (`RightTreeGoesLive`); `TypeCorrect` |
| `RecordsProofs` | AuditLog | `TrailTrue` (`TrailIsTrue`), `Refinement` (`ImplementsLedger`); `LockedNeverOverlap`, `TypeCorrect` |
| | ManagementPCs | `OnlyKnown` (`OnlyKnownKeys`), `ReportTrue` (`ReportIsTrue`), `CredentialsKept` |
| | SftpApp | `WhereItWasTold` (`AppIsWhereTold`), `AppKept` |
| `GatewayProofs` | GatewayQueue | `JobsKept` |
| | ReviewStore | `DecisionsKept` |
| | StewardApply | `AppliedTransactionally` (`ApplyIsTransactional`) |
| `GuardedReleaseProofs` | GuardedRelease | `WholeOrGoneAlways`, `NothingElseTaken` (`OthersAreKept`), `EndsAccepted` (`StartedIsAccepted`); `TypeCorrect` |
| `ClubAuthProofs` | ClubAuth | `OneOutcome` (`OneOutcomePerChallenge`), `CountsRise` (`CountsGoUp`), `RightfulOnly` (`OnlyTheRightful`); `TypeCorrect` |
| | TotpReplay | `AcceptedRises` (`AcceptedGoesUp`) |
| `HouseProofs` | ControllerHandover | `OneOwner` (`OneController`); `TypeCorrect` |
| | PackageHandler | `Honest` (`HandlerIsHonest`) |
| | DnsImport | `Served` (`NamesAreServed`) |
| | ExteriorLights | `LightKept` (`LightIsKept`) |
| | PowerInterlock | `RebootsBounded` (`RebootsAreBounded`) |
| | TakenForAWhile | `NothingTaken` (`NothingLeftTaken`) |

The `TypeCorrect` other than the first, and `LockedNeverOverlap`, are no properties of a
run by themselves.

Hardly any of these is inductive. What each argument adds:

**PackageTransactions**, while an operation is unfinished (`UnfinishedUndoable`:
wherever the process dies, the record on disk undoes; `RunningUndoable`: whatever
raises, memory undoes). `IInv` adds to the two:

* `NumberedInv`: transactions that exist have numbers up to `count`. So a new one
  gets fresh ghosts, and an edit touches every transaction there is.
* `SyncedInv`: disk and memory agree on `action` and `previously_existed` of every
  entry that must be undoable from disk. This turns the property of memory into
  the property of the disk (`CurrentUndoable`); for stale files it does not hold
  (section 7, `:904`).
* `VisitInv`: a file still to be visited has no entry yet; the file at hand has none
  until its backup is made, and its backup is its snapshot; from `RecordIntent` on
  it has one that reverts it. So a step that changes a live file changes one whose
  undoing no longer looks at the live content.
* `PhaseInv`: an install visits declared files first and others after; this places
  the file at hand on the right side of `declared`.

There is one lemma per action. Three lemmas carry what they share: `FrameUndoable` (a
transaction nobody touches stays undoable), `RunningStepUndoable` (the running one is
undoable through memory, the others through the frame) and `SaveInv`, `EnterUndoInv` (a
record write either succeeds, and disk and memory agree, or enters the except clause
with a record that undoes everything).

What an operation has come to (`FailedRestored`, `RecoveredRestored`,
`RolledBackRestored`, `CommitExact`) rests on `OInv`, on top of `IInv`: what the record
on disk is called at each step (`StatusInv`), that an undoing has undone what it has
behind it (`UndoneInv`), that an entered file holds what its entry says (`EnteredInv`),
that an install has entered every declared file behind it (`DeclaredInv`), and the
outcome itself, with a clause for committed records: their undoing would give back what
was before (`OutcomeInv`). `CommittedIntact` adds that, as long as nothing raises or
dies, only a rollback undoes a committed transaction (`IntactInv`).

That an uninstall gives back the user's files (`UninstallGives`) is a statement about all
the transactions there have been, and rests on `GInv`: as long as nobody edits, a file has
been touched, since a transaction, by later transactions only (`UntouchedInv`); an entry
says rightly whether there was a file (`EntriesInv`); what any committed transaction would
restore is what preceded it (`KeptInv`); and an uninstall has given back the files it has
behind it (`GivenInv`). The baseline it looks up is the first committed one that replaced
the file (`BaselineGives`), and what preceded that one is the user's.

**ServiceLayer.** `LockInv`: the lock file and one manager's thread lock are with the one
running operation, though every set-up has locks of its own. `QueueInv`: a call that is
past waiting is the head of the queue it joined; together with `GenInv` and `GenBound`
(there are no more set-ups than reloads and crashes were spent) nobody is turned away
before the first reload. `BrokenUndone`: an install remembers what its transaction was
asked (`InstallInv`, `FreshInv`), so the call that broke the configuration is the one that
attends to it (`AttendedInv`); another call's rollback cannot make it stop.

**PlatformUpdate.** Before a tree is moved away or deleted there is a whole backup of it
(`SafeInv`): the backup of the update at hand is `live` until `MoveAway`, and
a transaction that some step will restore from stays readable (`PlaceInv`). That backup
is the tree the update replaced or is cut off (`CopyInv`), and whole once anything has
been replaced or confirmed; the start-up confirmation, which takes no lock, cannot mark an
update that is still being copied, as its number is in no pending file (`FreshInv`).
`RightTree` adds what is live when an operation is about to be recorded (`TrueInv`) and
where the replaced tree is while an installation fails (`FailInv`): the hold, the backup
or the live directory. `LeftInv` makes "has never happened" a condition that a step can
only end. The emergency tool needs none of the conditions.

**AuditLog.** A writer about to write holds a whole record (`HeldInv`) and has seen only
whole lines (`KeptInv`); without overlaps at most one append is under way (`AloneInv`), so
its record still follows the last line (`ChainInv`); a change by hand leaves a line that
is not whole, or a last one numbered too high, and whatever is appended after it keeps
that (`SeenInv`). `LockedNeverOverlap` shows that the condition on overlaps is what the
engine's lock gives: where every writer takes it (`HolderInv`) `overlapped` stays false.
`Refinement` maps initial states to initial states and every step to Add, Settle, Lose,
Break or a stutter of Ledger, for any mishaps.

**ManagementPCs.** `MemInv` says, for each kind of operation, what it holds in memory, how
that differs from the registry on disk, and which stores have followed it at each step.
From that come the app's keys (`KeysInv`, `SyncedInv`): they are of known PCs, of the old
or the new registry while an operation is between the two, and after a crash of anybody
until the start-up policy is through (`Loose`); no two PCs share a user (`UsersInv`), and
who was reported revoked is so in the registry and has no user (`RevokedInv`); a publisher's key is
that of an active PC (`TrustInv`); an active PC nobody is working on has user, publisher
and key (`WholeInv`, where nothing fails or interferes). The type invariant needs that no more users wait to be created than
there is room for (`CountInv`), an argument about cardinalities. `OnlyKnownKeys` is
promised through one failing call or any crashes, not through a second failing call,
in the compensation of the first (section 7, `:364`).

**SftpApp.** What a call is at each of its steps (`CallInv`), whether the app is there then
(`ThereInv`), that the port chosen is still the lowest free one (`PortInv`; that there is
one is well-foundedness of the numbers, taken from the library), that the server runs with what was written (`ConfInv`), that what
PCs were told is what the server has where nobody else interferes (`ToldInv`), and who
installed the app (`OwnerInv`).

**GatewayQueue.** A run's workspace differs from the tree it checked out by what it has
done, never by what it lacks (`AddsInv`); unless a run was stopped, at most the job under
way has a status without a result, and everything else is as checked out or complete
(`TidyInv`); without overlapping submissions the run has what `main` shows (`LatestInv`);
and what its tree shows as completed it leaves alone (`LeftAloneInv`). So publishing, a
reset and the run's own paths put back, takes nothing away in any of its attempts.

**ReviewStore.** One operation at a time, what a request has loaded is still what the
files say when it saves (`CopyInv`, `AloneInv`), so its save changes its own entry only;
a proposal names, and is named by, its suggestion (`ListsInv`).

**StewardApply.** Whatever may yet replace `automations.yaml` (the backup of a request that
may restore, its temporary file, the data its script has read) holds all that was applied
(`InTimeInv`) and, where no restoration fails, nothing of a request that failed
(`CleanInv`); the targets differ in each of them (`TargetInv`). This is with one request
served at a time and no late answer or crash (`InTime`; section 7 says what happens
otherwise). With one at a time alone, a script left behind is older than this second
(`ByOneInv`), so nobody names a backup for another's second (`StampsApart`).

**ClubAuth.** No two requests at work have the same challenge, as claiming is one
statement (`ServedOnce`); what has come out of a challenge is out of every request's
reach (`SpentOnce`, `IssuedInv`); approvals that count are by two officers, neither of
them the one who recovers (`ApprovedInv`); a session with a live second factor is not
revoked (`LiveInv`).

**TotpReplay.** The stored step bounds the accepted ones
(`StoredBounds`).

**ControllerHandover.** A workflow that called `restore()` waits for it (`LockInv`); the
source is started only with the target paused (`FenceInv`); while the target runs with
its entry, or may get it, the source is stopped (`TargetInv`); the rest is what the
emergency script (`EmergencyInv`) and the acceptance (`AcceptInv`) know at each of their
calls, and that it is still so when they act on it.

**PackageHandler.** The running job's backup is what it found, so the trap puts that back
(`RestoredInv`), where neither backup nor rollback fails, only commands that look come
late and the handler is not killed; what any job found is in
some backup from the time the next has made its own (`KeptInv`, `FreshInv`); each step has
made sure of written, checked and loaded (`InstalledInv`); only what was given up may come
late (`LateInv`).

**DnsImport.** Of a name the loop has not come to, its listing still tells the answers; the
name it is at is the only one it may have left without an answer; every other one has its
one address (`LoopInv`). So a failure leaves at most one gap (`GapInv`), with one importer.

**ExteriorLights.** A light the user put on is noted as such by every timer that runs, or
has run out and waits for its release (`FlagInv`, `DueInv`).

**PowerInterlock.** A reboot is under way or its cool-down lasts, unless the last cut is
long past (`PaceInv`); the stale-arm automation counts as long as the arm lasts (`ArmInv`);
a socket that is off is about to be switched on by the guard, or by the forced restoration
in the time that is left (`OffInv`). It holds for any delays.

**AdCover.** While the cover is being put up there is no record of the present player, and
a record of the present player is right (`RecordInv`). **RecorderPause.** A stopped recorder
has a trial whose timer will resume it, or one that went on without the note it goes by
(`StoppedInv`, `TimerAnswers`, `WentUnnoted`), given that a trial has its timer and marker
ready before it stops the process (`ReadyInv`). The proof needs nothing of what the trials
look for to keep out of each other's way, their lock included: each one's own timer suffices, for any scripts,
number of trials, deaths and restarts, as long as no two share a marker (`MarkersApart`).

**GuardedRelease.** How far each process in the guest is (`CountInv`); where no process
outlives its job, jobs follow each other and process and job are in step (`JobInv`);
where nobody else changes a file, each file of a job at work is as read or as to be
written (`MineInv`). For `WholeOrGoneAlways`, `Part` says where a release is at each
point of its job, down to which files are written (`Written`) or restored (`Recovered`),
and `Loaded` what Core has of it. The conditions of `WholeOrGone` on the other scripts
are needed: a release is at the mercy of one that writes a file whatever is in it.

Only model-checked: the four liveness properties (`OperationsEnd`, `AcceptedIsAnswered`,
`TakenAwayReturns`, `TemporaryEnds`), as fairness and ENABLED are outside the prover's
reach, and the four violations. No module that is proved about declares a recursive
operator.

## 9 What is not modelled

* **Inbox, quarantine, reports; trust store and package validation**: one rename, reads,
  and pure functions of one archive. An archive that passes is a member of `Packages`.
* **Progress model**: a lost update changes an estimate on a progress bar.
* **Management bridge, DNS reservation importer, identity failover, club schema and site**:
  commands and texts that go to other machines; constraints that PostgreSQL enforces.
* **Most gateway scripts, dashboards, media and desktop tools, mail server, workflows,
  knowledge files**: each written for one change of one house and run once, or user
  interface and configuration of third-party services. They are most of the repository's
  lines, repeat the patch-check-restore protocol of GuardedRelease with other file
  names, or have no state of their own, so a model of each would say nothing new. That is
  why the modules, which cover the parts that do have lasting state and concurrency, map
  a small share of all lines.
* **Parts of modelled components** (status *partly* in `PROJECT.json`): the emergency
  tool on a package transaction; status calls of the SFTP app; the card resources of
  network identity; the releases of desktops and telephones; template training of the recogniser; the porch
  light and the evening schedule; the language analysis of Natural Automation;
  cryptography.
* Liveness of an enrolment through a crash: a used code is gone, by design.
