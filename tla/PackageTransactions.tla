------------------------ MODULE PackageTransactions ------------------------
(***************************************************************************)
(* The package transaction engine of jns_deployment (deployment.py):       *)
(* install, upgrade, uninstall, rollback and crash recovery of packages    *)
(* of files under the Home Assistant configuration directory.              *)
(*                                                                         *)
(* Every durable effect (a file replaced, a record written) is a step of   *)
(* its own, so that the process may die, a write may fail, or somebody     *)
(* may edit a file between any two of them.  An operation holds the        *)
(* engine's file lock from its first step to its last, hence at most one   *)
(* is in flight.  A content stands for its own SHA-256.                    *)
(***************************************************************************)
EXTENDS Naturals

CONSTANTS
    Targets,     \* relative paths below the configuration root
    Contents,    \* what a file may hold
    Absent,      \* the value of a path with no file (and of a hash that is None)
    Packages,    \* signed archives that may lie in the inbox
    PackageIds,  \* values of the manifest's package_id
    IdOf,        \* [Packages -> PackageIds]
    FilesOf,     \* [Packages -> [Targets -> payload, Absent if not declared]]
    MaxTx,       \* bound: transactions ever created
    Budget       \* bound: how often each kind of mishap may happen

Mishaps == {"crash",  \* the process dies in the middle of an operation
            "io",     \* a write or an audit append raises
            "edit",   \* somebody else changes a configuration file
            "swap"}   \* the archive in the inbox is replaced between plan and staging

Slot == Contents \cup {Absent}
TxIds == 1..MaxTx

ASSUME AbsentAssumption == Absent \notin Contents
ASSUME PackageAssumption == /\ IdOf \in [Packages -> PackageIds]
                            /\ FilesOf \in [Packages -> [Targets -> Slot]]
ASSUME BoundAssumption == MaxTx \in Nat /\ Budget \in [Mishaps -> Nat]

(***************************************************************************)
(* One entry of a record's "files" list, and the record itself.  The list  *)
(* holds at most one entry per target: it is a function, NoItem where the  *)
(* list has none.                                                          *)
(***************************************************************************)
Item == [action : {"none", "unchanged", "create", "replace", "remove_stale", "uninstall"},
         previously_existed : BOOLEAN,
         installed : Slot,
         post_absent : BOOLEAN]
NoItem == [action |-> "none", previously_existed |-> FALSE,
           installed |-> Absent, post_absent |-> FALSE]

Statuses == {"none", "staging", "committing", "committed", "interrupted", "recovered",
             "rolled_back", "rolled_back_after_failure",
             "rollback_failed_after_install_failure"}
Record == [kind : {"none", "install", "uninstall"},
           package_id : PackageIds \cup {"none"},
           status : Statuses,
           files : [Targets -> Item]]
NewRecord(kind, id, status) ==
    [kind |-> kind, package_id |-> id, status |-> status, files |-> [t \in Targets |-> NoItem]]
NoRecord == NewRecord("none", "none", "none")

VARIABLES
    live,      \* [Targets -> Slot]: the configuration directory
    backup,    \* [TxIds -> [Targets -> Slot]]: the copies below backups/<transaction>
    records,   \* [TxIds -> Record]: transaction.json of every transaction, on disk
    count,     \* how many transactions exist; ids are in created_ns order
    pc,        \* the next step of the operation that holds the lock
    tx,        \* the transaction it works on
    mem,       \* its in-memory copy of that transaction's record
    manifest,  \* the staged payload of an install
    todo,      \* the targets its current loop has still to visit
    tgt,       \* the target its current iteration is at
    budget,    \* mishaps left
    pre,       \* ghost: live when each transaction began
    touched,   \* ghost: targets another hand changed since it began
    declared   \* ghost: targets the staged manifest of an install declares

disk == <<backup, records, count>>
worker == <<pc, tx, mem, manifest, todo, tgt>>
ghosts == <<pre, touched, declared>>
vars == <<live, disk, worker, budget, ghosts>>

NoFiles == [t \in Targets |-> Absent]
Declared(files) == {t \in Targets : files[t] # Absent}

Init ==
    /\ live \in [Targets -> Slot]
    /\ backup = [x \in TxIds |-> NoFiles]
    /\ records = [x \in TxIds |-> NoRecord]
    /\ count = 0
    /\ pc = "idle" /\ tx = 0 /\ mem = NoRecord /\ manifest = NoFiles
    /\ todo = {} /\ tgt = "none"
    /\ budget = Budget
    /\ pre = [x \in TxIds |-> NoFiles]
    /\ touched = [x \in TxIds |-> {}]
    /\ declared = [x \in TxIds |-> {}]

Spend(mishap) == budget[mishap] > 0 /\ budget' = [budget EXCEPT ![mishap] = @ - 1]

-----------------------------------------------------------------------------
(* What the records say.                                                   *)

Committed(id, x) == records[x].package_id = id /\ records[x].status = "committed"

\* The install a package currently stands on: its latest committed lifecycle
\* record, unless that is an uninstall.  Empty or a singleton.
ActiveInstall(id) ==
    {x \in TxIds : /\ Committed(id, x)
                   /\ records[x].kind = "install"
                   /\ \A y \in TxIds : Committed(id, y) => y <= x}

ManagedItem(item) == item.installed # Absent /\ item.action # "remove_stale"

\* Files of the active install that the given manifest no longer declares.
StaleTargets(id, files) ==
    {t \in Targets : /\ files[t] = Absent
                     /\ \E x \in ActiveInstall(id) : ManagedItem(records[x].files[t])}
ActiveFiles(id) == StaleTargets(id, NoFiles)
DriftedFrom(id, t) == \E x \in ActiveInstall(id) : live[t] # records[x].files[t].installed

Naming(id, t) ==
    {x \in TxIds : /\ Committed(id, x)
                   /\ records[x].kind = "install"
                   /\ records[x].files[t].action \in {"create", "replace", "unchanged"}}

\* The first committed install that names a target says what was there before
\* this package managed it.  Empty or a singleton.
FirstNaming(id, t) == {x \in Naming(id, t) : \A y \in Naming(id, t) : x <= y}
NothingBefore == [mode |-> "absent", value |-> Absent]
BaselineFrom(chosen, t) ==
    IF chosen = {} THEN NothingBefore
    ELSE LET x == CHOOSE y \in chosen : TRUE
             action == records[x].files[t].action
         IN  CASE action = "create"  -> NothingBefore
               [] action = "replace" -> [mode |-> "restore", value |-> backup[x][t]]
               [] OTHER              -> [mode |-> "preserve", value |-> live[t]]

\* Mutant: the latest install instead of the first.
BaselineOfLatest(id, t) ==
    BaselineFrom({x \in Naming(id, t) : \A y \in Naming(id, t) : x >= y}, t)

Baseline(id, t) == BaselineFrom(FirstNaming(id, t), t)

\* What undoing record r of transaction x leaves at t.
Reverts(r, t) == r.files[t].action \notin {"none", "unchanged"}
\* Mutant: files the transaction created are not removed.
RevertedWithBackup(r) == {t \in Targets : Reverts(r, t) /\ r.files[t].previously_existed}

Reverted(r) == {t \in Targets : Reverts(r, t)}
UndoValue(r, x, t) == IF ~Reverts(r, t) THEN live[t]
                      ELSE IF r.files[t].previously_existed THEN backup[x][t] ELSE Absent

-----------------------------------------------------------------------------
(* Pieces of a step.                                                       *)

ChangedBy(actor, t, v) ==
    touched' = [x \in TxIds |-> IF x <= count /\ x # actor /\ live[t] # v
                                THEN touched[x] \cup {t} ELSE touched[x]]
SetLive(actor, t, v) ==
    /\ live' = [live EXCEPT ![t] = v]
    /\ ChangedBy(actor, t, v)
    /\ UNCHANGED <<pre, declared>>

TargetSteps == {"intend", "copy", "verify", "baseline", "record"}  \* steps that work on tgt

BackUp(t) == backup' = [backup EXCEPT ![tx][t] = live[t]]

\* The operation returns or raises: the lock is released, memory is gone.
Finish ==
    /\ pc' = "idle" /\ tx' = 0 /\ mem' = NoRecord /\ manifest' = NoFiles
    /\ todo' = {} /\ tgt' = "none"

\* Mutant: undo what the record on disk says.
EnterUndoFromDisk(r) ==
    /\ pc' = "undo" /\ mem' = [records[tx] EXCEPT !.status = r.status]
    /\ todo' = Reverted(mem') /\ tgt' = "none"
    /\ UNCHANGED <<tx, manifest>>

\* The except clause: undo what the in-memory record says was changed.
EnterUndo(r) ==
    /\ pc' = "undo" /\ mem' = r /\ todo' = Reverted(r) /\ tgt' = "none"
    /\ UNCHANGED <<tx, manifest>>

\* Replace transaction.json by r and go on to next, or fail to write it.
Save(r, next, rest) ==
    \/ /\ records' = [records EXCEPT ![tx] = r]
       /\ mem' = r /\ pc' = next /\ todo' = rest
       /\ tgt' = IF next \in TargetSteps THEN tgt ELSE "none"
       /\ UNCHANGED <<tx, manifest, budget>>
    \/ Spend("io") /\ EnterUndo(r) /\ UNCHANGED records

WithItem(t, item) == [mem EXCEPT !.files[t] = item]

-----------------------------------------------------------------------------
(* install_package.                                                        *)

\* A new transaction: its directory and its first record.
Create(record) ==
    /\ pc = "idle" /\ count < MaxTx
    /\ count' = count + 1 /\ tx' = count'
    /\ mem' = record
    /\ records' = [records EXCEPT ![count'] = record]
    /\ pre' = [pre EXCEPT ![count'] = live]
    /\ todo' = {} /\ tgt' = "none" /\ pc' = "started"

\* The plan must not be blocked by drift of a file it would remove.
BeginInstall(p) ==
    /\ \A t \in StaleTargets(IdOf[p], FilesOf[p]) : ~DriftedFrom(IdOf[p], t)
    /\ Create(NewRecord("install", IdOf[p], "staging"))
    /\ manifest' = FilesOf[p]
    /\ UNCHANGED <<live, backup, budget, touched, declared>>

\* The audit event "started" is appended outside the try block.
StartAuditFails ==
    /\ pc = "started" /\ Spend("io")
    /\ Finish
    /\ UNCHANGED <<live, disk, ghosts>>

\* Mutant: the planned files are installed from the archive found later.
StageInstallAsPlanned ==
    /\ pc = "started" /\ mem.kind = "install"
    /\ \/ UNCHANGED <<manifest, budget>>
       \/ Spend("swap") /\ \E q \in Packages : manifest' = FilesOf[q]
    /\ mem' = [mem EXCEPT !.status = "committing"]
    /\ records' = [records EXCEPT ![tx] = mem']
    /\ declared' = [declared EXCEPT ![tx] = Declared(manifest')]
    /\ pc' = "files" /\ todo' = Declared(manifest) \cap Declared(manifest')
    /\ UNCHANGED <<live, backup, count, tx, tgt, pre, touched>>

\* The archive is opened and validated again, and staged: whatever lies in
\* the inbox under that name by now.
StageInstall ==
    /\ pc = "started" /\ mem.kind = "install"
    /\ \/ UNCHANGED <<manifest, budget>>
       \/ Spend("swap") /\ \E q \in Packages : manifest' = FilesOf[q]
    /\ mem' = [mem EXCEPT !.status = "committing"]
    /\ records' = [records EXCEPT ![tx] = mem']
    /\ declared' = [declared EXCEPT ![tx] = Declared(manifest')]
    /\ pc' = "files" /\ todo' = Declared(manifest')
    /\ UNCHANGED <<live, backup, count, tx, tgt, pre, touched>>

\* Mutant: the loop does not advance past an unchanged file.
LeaveUnchangedForever(t) ==
    /\ pc = "files" /\ t \in todo /\ live[t] = manifest[t]
    /\ Save(WithItem(t, [action |-> "unchanged", previously_existed |-> TRUE,
                         installed |-> manifest[t], post_absent |-> FALSE]),
            "files", todo)
    /\ UNCHANGED <<live, backup, count, ghosts>>

\* The file is already what the package would write.
LeaveUnchanged(t) ==
    /\ pc = "files" /\ t \in todo /\ live[t] = manifest[t]
    /\ Save(WithItem(t, [action |-> "unchanged", previously_existed |-> TRUE,
                         installed |-> manifest[t], post_absent |-> FALSE]),
            "files", todo \ {t})
    /\ UNCHANGED <<live, backup, count, ghosts>>

\* Mutant: the live file is replaced without the intent on disk.
BackUpFileWithoutIntent(t) ==
    /\ pc = "files" /\ t \in todo /\ live[t] # manifest[t]
    /\ BackUp(t)
    /\ pc' = "copy" /\ tgt' = t /\ todo' = todo \ {t}
    /\ UNCHANGED <<live, records, count, tx, mem, manifest, budget, ghosts>>

BackUpFile(t) ==
    /\ pc = "files" /\ t \in todo /\ live[t] # manifest[t]
    /\ BackUp(t)
    /\ pc' = "intend" /\ tgt' = t /\ todo' = todo \ {t}
    /\ UNCHANGED <<live, records, count, tx, mem, manifest, budget, ghosts>>

\* The intent is on disk before the live file is touched.
RecordIntent ==
    /\ pc = "intend"
    /\ LET existed == backup[tx][tgt] # Absent
           action == CASE mem.kind = "uninstall" -> "uninstall"
                       [] existed                -> "replace"
                       [] OTHER                  -> "create"
       IN  Save(WithItem(tgt, [action |-> action, previously_existed |-> existed,
                               installed |-> Absent, post_absent |-> FALSE]),
                IF mem.kind = "uninstall" THEN "baseline" ELSE "copy", todo)
    /\ UNCHANGED <<live, backup, count, ghosts>>

CopyStaged ==
    /\ pc = "copy"
    /\ SetLive(tx, tgt, manifest[tgt])
    /\ pc' = "verify"
    /\ UNCHANGED <<disk, tx, mem, manifest, todo, tgt, budget>>

VerifyCopy ==
    /\ pc = "verify" /\ live[tgt] = manifest[tgt]
    /\ Save(WithItem(tgt, [mem.files[tgt] EXCEPT !.installed = manifest[tgt]]), "files", todo)
    /\ UNCHANGED <<live, backup, count, ghosts>>

CopyMismatch ==
    /\ pc = "verify" /\ live[tgt] # manifest[tgt]
    /\ EnterUndo(mem)
    /\ UNCHANGED <<live, disk, budget, ghosts>>

\* All declared files are in place: turn to the previous version's leftovers.
FilesInstalled ==
    /\ pc = "files" /\ todo = {}
    /\ pc' = "stale" /\ todo' = StaleTargets(mem.package_id, manifest)
    /\ UNCHANGED <<live, disk, tx, mem, manifest, tgt, budget, ghosts>>

StaleDrift(t) ==
    /\ pc = "stale" /\ t \in todo /\ DriftedFrom(mem.package_id, t)
    /\ EnterUndo(mem)
    /\ UNCHANGED <<live, disk, budget, ghosts>>

\* Mutant: the entry is not even appended in memory before the change.
BackUpStaleUnlisted(t) ==
    /\ pc = "stale" /\ t \in todo /\ ~DriftedFrom(mem.package_id, t)
    /\ BackUp(t)
    /\ pc' = "baseline" /\ tgt' = t /\ todo' = todo \ {t}
    /\ UNCHANGED <<live, records, count, tx, mem, manifest, budget, ghosts>>

\* The entry is appended in memory only: the record on disk learns of it
\* after the live file has changed.
BackUpStale(t) ==
    /\ pc = "stale" /\ t \in todo /\ ~DriftedFrom(mem.package_id, t)
    /\ BackUp(t)
    /\ mem' = WithItem(t, [action |-> "remove_stale", previously_existed |-> TRUE,
                           installed |-> Absent, post_absent |-> FALSE])
    /\ pc' = "baseline" /\ tgt' = t /\ todo' = todo \ {t}
    /\ UNCHANGED <<live, records, count, tx, manifest, budget, ghosts>>

\* Mutant: the restored content is not entered as installed.
ApplyBaselineUnrecorded ==
    /\ pc = "baseline"
    /\ LET b == Baseline(mem.package_id, tgt)
       IN  /\ live[tgt] = Absent => \/ b.mode = "restore"
                                    \/ b.mode = "absent" /\ mem.kind = "uninstall"
           /\ SetLive(tx, tgt, b.value)
           /\ mem' = WithItem(tgt, [mem.files[tgt] EXCEPT !.post_absent = (b.mode = "absent")])
    /\ pc' = "record"
    /\ UNCHANGED <<disk, tx, manifest, todo, tgt, budget>>

\* Put back what preceded the package (also a step of uninstall).
ApplyBaseline ==
    /\ pc = "baseline"
    /\ LET b == Baseline(mem.package_id, tgt)
       IN  /\ live[tgt] = Absent => \/ b.mode = "restore"
                                    \/ b.mode = "absent" /\ mem.kind = "uninstall"
           /\ SetLive(tx, tgt, b.value)
           /\ mem' = WithItem(tgt, [mem.files[tgt] EXCEPT
                         !.installed = b.value,
                         !.post_absent = (b.mode = "absent" /\ mem.kind = "uninstall")])
    /\ pc' = "record"
    /\ UNCHANGED <<disk, tx, manifest, todo, tgt, budget>>

\* The file vanished since it was backed up; uninstall tolerates that when
\* there is nothing to put back.
BaselineFails ==
    /\ pc = "baseline" /\ live[tgt] = Absent
    /\ LET mode == Baseline(mem.package_id, tgt).mode
       IN  mode = "preserve" \/ (mode = "absent" /\ mem.kind = "install")
    /\ EnterUndo(mem)
    /\ UNCHANGED <<live, disk, budget, ghosts>>

RecordOutcome ==
    /\ pc = "record"
    /\ Save(mem, IF mem.kind = "uninstall" THEN "uninstall" ELSE "stale", todo)
    /\ UNCHANGED <<live, backup, count, ghosts>>

Commit ==
    /\ pc \in {"stale", "uninstall"} /\ todo = {}
    /\ Save([mem EXCEPT !.status = "committed"], "audit", {})
    /\ UNCHANGED <<live, backup, count, ghosts>>

\* The audit event "committed" is appended inside the try block: see Fail.
AuditCommit ==
    /\ pc = "audit"
    /\ Finish
    /\ UNCHANGED <<live, disk, budget, ghosts>>

\* Anything in the try block may raise before it has an effect.
Fail ==
    /\ \/ pc = "started" /\ mem.kind = "install"
       \/ pc \in {"files", "stale", "uninstall", "audit"} \cup TargetSteps
    /\ Spend("io") /\ EnterUndo(mem)
    /\ UNCHANGED <<live, disk, ghosts>>

-----------------------------------------------------------------------------
(* uninstall_package.                                                      *)

BeginUninstall(id, force) ==
    /\ ActiveInstall(id) # {}
    /\ force \/ \A t \in ActiveFiles(id) : ~DriftedFrom(id, t)
    /\ Create(NewRecord("uninstall", id, "committing"))
    /\ UNCHANGED <<live, backup, manifest, budget, touched, declared>>

StartUninstall ==
    /\ pc = "started" /\ mem.kind = "uninstall"
    /\ pc' = "uninstall" /\ todo' = ActiveFiles(mem.package_id)
    /\ UNCHANGED <<live, disk, tx, mem, manifest, tgt, budget, ghosts>>

BackUpManaged(t) ==
    /\ pc = "uninstall" /\ t \in todo
    /\ BackUp(t)
    /\ pc' = "intend" /\ tgt' = t /\ todo' = todo \ {t}
    /\ UNCHANGED <<live, records, count, tx, mem, manifest, budget, ghosts>>

-----------------------------------------------------------------------------
(* The except clauses: _rollback_partial_install and its uninstall twin.   *)

UndoFile(t) ==
    /\ pc = "undo" /\ t \in todo
    /\ SetLive(tx, t, UndoValue(mem, tx, t))
    /\ todo' = todo \ {t}
    /\ UNCHANGED <<disk, pc, tx, mem, manifest, tgt, budget>>

\* One file cannot be restored: an install goes on with the others and
\* remembers it, an uninstall gives up and leaves its record as it is.
UndoFileFails(t) ==
    /\ pc = "undo" /\ t \in todo /\ Spend("io")
    /\ \/ /\ mem.kind = "install"
          /\ mem' = [mem EXCEPT !.status = "rollback_failed_after_install_failure"]
          /\ todo' = todo \ {t}
          /\ UNCHANGED <<pc, tx, manifest, tgt>>
       \/ mem.kind = "uninstall" /\ Finish
    /\ UNCHANGED <<live, disk, ghosts>>

UndoDone ==
    /\ pc = "undo" /\ todo = {}
    /\ LET failed == "rollback_failed_after_install_failure"
           status == IF mem.status = failed THEN failed ELSE "rolled_back_after_failure"
       IN  \/ records' = [records EXCEPT ![tx] = [mem EXCEPT !.status = status]]
              /\ UNCHANGED budget
           \/ Spend("io") /\ UNCHANGED records
    /\ Finish
    /\ UNCHANGED <<live, backup, count, ghosts>>

-----------------------------------------------------------------------------
(* rollback_transaction and recover_interrupted_transaction.               *)

\* What the drift protection of a rollback looks at.
ChangedAfter(x, t) ==
    LET item == records[x].files[t]
    IN  /\ item.action # "unchanged"
        /\ live[t] # Absent
        /\ \/ item.installed # Absent /\ live[t] # item.installed
           \/ item.post_absent
BackupMissing(x, t) == records[x].files[t].previously_existed /\ backup[x][t] = Absent

\* Mutant: stale files the transaction removed are forgotten.
BeginRestoreDeclared(x) ==
    /\ pc = "idle" /\ pc' = "restore" /\ tx' = x
    /\ mem' = records[x]
    /\ todo' = {t \in Reverted(records[x]) : records[x].files[t].action # "remove_stale"}
    /\ UNCHANGED <<live, disk, manifest, tgt, budget, ghosts>>

BeginRestore(x) ==
    /\ pc = "idle" /\ pc' = "restore" /\ tx' = x
    /\ mem' = records[x] /\ todo' = Reverted(records[x])
    /\ UNCHANGED <<live, disk, manifest, tgt, budget, ghosts>>

BeginRollback(x, force) ==
    /\ records[x].status = "committed"
    /\ force \/ \A t \in Targets : ~ChangedAfter(x, t)
    /\ \A t \in Reverted(records[x]) : ~BackupMissing(x, t)
    /\ BeginRestore(x)

Recoverable(x) == records[x].kind = "install" /\ records[x].status = "interrupted"

BeginRecovery(x) == Recoverable(x) /\ BeginRestore(x)

RestoreFile(t) ==
    /\ pc = "restore" /\ t \in todo
    /\ SetLive(tx, t, UndoValue(mem, tx, t))
    /\ todo' = todo \ {t}
    /\ UNCHANGED <<disk, pc, tx, mem, manifest, tgt, budget>>

RestoreDone ==
    /\ pc = "restore" /\ todo = {}
    /\ records' = [records EXCEPT ![tx].status =
                      IF mem.status = "committed" THEN "rolled_back" ELSE "recovered"]
    /\ Finish
    /\ UNCHANGED <<live, backup, count, budget, ghosts>>

\* A restore or the final write raises: the record still says what it said.
RestoreFails ==
    /\ pc = "restore" /\ Spend("io")
    /\ Finish
    /\ UNCHANGED <<live, disk, ghosts>>

-----------------------------------------------------------------------------
(* The environment, and _mark_interrupted_transactions at start-up.        *)

Unresolved(x) == records[x].status \in {"staging", "committing"}
\* Mutant: a status nothing else recognises.
MarkUnknown ==
    records' = [x \in TxIds |-> IF Unresolved(x) THEN [records[x] EXCEPT !.status = "unknown"]
                                ELSE records[x]]

MarkInterrupted ==
    records' = [x \in TxIds |-> IF Unresolved(x) THEN [records[x] EXCEPT !.status = "interrupted"]
                                ELSE records[x]]

\* The process dies in the middle of an operation and comes up again.
Crash ==
    /\ pc # "idle" /\ Spend("crash")
    /\ MarkInterrupted /\ Finish
    /\ UNCHANGED <<live, backup, count, ghosts>>

\* An orderly restart (of use only if a record was left unresolved).
Restart ==
    /\ pc = "idle" /\ \E x \in TxIds : Unresolved(x)
    /\ MarkInterrupted
    /\ UNCHANGED <<live, backup, count, worker, budget, ghosts>>

\* The user, Home Assistant's editors or another program.
UserEdit(t, v) ==
    /\ Spend("edit") /\ live[t] # v
    /\ SetLive(0, t, v)
    /\ UNCHANGED <<disk, worker>>

-----------------------------------------------------------------------------
\* The steps an operation takes once it runs.
Step ==
    \/ StageInstall \/ RecordIntent \/ CopyStaged \/ VerifyCopy \/ CopyMismatch
    \/ FilesInstalled \/ ApplyBaseline \/ BaselineFails \/ RecordOutcome
    \/ Commit \/ AuditCommit \/ StartUninstall \/ UndoDone \/ RestoreDone
    \/ \E t \in Targets : \/ LeaveUnchanged(t) \/ BackUpFile(t) \/ StaleDrift(t)
                          \/ BackUpStale(t) \/ BackUpManaged(t) \/ UndoFile(t)
                          \/ RestoreFile(t)

Raise == StartAuditFails \/ Fail \/ RestoreFails \/ \E t \in Targets : UndoFileFails(t)

Request ==
    \/ \E p \in Packages : BeginInstall(p)
    \/ \E id \in PackageIds, force \in BOOLEAN : BeginUninstall(id, force)
    \/ \E x \in TxIds, force \in BOOLEAN : BeginRollback(x, force)
    \/ \E x \in TxIds : BeginRecovery(x)

Environment == Crash \/ Restart \/ \E t \in Targets, v \in Slot : UserEdit(t, v)

Next == Step \/ Raise \/ Request \/ Environment

Spec == Init /\ [][Next]_vars

\* An operation is straight-line code on an executor thread: it goes on.
FairSpec == Spec /\ WF_vars(Step)

-----------------------------------------------------------------------------
(* Properties.  "Nobody else touched t" means: no hand but the transaction *)
(* itself changed t since the transaction began.                           *)

TypeOK ==
    /\ live \in [Targets -> Slot]
    /\ backup \in [TxIds -> [Targets -> Slot]]
    /\ records \in [TxIds -> Record]
    /\ count \in 0..MaxTx
    /\ pc \in {"idle", "started", "files", "stale", "uninstall", "audit", "undo", "restore"}
             \cup TargetSteps
    /\ tx \in 0..MaxTx /\ (pc # "idle" => tx # 0)
    /\ mem \in Record
    /\ manifest \in [Targets -> Slot]
    /\ todo \subseteq Targets
    /\ tgt \in Targets \cup {"none"} /\ (pc \in TargetSteps => tgt \in Targets)
    /\ budget \in [Mishaps -> Nat]
    /\ pre \in [TxIds -> [Targets -> Slot]]
    /\ touched \in [TxIds -> SUBSET Targets]
    /\ declared \in [TxIds -> SUBSET Targets]

EndRestores(status, onlyDeclared) ==
    \A x \in TxIds : records[x].status = status =>
        \A t \in (IF onlyDeclared THEN declared[x] ELSE Targets) \ touched[x] :
            live[t] = pre[x][t]

\* At every instant - between any two durable effects, so wherever a crash may
\* fall - the record on disk of an unfinished transaction, together with its
\* backups, suffices to put back what preceded it: for every file an uninstall
\* removes and every file an install's manifest declares, unless somebody else
\* touched it.  (deployment.py's order: backup, record, live file, record.)
Undoable(x) ==
    Unresolved(x) \/ records[x].status = "interrupted" =>
        \A t \in Targets \ touched[x] :
            records[x].kind = "uninstall" \/ t \in declared[x] =>
                UndoValue(records[x], x, t) = pre[x][t]
UnfinishedIsUndoable == \A x \in TxIds : Undoable(x)

\* The in-memory record of a running install or uninstall undoes everything
\* it did, stale files included: the except clause can restore all of it.
RunningIsUndoable ==
    pc \notin {"idle", "restore"} =>
        \A t \in Targets \ touched[tx] : UndoValue(mem, tx, t) = pre[tx][t]

\* Whoever ended well has restored: a failed operation that reports
\* rolled_back_after_failure has left every file as it found it,
FailedIsRestored == EndRestores("rolled_back_after_failure", FALSE)
\* recover_interrupted_transaction every file the interrupted install declared,
RecoveredIsRestored == EndRestores("recovered", TRUE)
\* and rollback_transaction every file.
RolledBackIsRestored == EndRestores("rolled_back", FALSE)

\* When an install becomes committed, each declared file is in place and
\* entered in the record with what it holds.
CommitIsExact ==
    [][\A x \in TxIds :
         records'[x].status = "committed" /\ records[x].status = "committing"
           /\ records[x].kind = "install" =>
         \A t \in declared[x] \ touched[x] :
            /\ live[t] = manifest[t]
            /\ records'[x].files[t].installed = live[t]]_vars

\* A committed transaction stays true: until it is rolled back or somebody else
\* touches them, the files it installed hold what its record says and those it
\* removed are gone (what list_installed_packages calls healthy).  Stated as long
\* as nothing raises or dies: an undoing cut off half-way leaves the record as it is.
Undisturbed == budget["crash"] = Budget["crash"] /\ budget["io"] = Budget["io"]
CommittedIsIntact ==
    Undisturbed =>
        \A x \in TxIds : records[x].status = "committed" /\ ~(pc = "restore" /\ tx = x) =>
            \A t \in Reverted(records[x]) \ touched[x] :
                live[t] = records[x].files[t].installed

\* However often a package was upgraded, reinstalled or rolled back in between,
\* uninstalling it brings back what the file held before its first install that
\* still counts; except that a file which install found already identical is
\* kept as it is.  Stated as long as nobody edits a file by hand.
Unedited == budget["edit"] = Budget["edit"]
Uninstalls(x) == records[x].kind = "uninstall" /\ records[x].status = "committing"
                 /\ records'[x].status = "committed"
UninstallGivesBack ==
    [][Unedited =>
         \A x \in TxIds : Uninstalls(x) =>
            \A t \in Reverted(mem) :
                \A f \in FirstNaming(mem.package_id, t) :
                    live[t] = pre[f][t] \/ records[f].files[t].action = "unchanged"]_vars

\* An operation that has begun ends.
InFlight == pc # "idle"
OperationsEnd == InFlight ~> ~InFlight

-----------------------------------------------------------------------------
(* What the repository says of the engine, and what the code does not keep. *)

\* PRODUCTION_ACCEPTANCE.md: "rollback drift protection rejects a changed live
\* target unless force is explicitly used"; here only for a target whose
\* present content the rollback would destroy.
DriftIsProtected ==
    [][\A x \in TxIds : BeginRollback(x, FALSE) =>
         \A t \in Reverted(records[x]) :
            live[t] \in {Absent, records[x].files[t].installed}]_vars
=============================================================================
