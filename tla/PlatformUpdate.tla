-------------------------- MODULE PlatformUpdate --------------------------
(***************************************************************************)
(* The signed updater by which jns_deployment replaces its own directory   *)
(* (deployment.py), the confirmation at the next start, the rollback       *)
(* service, and the emergency tool an operator runs over SSH when the      *)
(* integration no longer loads (recovery_tool.py).                         *)
(*                                                                         *)
(* A directory tree is the version it holds, Partial while it is half      *)
(* copied or half deleted, or Missing.  The code that runs is the tree     *)
(* that was live at the last start.  Renames are atomic, tree copies and   *)
(* deletions are not.                                                      *)
(***************************************************************************)
EXTENDS Naturals

CONSTANTS
    Versions,     \* complete integration trees
    Updates,      \* signed archives in platform_updates
    FromOf,       \* [Updates -> SUBSET Versions]: from_version
    ToOf,         \* [Updates -> Versions]: to_version, and the tree inside
    MaxUpdates,   \* bound: transactions ever created
    Bounds        \* bounds: sets of them, each how many updates begin and how often
                  \* each mishap happens

Partial == "partial"
Missing == "missing"
Tree == Versions \cup {Partial, Missing}
UpdateIds == 1..MaxUpdates

UpdateMishaps ==
    {"crash",    \* Home Assistant, or the emergency tool, dies
     "io",       \* a write, rename, copy or deletion raises
     "swap",     \* another archive is put under the validated name
     "foreign",  \* somebody else replaces or deletes the directory (HACS)
     "reload"}   \* the config entry is reloaded while the code keeps running

ASSUME VersionAssumption ==
    /\ {Partial, Missing, "down"} \cap Versions = {}
    /\ FromOf \in [Updates -> SUBSET Versions]
    /\ ToOf \in [Updates -> Versions]
ASSUME UpdateAssumption ==
    /\ MaxUpdates \in Nat
    /\ Bounds \subseteq [updates : 0..MaxUpdates, mishaps : [UpdateMishaps -> Nat]]

UpdateStatuses ==
    {"none", "staging", "committing", "interrupted", "pending_restart", "confirmed",
     "rolled_back_after_failure", "platform_rolled_back", "emergency_recovered", "torn"}
NoPending == [tx |-> 0, status |-> "none"]

VARIABLES
    live,      \* custom_components/jns_deployment
    stage,     \* .jns_stage_<tx>
    hold,      \* [UpdateIds -> Tree]: .jns_old_<tx>
    aside,     \* .jns_platform_rollback_<tx>, or the tool's .jns_emergency_hold
    backup,    \* [UpdateIds -> Tree]: backups/<tx>/platform_backup/jns_deployment
    state,     \* [UpdateIds -> UpdateStatuses]: transaction.json
    to,        \* [UpdateIds -> Versions or Missing]: its to_version
    begun,     \* how many transactions exist
    pending,   \* pending_platform_update.json
    running,   \* VERSION of the loaded code, "down" when it is not loaded
    step, current, pkg,   \* the operation that holds the lock: next step, transaction, archive
    boot, bpend,   \* the start-up confirmation: next step, the pending file it read
    tool, ttx,     \* the emergency tool: next step, transaction
    bounds,    \* the one of Bounds this behaviour is about
    left,      \* mishaps left
    pre,       \* ghost, [UpdateIds -> Tree]: live when the update began to replace it
    spoilt     \* ghost: a backup that was itself cut off has been put back

trees == <<live, stage, hold, aside, backup>>
txRecord == <<state, to, begun>>
op == <<step, current, pkg>>
confirm == <<boot, bpend>>
emergency == <<tool, ttx>>
ghosts == <<pre, spoilt>>
updateVars == <<trees, txRecord, pending, running, op, confirm, emergency, bounds, left, ghosts>>

UpdateInit ==
    /\ live \in Versions /\ running = live
    /\ stage = Missing /\ aside = Missing
    /\ hold = [x \in UpdateIds |-> Missing] /\ backup = [x \in UpdateIds |-> Missing]
    /\ state = [x \in UpdateIds |-> "none"] /\ to = [x \in UpdateIds |-> Missing] /\ begun = 0
    /\ pending = NoPending
    /\ step = "idle" /\ current = 0 /\ pkg = "none"
    /\ boot = "none" /\ bpend = NoPending
    /\ tool = "none" /\ ttx = 0
    /\ bounds \in Bounds /\ left = bounds.mishaps
    /\ pre = [x \in UpdateIds |-> Missing] /\ spoilt = FALSE

Meet(mishap) == left[mishap] > 0 /\ left' = [left EXCEPT ![mishap] = @ - 1]
Proceed(next) == step' = next /\ UNCHANGED <<current, pkg>>
Finish == step' = "idle" /\ current' = 0 /\ pkg' = "none"
Mark(x, s) == state' = [state EXCEPT ![x] = s] /\ UNCHANGED <<to, begun>>

-----------------------------------------------------------------------------
(* install_platform_update.                                                *)

\* Validate, write the first record, append the "started" event; if that
\* append raises, the record stays behind in staging.
InstallStart(p) ==
    /\ step = "idle" /\ running # "down" /\ begun < bounds.updates
    /\ running \in FromOf[p]
    /\ begun' = begun + 1
    /\ state' = [state EXCEPT ![begun'] = "staging"]
    /\ to' = [to EXCEPT ![begun'] = ToOf[p]]
    /\ stage' = Missing
    /\ \/ step' = "stage" /\ current' = begun' /\ pkg' = p /\ UNCHANGED left
       \/ Meet("io") /\ UNCHANGED op
    /\ UNCHANGED <<live, hold, aside, backup, pending, running, confirm, emergency, ghosts>>

\* The archive is opened again; it may be another one by now.
Stage ==
    /\ step = "stage"
    /\ \/ stage' = ToOf[pkg] /\ Proceed("copy") /\ UNCHANGED left
       \/ Meet("swap") /\ stage' \in {ToOf[p] : p \in Updates} /\ Proceed("copy")
       \/ Meet("io") /\ stage' = Partial /\ Proceed("undo")
    /\ UNCHANGED <<live, hold, aside, backup, txRecord, pending, running, confirm,
                   emergency, ghosts>>

\* Mutant: no backup is made.
CopyNothing ==
    /\ step = "copy" /\ Proceed("committing") /\ pre' = [pre EXCEPT ![current] = live]
    /\ UNCHANGED <<trees, txRecord, pending, running, confirm, emergency, left, spoilt>>

\* copytree(live_root, backup_tree): begins, then ends.
CopyBegin ==
    /\ step = "copy"
    /\ IF live = Missing
       THEN Proceed("undo") /\ UNCHANGED <<backup, ghosts>>
       ELSE /\ Proceed("copied")
            /\ backup' = [backup EXCEPT ![current] = Partial]
            /\ pre' = [pre EXCEPT ![current] = live]
    /\ UNCHANGED <<live, stage, hold, aside, txRecord, pending, running, confirm,
                   emergency, left, spoilt>>

\* Mutant: errors of the copy are ignored.
CopyEndIncomplete ==
    /\ step = "copied" /\ Proceed("committing")
    /\ UNCHANGED <<trees, txRecord, pending, running, confirm, emergency, left, ghosts>>

CopyEnd ==
    /\ step = "copied"
    /\ \/ /\ live # Missing
          /\ backup' = [backup EXCEPT ![current] = live] /\ pre' = [pre EXCEPT ![current] = live]
          /\ Proceed("committing") /\ UNCHANGED left
       \/ /\ live = Missing \/ left["io"] > 0
          /\ IF live = Missing THEN UNCHANGED left ELSE Meet("io")
          /\ Proceed("undo") /\ UNCHANGED <<backup, ghosts>>
    /\ UNCHANGED <<live, stage, hold, aside, txRecord, pending, running, confirm,
                   emergency, spoilt>>

MarkCommitting ==
    /\ step = "committing"
    /\ \/ Mark(current, "committing") /\ Proceed("away") /\ UNCHANGED left
       \/ Meet("io") /\ Proceed("undo") /\ UNCHANGED txRecord
    /\ UNCHANGED <<trees, pending, running, confirm, emergency, ghosts>>

\* os.replace(live_root, hold_root)
MoveAway ==
    /\ step = "away"
    /\ \/ /\ live # Missing
          /\ hold' = [hold EXCEPT ![current] = live] /\ live' = Missing
          /\ Proceed("in") /\ UNCHANGED left
       \/ /\ live = Missing \/ left["io"] > 0
          /\ IF live = Missing THEN UNCHANGED left ELSE Meet("io")
          /\ Proceed("undo") /\ UNCHANGED <<live, hold>>
    /\ UNCHANGED <<stage, aside, backup, txRecord, pending, running, confirm,
                   emergency, ghosts>>

\* os.replace(stage_root, live_root), with its own except clause.
MoveIn ==
    /\ step = "in"
    /\ \/ /\ live = Missing
          /\ live' = stage /\ stage' = Missing
          /\ Proceed("verify") /\ UNCHANGED <<hold, left>>
       \/ live # Missing /\ Proceed("undo") /\ UNCHANGED <<live, stage, hold, left>>
       \/ /\ live = Missing /\ Meet("io") /\ Proceed("undo")
          /\ live' = hold[current] /\ hold' = [hold EXCEPT ![current] = Missing] /\ UNCHANGED stage
    /\ UNCHANGED <<aside, backup, txRecord, pending, running, confirm, emergency, ghosts>>

\* Every validated file must be there with the validated hash.
Verify ==
    /\ step = "verify"
    /\ Proceed(IF live = ToOf[pkg] THEN "drop" ELSE "undo")
    /\ UNCHANGED <<trees, txRecord, pending, running, confirm, emergency, left, ghosts>>

\* rmtree(hold_root, ignore_errors=True): what cannot be deleted stays.
DropHold ==
    /\ step = "drop" /\ Proceed("pending")
    /\ \/ hold' = [hold EXCEPT ![current] = Missing] /\ UNCHANGED left
       \/ hold' = [hold EXCEPT ![current] = Partial] /\ Meet("io")
    /\ UNCHANGED <<live, stage, aside, backup, txRecord, pending, running, confirm,
                   emergency, ghosts>>

MarkPending ==
    /\ step = "pending"
    /\ \/ Mark(current, "pending_restart") /\ Proceed("pfile") /\ UNCHANGED left
       \/ Meet("io") /\ Proceed("undo") /\ UNCHANGED txRecord
    /\ UNCHANGED <<trees, pending, running, confirm, emergency, ghosts>>

WritePendingFile ==
    /\ step = "pfile"
    /\ \/ /\ pending' = [tx |-> current, status |-> "pending_restart"]
          /\ Proceed("announce") /\ UNCHANGED left
       \/ Meet("io") /\ Proceed("undo") /\ UNCHANGED pending
    /\ UNCHANGED <<trees, txRecord, running, confirm, emergency, ghosts>>

\* RECOVERY.txt and the audit event.
Announce ==
    /\ step = "announce"
    /\ \/ Finish /\ UNCHANGED left
       \/ Meet("io") /\ Proceed("undo")
    /\ UNCHANGED <<trees, txRecord, pending, running, confirm, emergency, ghosts>>

-----------------------------------------------------------------------------
(* The except clause of install_platform_update.                           *)

\* rmtree(live_root), or the start of copytree(backup_tree, live_root).
UndoBegin ==
    /\ step = "undo"
    /\ IF hold[current] # Missing
       THEN \/ live' = Partial /\ Proceed("undo_in") /\ UNCHANGED left
            \/ live' = Partial /\ Proceed("undo_record") /\ Meet("io")
       ELSE IF backup[current] # Missing /\ live = Missing
            THEN live' = Partial /\ Proceed("undo_copy") /\ UNCHANGED left
            ELSE Proceed("undo_record") /\ UNCHANGED <<live, left>>
    /\ UNCHANGED <<stage, hold, aside, backup, txRecord, pending, running, confirm,
                   emergency, ghosts>>

\* os.replace(hold_root, live_root)
UndoIn ==
    /\ step = "undo_in" /\ Proceed("undo_record")
    /\ \/ live' = hold[current] /\ hold' = [hold EXCEPT ![current] = Missing] /\ UNCHANGED left
       \/ live' = Missing /\ UNCHANGED hold /\ Meet("io")
    /\ UNCHANGED <<stage, aside, backup, txRecord, pending, running, confirm,
                   emergency, ghosts>>

UndoCopy ==
    /\ step = "undo_copy" /\ Proceed("undo_record")
    /\ \/ live' = backup[current] /\ UNCHANGED left
       \/ UNCHANGED live /\ Meet("io")
    /\ UNCHANGED <<stage, hold, aside, backup, txRecord, pending, running, confirm,
                   emergency, ghosts>>

\* Its finally: whatever the restore did, the record says rolled back.
UndoRecord ==
    /\ step = "undo_record" /\ Finish
    /\ stage' = Missing
    /\ \/ Mark(current, "rolled_back_after_failure") /\ UNCHANGED left
       \/ Meet("io") /\ UNCHANGED txRecord
    /\ UNCHANGED <<live, hold, aside, backup, pending, running, confirm, emergency, ghosts>>

-----------------------------------------------------------------------------
(* rollback_platform_update: any transaction with a backup, in any status. *)

Readable(x) == state[x] \notin {"none", "torn"}

\* A left-over hold is deleted, what is live takes its place.
MoveLiveAside(x) == /\ aside' = live /\ live' = Missing
                    /\ spoilt' = (spoilt \/ backup[x] = Partial) /\ UNCHANGED pre

RollbackStart(x) ==
    /\ step = "idle" /\ running # "down"
    /\ Readable(x) /\ backup[x] # Missing
    /\ step' = "rb_copy" /\ current' = x /\ UNCHANGED pkg
    /\ MoveLiveAside(x)
    /\ UNCHANGED <<stage, hold, backup, txRecord, pending, running, confirm, emergency, left>>

\* copytree(backup_tree, live_root); if it fails before it made the
\* directory the old tree returns, later the half copy stays.
RollbackCopyBegin ==
    /\ step = "rb_copy"
    /\ \/ live' = Partial /\ Proceed("rb_copied") /\ UNCHANGED <<aside, left>>
       \/ Meet("io") /\ Finish /\ live' = aside /\ aside' = Missing
    /\ UNCHANGED <<stage, hold, backup, txRecord, pending, running, confirm, emergency,
                   ghosts>>

RollbackCopyEnd ==
    /\ step = "rb_copied"
    /\ \/ live' = backup[current] /\ aside' = Missing /\ Proceed("rb_record") /\ UNCHANGED left
       \/ Meet("io") /\ Finish /\ UNCHANGED <<live, aside>>
    /\ UNCHANGED <<stage, hold, backup, txRecord, pending, running, confirm, emergency,
                   ghosts>>

RollbackRecord ==
    /\ step = "rb_record"
    /\ \/ Mark(current, "platform_rolled_back") /\ Proceed("rb_pending") /\ UNCHANGED left
       \/ Meet("io") /\ Finish /\ UNCHANGED txRecord
    /\ UNCHANGED <<trees, pending, running, confirm, emergency, ghosts>>

\* Removes the pending file, whichever update it is about.
RollbackUnlink ==
    /\ step = "rb_pending" /\ Finish
    /\ pending' = NoPending
    /\ UNCHANGED <<trees, txRecord, running, confirm, emergency, left, ghosts>>

-----------------------------------------------------------------------------
(* Start, reload and confirm_pending_platform_update.  None takes the lock.*)

\* The constructor of DeploymentManager.
MarkInterrupted ==
    /\ state' = [x \in UpdateIds |-> IF state[x] \in {"staging", "committing"}
                                     THEN "interrupted" ELSE state[x]]
    /\ UNCHANGED <<to, begun>>

Boot ==
    /\ running = "down" /\ tool = "none" /\ live \in Versions
    /\ running' = live
    /\ MarkInterrupted
    /\ boot' = "read" /\ UNCHANGED bpend
    /\ UNCHANGED <<trees, pending, op, emergency, left, ghosts>>

Reload ==
    /\ running # "down" /\ boot = "none" /\ Meet("reload")
    /\ MarkInterrupted
    /\ boot' = "read" /\ UNCHANGED bpend
    /\ UNCHANGED <<trees, pending, running, op, emergency, ghosts>>

ConfirmRead ==
    /\ boot = "read"
    /\ bpend' = pending
    /\ boot' = IF pending.tx = 0 THEN "none"
               ELSE IF to[pending.tx] # running THEN "mismatch"
               ELSE IF Readable(pending.tx) THEN "record" ELSE "none"
    /\ UNCHANGED <<trees, txRecord, pending, running, op, emergency, left, ghosts>>

ConfirmRecord ==
    /\ boot = "record" /\ boot' = "pfile"
    /\ Mark(bpend.tx, "confirmed")
    /\ UNCHANGED <<trees, pending, running, op, bpend, emergency, left, ghosts>>

ConfirmPending ==
    /\ boot \in {"pfile", "mismatch"} /\ boot' = "none"
    /\ pending' = [bpend EXCEPT !.status = IF boot = "pfile" THEN "confirmed"
                                           ELSE "version_mismatch"]
    /\ bpend' = NoPending
    /\ UNCHANGED <<trees, txRecord, running, op, emergency, left, ghosts>>

\* Home Assistant is stopped in good order, or dies; either way all that was
\* in memory is gone.
Down == /\ running' = "down" /\ Finish
        /\ boot' = "none" /\ bpend' = NoPending
        /\ UNCHANGED <<trees, txRecord, pending, emergency, ghosts>>
Stop == /\ running # "down" /\ step = "idle" /\ boot = "none"
        /\ Down /\ UNCHANGED left
Die == /\ step # "idle" \/ boot # "none"
       /\ Meet("crash") /\ Down

-----------------------------------------------------------------------------
(* recovery_tool.py --transaction x, while the integration is not loaded.  *)

ToolStart(x) ==
    /\ running = "down" /\ tool = "none"
    /\ Readable(x) /\ backup[x] # Missing
    /\ tool' = "copy" /\ ttx' = x
    /\ MoveLiveAside(x)
    /\ UNCHANGED <<stage, hold, backup, txRecord, pending, running, op, confirm, left>>

ToolEnd == tool' = "none" /\ ttx' = 0

ToolCopyBegin ==
    /\ tool = "copy"
    /\ \/ live' = Partial /\ tool' = "copied" /\ UNCHANGED <<aside, ttx, left>>
       \/ Meet("io") /\ live' = aside /\ aside' = Missing /\ ToolEnd
    /\ UNCHANGED <<stage, hold, backup, txRecord, pending, running, op, confirm, ghosts>>

ToolCopyEnd ==
    /\ tool = "copied"
    /\ \/ /\ live' = backup[ttx] /\ aside' = Missing
          /\ tool' = "record" /\ UNCHANGED <<ttx, left>>
       \/ Meet("io") /\ ToolEnd /\ UNCHANGED <<live, aside>>
    /\ UNCHANGED <<stage, hold, backup, txRecord, pending, running, op, confirm, ghosts>>

\* write_text in place: cut off, it leaves a record nobody can parse.
ToolRecord ==
    /\ tool = "record" /\ ToolEnd
    /\ \/ Mark(ttx, "emergency_recovered") /\ UNCHANGED left
       \/ Mark(ttx, "torn") /\ Meet("crash")
    /\ UNCHANGED <<trees, pending, running, op, confirm, ghosts>>

\* The SSH session is lost between two steps.
ToolCrash ==
    /\ tool # "none" /\ Meet("crash") /\ ToolEnd
    /\ UNCHANGED <<trees, txRecord, pending, running, op, confirm, ghosts>>

-----------------------------------------------------------------------------
\* HACS, or a person, replaces or deletes the directory.
Foreign ==
    /\ tool = "none" /\ Meet("foreign")
    /\ live' \in (Versions \cup {Missing}) \ {live}
    /\ UNCHANGED <<stage, hold, aside, backup, txRecord, pending, running, op, confirm,
                   emergency, ghosts>>

Install == \/ \E p \in Updates : InstallStart(p)
           \/ Stage \/ CopyBegin \/ CopyEnd \/ MarkCommitting \/ MoveAway \/ MoveIn
           \/ Verify \/ DropHold \/ MarkPending \/ WritePendingFile \/ Announce
Undo == UndoBegin \/ UndoIn \/ UndoCopy \/ UndoRecord
Rollback == \/ \E x \in UpdateIds : RollbackStart(x)
            \/ RollbackCopyBegin \/ RollbackCopyEnd \/ RollbackRecord \/ RollbackUnlink
Confirm == ConfirmRead \/ ConfirmRecord \/ ConfirmPending
Emergency == \/ \E x \in UpdateIds : ToolStart(x)
             \/ ToolCopyBegin \/ ToolCopyEnd \/ ToolRecord

UpdateNext ==
    /\ \/ Install \/ Undo \/ Rollback \/ Confirm \/ Emergency
       \/ Boot \/ Reload \/ Stop \/ Die \/ ToolCrash \/ Foreign
    /\ UNCHANGED bounds

UpdateSpec == UpdateInit /\ [][UpdateNext]_updateVars

\* The executor thread goes on with its operation, set-up with its
\* confirmation; nobody has to start, stop or recover anything.
OperationStep == step # "idle" /\ (Install \/ Undo \/ Rollback) /\ UNCHANGED bounds
ConfirmStep == Confirm /\ UNCHANGED bounds
UpdateFairSpec == UpdateSpec /\ WF_updateVars(OperationStep) /\ WF_updateVars(ConfirmStep)

-----------------------------------------------------------------------------
(* Properties.                                                             *)

PendingFiles ==
    [tx : 0..MaxUpdates, status : {"none", "pending_restart", "confirmed", "version_mismatch"}]

UpdateTypeOK ==
    /\ {live, stage, aside} \subseteq Tree
    /\ hold \in [UpdateIds -> Tree] /\ backup \in [UpdateIds -> Tree] /\ pre \in [UpdateIds -> Tree]
    /\ state \in [UpdateIds -> UpdateStatuses] /\ to \in [UpdateIds -> Versions \cup {Missing}]
    /\ begun \in 0..MaxUpdates
    /\ pending \in PendingFiles /\ bpend \in PendingFiles
    /\ running \in Versions \cup {"down"}
    /\ step \in {"idle", "stage", "copy", "copied", "committing", "away", "in", "verify", "drop",
                 "pending", "pfile", "announce", "undo", "undo_in", "undo_copy", "undo_record",
                 "rb_copy", "rb_copied", "rb_record", "rb_pending"}
    /\ current \in 0..MaxUpdates /\ pkg \in Updates \cup {"none"}
    /\ boot \in {"none", "read", "record", "pfile", "mismatch"}
    /\ tool \in {"none", "copy", "copied", "record"} /\ ttx \in 0..MaxUpdates
    /\ bounds \in Bounds /\ left \in [UpdateMishaps -> Nat] /\ spoilt \in BOOLEAN

Becomes(x, s) == state[x] # s /\ state'[x] = s

Never(mishap) == left[mishap] = bounds.mishaps[mishap]

\* Whatever the instant at which Home Assistant or the emergency tool dies or a
\* write fails, and however often, the integration can be brought back: its
\* directory is whole, or a transaction that the rollback and the emergency tool
\* accept has a whole backup of it.  (As long as nobody else changes the directory
\* and no backup that was itself cut off has been put back.)
Whole(x) == Readable(x) /\ backup[x] \in Versions
NeverLost ==
    /\ UpdateTypeOK
    /\ Never("foreign") /\ ~spoilt => live \in Versions \/ \E x \in UpdateIds : Whole(x)

\* A step that rolls back an update that had been installed puts back the
\* tree it had replaced.
RollsInstalledBackToPrior ==
    \A x \in UpdateIds :
        Becomes(x, "platform_rolled_back") /\ state[x] \in {"pending_restart", "confirmed"}
            => live' = pre[x]

\* The emergency tool puts back the tree the update had replaced, unless the
\* update died while it was copying that tree.
ToolRestoresPrior ==
    \A x \in UpdateIds :
        Becomes(x, "emergency_recovered")
            => live' \in {pre[x], Partial} /\ (live' = Partial => backup[x] = Partial)

\* An update whose record ends as rolled back after a failure has put the old
\* tree back.
FailureRestores ==
    \A x \in UpdateIds :
        Becomes(x, "rolled_back_after_failure") => pre[x] \in {live', Missing}

\* What waits for the restart is the tree that was validated, whatever
\* archive was under that name when it was unpacked.
PendingIsValidated ==
    \A x \in UpdateIds : Becomes(x, "pending_restart") => live' = to[x]

\* The tree an operation makes live is the right one: rolling back an installed
\* update and the emergency tool put back what it had replaced, so does a failure
\* recorded as rolled back (as long as no write fails), and what waits for the
\* restart is the tree that was validated; as long as nobody else changes the
\* directory, which the emergency tool does not mind.
RightTreeGoesLive ==
    [][/\ ToolRestoresPrior
       /\ Never("foreign") => RollsInstalledBackToPrior /\ PendingIsValidated
       /\ Never("foreign") /\ Never("io") => FailureRestores]_updateVars

\* Once the new code runs, the last update is confirmed or undone, as long as
\* the pending file names it.
Awaiting(x) == state[x] = "pending_restart" /\ to[x] = running /\ begun = x
Unconfirmed(x) == Awaiting(x) /\ pending.tx = x
PendingFileIsConfirmed == \A x \in UpdateIds : Unconfirmed(x) ~> ~Unconfirmed(x)
=============================================================================
