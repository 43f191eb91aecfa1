--------------------- MODULE PackageTransactionsProofs ---------------------
(***************************************************************************)
(* Theorems about PackageTransactions, for every set of targets, contents, *)
(* packages and every bound.                                               *)
(***************************************************************************)
EXTENDS PackageTransactions, TLAPS

-----------------------------------------------------------------------------
(* Values of the right type.                                               *)

\* A fresh record of a known kind, id and status is a record.
LEMMA NewRecordType ==
    ASSUME NEW kind \in {"none", "install", "uninstall"},
           NEW id \in PackageIds \cup {"none"},
           NEW status \in Statuses
    PROVE  NewRecord(kind, id, status) \in Record
  BY DEF NewRecord, Record, NoItem, Item, Slot

\* Entering an item, or changing one of its fields, keeps a record a record.
LEMMA WithItemType ==
    ASSUME mem \in Record, NEW t \in Targets, NEW item \in Item
    PROVE  WithItem(t, item) \in Record
  BY DEF Record, WithItem

LEMMA SetInstalledType ==
    ASSUME NEW item \in Item, NEW v \in Slot
    PROVE  [item EXCEPT !.installed = v] \in Item
  BY DEF Item

LEMMA SetLeftType ==
    ASSUME NEW item \in Item, NEW v \in Slot, NEW b \in BOOLEAN
    PROVE  [item EXCEPT !.installed = v, !.post_absent = b] \in Item
  BY DEF Item

LEMMA SetStatusType ==
    ASSUME NEW r \in Record, NEW status \in Statuses
    PROVE  [r EXCEPT !.status = status] \in Record
  BY DEF Record

\* Undoing restores a content or an absence.
LEMMA UndoValueType ==
    ASSUME TypeOK, NEW r \in Record, NEW x \in TxIds, NEW t \in Targets
    PROVE  UndoValue(r, x, t) \in Slot
  BY DEF UndoValue, TypeOK, Slot

\* So does what preceded a package.
LEMMA BaselineType ==
    ASSUME TypeOK, NEW id, NEW t \in Targets
    PROVE  Baseline(id, t).value \in Slot
  <1> DEFINE x == CHOOSE y \in FirstNaming(id, t) : TRUE
  <1>1. CASE FirstNaming(id, t) = {}
    BY <1>1 DEF Baseline, BaselineFrom, NothingBefore, Slot
  <1>2. CASE FirstNaming(id, t) # {}
    <2>1. x \in TxIds
      BY <1>2 DEF FirstNaming, Naming
    <2>2. backup[x][t] \in Slot /\ live[t] \in Slot
      BY <2>1 DEF TypeOK
    <2> QED
      BY <1>2, <2>2 DEF Baseline, BaselineFrom, NothingBefore, Slot
  <1> QED
    BY <1>1, <1>2

-----------------------------------------------------------------------------
(* Pieces of a step.                                                       *)

LEMMA FinishType ==
    ASSUME TypeOK, Finish
    PROVE  /\ pc' = "idle" /\ tx' \in 0..MaxTx /\ mem' \in Record
           /\ manifest' \in [Targets -> Slot] /\ todo' \subseteq Targets
           /\ tgt' = "none"
  BY NewRecordType, BoundAssumption DEF TypeOK, Finish, NoRecord, NoFiles, Slot, Statuses

LEMMA EnterUndoType ==
    ASSUME TypeOK, NEW r \in Record, EnterUndo(r), tx # 0
    PROVE  /\ pc' = "undo" /\ tx' \in 0..MaxTx /\ tx' # 0 /\ mem' \in Record
           /\ manifest' \in [Targets -> Slot] /\ todo' \subseteq Targets
           /\ tgt' = "none"
  BY DEF TypeOK, EnterUndo, Reverted

LEMMA SpendType ==
    ASSUME TypeOK, NEW m \in Mishaps, Spend(m)
    PROVE  budget' \in [Mishaps -> Nat]
  BY DEF TypeOK, Spend

LEMMA SetLiveType ==
    ASSUME TypeOK, NEW actor, NEW t \in Targets, NEW v \in Slot, SetLive(actor, t, v)
    PROVE  /\ live' \in [Targets -> Slot]
           /\ pre' \in [TxIds -> [Targets -> Slot]]
           /\ touched' \in [TxIds -> SUBSET Targets]
           /\ declared' \in [TxIds -> SUBSET Targets]
  BY DEF TypeOK, SetLive, ChangedBy

LEMMA BackUpType ==
    ASSUME TypeOK, NEW t \in Targets, BackUp(t), tx \in TxIds
    PROVE  backup' \in [TxIds -> [Targets -> Slot]]
  BY DEF TypeOK, BackUp

Loops == {"files", "stale", "uninstall", "audit"}
LEMMA SaveType ==
    ASSUME TypeOK, NEW r \in Record, NEW next, NEW rest \in SUBSET Targets,
           next \in Loops \/ (next \in TargetSteps /\ tgt \in Targets),
           tx \in TxIds, Save(r, next, rest)
    PROVE  /\ records' \in [TxIds -> Record]
           /\ pc' \in Loops \cup TargetSteps \cup {"undo"}
           /\ tx' \in 0..MaxTx /\ tx' # 0 /\ mem' \in Record
           /\ manifest' \in [Targets -> Slot] /\ todo' \subseteq Targets
           /\ tgt' \in Targets \cup {"none"} /\ (pc' \in TargetSteps => tgt' \in Targets)
           /\ budget' \in [Mishaps -> Nat]
  <1>1. CASE Spend("io") /\ EnterUndo(r) /\ UNCHANGED records
    <2>1. tx # 0
      BY DEF TxIds
    <2>2. budget' \in [Mishaps -> Nat]
      BY <1>1, SpendType DEF Mishaps
    <2> QED
      BY <1>1, <2>1, <2>2, EnterUndoType DEF TypeOK, TargetSteps
  <1>2. CASE ~(Spend("io") /\ EnterUndo(r) /\ UNCHANGED records)
    <2>1. /\ records' = [records EXCEPT ![tx] = r]
          /\ mem' = r /\ pc' = next /\ todo' = rest
          /\ tgt' = IF next \in TargetSteps THEN tgt ELSE "none"
          /\ UNCHANGED <<tx, manifest, budget>>
      BY <1>2 DEF Save
    <2> QED
      BY <2>1 DEF TypeOK, TxIds, Loops, TargetSteps
  <1> QED
    BY <1>1, <1>2

-----------------------------------------------------------------------------
(* Type correctness.                                                       *)

LEMMA TypeInit == Init => TypeOK
  BY BoundAssumption, NewRecordType
  DEF Init, TypeOK, NoRecord, NoFiles, Slot, Statuses, TxIds, Mishaps, TargetSteps

LEMMA TypeStep ==
    ASSUME TypeOK, Step
    PROVE  TypeOK'
  <1> USE DEF TypeOK, disk, worker, ghosts
  <1>0. pc # "idle" => tx \in TxIds
    BY BoundAssumption DEF TxIds
  <1>1. CASE StageInstall
    <2>1. mem' \in Record
      BY <1>1, SetStatusType DEF StageInstall, Statuses
    <2>2. manifest' \in [Targets -> Slot] /\ budget' \in [Mishaps -> Nat]
      BY <1>1, SpendType, PackageAssumption DEF StageInstall, Mishaps
    <2>3. tx \in TxIds /\ pc' = "files" /\ pc # "idle"
      BY <1>0, <1>1 DEF StageInstall
    <2>4. declared' \in [TxIds -> SUBSET Targets] /\ todo' \in SUBSET Targets
      BY <1>1 DEF StageInstall, Declared
    <2> QED
      BY <1>1, <2>1, <2>2, <2>3, <2>4 DEF StageInstall, TargetSteps
  <1>2. CASE RecordIntent
    <2> DEFINE existed == backup[tx][tgt] # Absent
               action == CASE mem.kind = "uninstall" -> "uninstall"
                           [] existed                -> "replace"
                           [] OTHER                  -> "create"
               item == [action |-> action, previously_existed |-> existed,
                        installed |-> Absent, post_absent |-> FALSE]
    <2>1. tgt \in Targets /\ tx \in TxIds
      BY <1>0, <1>2 DEF RecordIntent, TargetSteps
    <2>2. item \in Item
      BY DEF Item, Slot
    <2>3. WithItem(tgt, item) \in Record
      BY <2>1, <2>2, WithItemType
    <2>4. Save(WithItem(tgt, item), IF mem.kind = "uninstall" THEN "baseline" ELSE "copy", todo)
      BY <1>2 DEF RecordIntent
    <2> HIDE DEF item
    <2> QED
      BY <1>2, <2>1, <2>3, <2>4, SaveType DEF RecordIntent, TargetSteps, Loops
  <1>3. CASE CopyStaged
    <2>1. tgt \in Targets /\ manifest[tgt] \in Slot
      BY <1>3 DEF CopyStaged, TargetSteps
    <2> QED
      BY <1>3, <2>1, SetLiveType DEF CopyStaged, TargetSteps
  <1>4. CASE VerifyCopy
    <2>1. tgt \in Targets /\ tx \in TxIds
      BY <1>0, <1>4 DEF VerifyCopy, TargetSteps
    <2>2. [mem.files[tgt] EXCEPT !.installed = manifest[tgt]] \in Item
      BY <2>1, SetInstalledType DEF Record
    <2>3. WithItem(tgt, [mem.files[tgt] EXCEPT !.installed = manifest[tgt]]) \in Record
      BY <2>1, <2>2, WithItemType
    <2> QED
      BY <1>4, <2>1, <2>3, SaveType DEF VerifyCopy, TargetSteps, Loops
  <1>5. CASE CopyMismatch \/ BaselineFails \/ \E t \in Targets : StaleDrift(t)
    <2>1. EnterUndo(mem) /\ UNCHANGED <<live, disk, budget, ghosts>> /\ tx # 0
      BY <1>5 DEF CopyMismatch, BaselineFails, StaleDrift
    <2> QED
      BY <2>1, EnterUndoType DEF TargetSteps
  <1>6. CASE FilesInstalled
    BY <1>6 DEF FilesInstalled, StaleTargets, TargetSteps
  <1>7. CASE ApplyBaseline
    <2> DEFINE b == Baseline(mem.package_id, tgt)
               item == [mem.files[tgt] EXCEPT
                          !.installed = b.value,
                          !.post_absent = (b.mode = "absent" /\ mem.kind = "uninstall")]
    <2>1. tgt \in Targets /\ mem.files[tgt] \in Item
      BY <1>7 DEF ApplyBaseline, TargetSteps, Record
    <2>2. b.value \in Slot
      BY <2>1, BaselineType
    <2>3. SetLive(tx, tgt, b.value) /\ mem' = WithItem(tgt, item)
      BY <1>7 DEF ApplyBaseline
    <2> HIDE DEF b
    <2>4. mem' \in Record
      BY <2>1, <2>2, <2>3, SetLeftType, WithItemType
    <2> QED
      BY <1>7, <2>1, <2>2, <2>3, <2>4, SetLiveType DEF ApplyBaseline, TargetSteps
  <1>8. CASE RecordOutcome
    BY <1>0, <1>8, SaveType DEF RecordOutcome, TargetSteps, Loops
  <1>9. CASE Commit
    <2>1. [mem EXCEPT !.status = "committed"] \in Record
      BY SetStatusType DEF Statuses
    <2> QED
      BY <1>0, <1>9, <2>1, SaveType DEF Commit, Loops, TargetSteps
  <1>10. CASE AuditCommit
    BY <1>10, FinishType DEF AuditCommit, TargetSteps
  <1>11. CASE StartUninstall
    BY <1>11 DEF StartUninstall, ActiveFiles, StaleTargets, TargetSteps
  <1>12. CASE UndoDone
    <2> DEFINE failed == "rollback_failed_after_install_failure"
               status == IF mem.status = failed THEN failed ELSE "rolled_back_after_failure"
    <2>1. [mem EXCEPT !.status = status] \in Record
      BY SetStatusType DEF Statuses
    <2>2. records' \in [TxIds -> Record] /\ budget' \in [Mishaps -> Nat]
      BY <1>12, <2>1, SpendType DEF UndoDone, Mishaps
    <2> QED
      BY <1>12, <2>2, FinishType DEF UndoDone, TargetSteps
  <1>13. CASE RestoreDone
    <2>1. \A status \in Statuses : [records[tx] EXCEPT !.status = status] \in Record
      BY <1>0, <1>13, SetStatusType DEF RestoreDone
    <2>2. records' \in [TxIds -> Record]
      BY <1>0, <1>13, <2>1 DEF RestoreDone, Statuses
    <2> QED
      BY <1>13, <2>2, FinishType DEF RestoreDone, TargetSteps
  <1>14. ASSUME NEW t \in Targets, LeaveUnchanged(t)
         PROVE  TypeOK'
    <2>1. [action |-> "unchanged", previously_existed |-> TRUE,
           installed |-> manifest[t], post_absent |-> FALSE] \in Item
      BY DEF Item
    <2> QED
      BY <1>0, <1>14, <2>1, WithItemType, SaveType DEF LeaveUnchanged, Loops, TargetSteps
  <1>15. ASSUME NEW t \in Targets, BackUpFile(t) \/ BackUpManaged(t)
         PROVE  TypeOK'
    BY <1>0, <1>15, BackUpType DEF BackUpFile, BackUpManaged, TargetSteps
  <1>16. ASSUME NEW t \in Targets, BackUpStale(t)
         PROVE  TypeOK'
    <2>1. [action |-> "remove_stale", previously_existed |-> TRUE,
           installed |-> Absent, post_absent |-> FALSE] \in Item
      BY DEF Item, Slot
    <2>2. mem' \in Record
      BY <1>16, <2>1, WithItemType DEF BackUpStale
    <2> QED
      BY <1>0, <1>16, <2>2, BackUpType DEF BackUpStale, TargetSteps
  <1>17. ASSUME NEW t \in Targets, UndoFile(t) \/ RestoreFile(t)
         PROVE  TypeOK'
    <2>1. UndoValue(mem, tx, t) \in Slot
      BY <1>0, <1>17, UndoValueType DEF UndoFile, RestoreFile
    <2> QED
      BY <1>17, <2>1, SetLiveType DEF UndoFile, RestoreFile
  <1> QED
    BY <1>1, <1>2, <1>3, <1>4, <1>5, <1>6, <1>7, <1>8, <1>9, <1>10, <1>11, <1>12, <1>13,
       <1>14, <1>15, <1>16, <1>17 DEF Step

LEMMA TypeRaise ==
    ASSUME TypeOK, Raise
    PROVE  TypeOK'
  <1> USE DEF TypeOK, disk, worker, ghosts
  <1>1. CASE StartAuditFails \/ RestoreFails
    BY <1>1, FinishType, SpendType DEF StartAuditFails, RestoreFails, TargetSteps, Mishaps
  <1>2. CASE Fail
    <2>1. tx # 0
      BY <1>2 DEF Fail, TargetSteps
    <2> QED
      BY <1>2, <2>1, EnterUndoType, SpendType DEF Fail, TargetSteps, Mishaps
  <1>3. ASSUME NEW t \in Targets, UndoFileFails(t)
        PROVE  TypeOK'
    <2>1. budget' \in [Mishaps -> Nat] /\ UNCHANGED <<live, disk, ghosts>>
      BY <1>3, SpendType DEF UndoFileFails, Mishaps
    <2>2. CASE Finish
      BY <2>1, <2>2, FinishType DEF TargetSteps
    <2>3. CASE ~Finish
      <3>1. [mem EXCEPT !.status = "rollback_failed_after_install_failure"] \in Record
        BY SetStatusType DEF Statuses
      <3> QED
        BY <1>3, <2>1, <2>3, <3>1 DEF UndoFileFails, TargetSteps
    <2> QED
      BY <2>2, <2>3
  <1> QED
    BY <1>1, <1>2, <1>3 DEF Raise

LEMMA CreateType ==
    ASSUME TypeOK, NEW r \in Record, Create(r), manifest' \in [Targets -> Slot],
           UNCHANGED <<live, backup, budget, touched, declared>>
    PROVE  TypeOK'
  <1>1. count' \in TxIds /\ count' = count + 1
    BY BoundAssumption DEF TypeOK, Create, TxIds
  <1>2. records' \in [TxIds -> Record] /\ pre' \in [TxIds -> [Targets -> Slot]]
    BY <1>1 DEF TypeOK, Create
  <1> QED
    BY <1>1, <1>2 DEF TypeOK, Create, TxIds, TargetSteps

LEMMA TypeRequest ==
    ASSUME TypeOK, Request
    PROVE  TypeOK'
  <1>1. ASSUME NEW p \in Packages, BeginInstall(p)
        PROVE  TypeOK'
    <2>1. NewRecord("install", IdOf[p], "staging") \in Record
      BY NewRecordType, PackageAssumption DEF Statuses
    <2> QED
      BY <1>1, <2>1, CreateType, PackageAssumption DEF BeginInstall
  <1>2. ASSUME NEW id \in PackageIds, NEW force \in BOOLEAN, BeginUninstall(id, force)
        PROVE  TypeOK'
    <2>1. NewRecord("uninstall", id, "committing") \in Record
      BY NewRecordType DEF Statuses
    <2> QED
      BY <1>2, <2>1, CreateType DEF BeginUninstall, TypeOK
  <1>3. ASSUME NEW x \in TxIds, BeginRestore(x)
        PROVE  TypeOK'
    BY <1>3, BoundAssumption
    DEF TypeOK, BeginRestore, Reverted, TargetSteps, disk, ghosts, TxIds
  <1> QED
    BY <1>1, <1>2, <1>3 DEF Request, BeginRollback, BeginRecovery

LEMMA TypeEnvironment ==
    ASSUME TypeOK, Environment
    PROVE  TypeOK'
  <1> USE DEF TypeOK, disk, worker, ghosts
  <1>1. CASE Crash \/ Restart
    <2>0. \A x \in TxIds : [records[x] EXCEPT !.status = "interrupted"] \in Record
      BY SetStatusType DEF Statuses
    <2>1. records' \in [TxIds -> Record]
      BY <1>1, <2>0 DEF Crash, Restart, MarkInterrupted
    <2>2. CASE Crash
      BY <2>1, <2>2, FinishType, SpendType DEF Crash, TargetSteps, Mishaps
    <2>3. CASE Restart
      BY <2>1, <2>3 DEF Restart
    <2> QED
      BY <1>1, <2>2, <2>3
  <1>2. ASSUME NEW t \in Targets, NEW v \in Slot, UserEdit(t, v)
        PROVE  TypeOK'
    BY <1>2, SetLiveType, SpendType DEF UserEdit, Mishaps
  <1> QED
    BY <1>1, <1>2 DEF Environment

\* Every variable of the engine keeps its type in every behaviour.
THEOREM TypeCorrect == Spec => []TypeOK
  <1>1. Init => TypeOK
    BY TypeInit
  <1>2. TypeOK /\ [Next]_vars => TypeOK'
    <2> SUFFICES ASSUME TypeOK, [Next]_vars
                 PROVE  TypeOK'
      OBVIOUS
    <2>1. CASE Next
      BY <2>1, TypeStep, TypeRaise, TypeRequest, TypeEnvironment DEF Next
    <2>2. CASE UNCHANGED vars
      BY <2>2 DEF vars, disk, worker, ghosts, TypeOK
    <2> QED
      BY <2>1, <2>2
  <1> QED
    BY <1>1, <1>2, PTL DEF Spec

-----------------------------------------------------------------------------
(***************************************************************************)
(* The invariant behind UnfinishedIsUndoable and RunningIsUndoable.        *)
(***************************************************************************)

\* A transaction that exists has a number, the one in flight too.
NumberedInv ==
    /\ \A x \in TxIds : records[x].status # "none" => x <= count
    /\ pc # "idle" => tx \in 1..count

Undoing == {"undo", "restore"}
Running == pc # "idle" /\ pc \notin Undoing

\* The record on disk is of the same kind as the one in memory, and says the
\* same about undoing each file it must be able to undo.
SameUndo(r, s, t) == /\ r.files[t].action = s.files[t].action
                     /\ r.files[t].previously_existed = s.files[t].previously_existed
SyncedInv ==
    /\ pc # "idle" => records[tx].kind = mem.kind
    /\ Running => \A t \in Targets : mem.kind = "uninstall" \/ t \in declared[tx] =>
                      SameUndo(mem, records[tx], t)

\* A file still to be visited has no entry; the one being visited has none
\* until its backup is made, and one that undoes it from then on.
VisitInv ==
    /\ pc = "started" => \A t \in Targets : mem.files[t].action = "none"
    /\ pc \in {"files", "stale", "uninstall"} \cup TargetSteps =>
          \A t \in todo : mem.files[t].action = "none"
    /\ pc \in TargetSteps => tgt \notin todo
    /\ pc = "intend" => /\ mem.files[tgt].action = "none"
                        /\ tgt \notin touched[tx] => backup[tx][tgt] = pre[tx][tgt]
    /\ pc \in TargetSteps \ {"intend"} => Reverts(mem, tgt)
    /\ pc \in Undoing => todo \subseteq Reverted(mem)
    /\ pc = "restore" => mem = records[tx]

\* An install visits the declared files first, then only others.
PhaseInv ==
    /\ Running => mem.kind \in {"install", "uninstall"}
    /\ pc \in {"files", "copy", "verify", "stale"} => mem.kind = "install"
    /\ pc = "uninstall" => mem.kind = "uninstall"
    /\ mem.kind = "install" =>
          /\ pc \in {"files", "stale"} \cup TargetSteps => declared[tx] = Declared(manifest)
          /\ pc \in {"files", "intend", "copy", "verify"} =>
                /\ todo \subseteq declared[tx] /\ (pc # "files" => tgt \in declared[tx])
                /\ \A t \in Targets \ declared[tx] : mem.files[t].action = "none"
          /\ pc \in {"stale", "baseline", "record"} =>
                todo \cap declared[tx] = {} /\ (pc # "stale" => tgt \notin declared[tx])

IInv == /\ TypeOK /\ NumberedInv /\ SyncedInv /\ VisitInv /\ PhaseInv
        /\ RunningIsUndoable /\ UnfinishedIsUndoable

\* A transaction whose record, backups and ghosts stay, and whose untouched
\* files stay, stays undoable.
LEMMA FrameUndoable ==
    ASSUME NEW x \in TxIds, Undoable(x),
           records'[x] = records[x], backup'[x] = backup[x],
           pre'[x] = pre[x], declared'[x] = declared[x], touched[x] \subseteq touched'[x],
           \A t \in Targets \ touched'[x] : live'[t] = live[t]
    PROVE  Undoable(x)'
  BY DEF Undoable, Unresolved, UndoValue, Reverts

\* A change of a live file touches it for everybody but its author.
LEMMA SetLiveFrame ==
    ASSUME TypeOK, NEW actor, NEW t \in Targets, NEW v, SetLive(actor, t, v)
    PROVE  /\ pre' = pre /\ declared' = declared
           /\ \A x \in TxIds : touched[x] \subseteq touched'[x]
           /\ actor \in TxIds => touched'[actor] = touched[actor]
           /\ \A s \in Targets : s # t => live'[s] = live[s]
           /\ live'[t] = v
           /\ \A x \in TxIds : x <= count /\ x # actor =>
                 \A s \in Targets \ touched'[x] : live'[s] = live[s]
  BY DEF TypeOK, SetLive, ChangedBy

\* The transaction in flight is undoable because its record says what memory says.
LEMMA CurrentUndoable ==
    TypeOK /\ SyncedInv /\ RunningIsUndoable /\ Running => Undoable(tx)
  BY DEF SyncedInv, RunningIsUndoable, Running, Undoing, Undoable, UndoValue, SameUndo, Reverts

\* The except clause starts from an in-memory record that undoes everything.
LEMMA EnterUndoInv ==
    ASSUME IInv, TypeOK', Running, NEW r \in Record, EnterUndo(r), r.kind = mem.kind,
           \A t \in Targets \ touched[tx] : UndoValue(r, tx, t) = pre[tx][t],
           UNCHANGED <<live, disk, ghosts>>
    PROVE  IInv'
  <1> USE DEF IInv, EnterUndo, disk, ghosts
  <1>1. NumberedInv'
    BY DEF NumberedInv, Running
  <1>2. SyncedInv'
    BY DEF SyncedInv, Running, Undoing
  <1>3. VisitInv'
    BY DEF VisitInv, Undoing, TargetSteps
  <1>4. PhaseInv'
    BY DEF PhaseInv, TargetSteps
  <1>5. RunningIsUndoable'
    BY DEF RunningIsUndoable, UndoValue, Reverts
  <1>6. UnfinishedIsUndoable'
    BY DEF UnfinishedIsUndoable, Undoable, Unresolved, UndoValue, Reverts
  <1> QED
    BY <1>1, <1>2, <1>3, <1>4, <1>5, <1>6

\* A step of the running operation that keeps the other invariants keeps
\* every transaction undoable: its own by memory, the others' by the frame.
LEMMA RunningStepUndoable ==
    ASSUME IInv, TypeOK', Running', tx' = tx, SyncedInv', RunningIsUndoable',
           \A x \in TxIds \ {tx} :
              /\ records'[x] = records[x] /\ backup'[x] = backup[x]
              /\ pre'[x] = pre[x] /\ declared'[x] = declared[x],
           \/ UNCHANGED <<live, touched>>
           \/ \E t \in Targets, v \in Slot : SetLive(tx, t, v)
    PROVE  UnfinishedIsUndoable'
  <1>1. Undoable(tx)'
    BY CurrentUndoable, PTL
  <1>2. ASSUME NEW x \in TxIds \ {tx}
        PROVE  Undoable(x)'
    <2>1. CASE records[x].status = "none"
      BY <2>1 DEF Undoable, Unresolved
    <2>2. CASE records[x].status # "none"
      <3>1. x <= count
        BY <2>2 DEF IInv, NumberedInv
      <3>2. touched[x] \subseteq touched'[x]
            /\ \A t \in Targets \ touched'[x] : live'[t] = live[t]
        BY <3>1, SetLiveFrame DEF IInv
      <3> QED
        BY <3>2, FrameUndoable DEF IInv, UnfinishedIsUndoable
    <2> QED
      BY <2>1, <2>2
  <1> QED
    BY <1>1, <1>2 DEF UnfinishedIsUndoable

\* Saving a record that undoes what memory did either goes on in a state
\* where disk and memory agree, or enters the except clause.
LEMMA SaveInv ==
    ASSUME IInv, TypeOK', Running, NEW r \in Record, NEW next, NEW rest \in SUBSET Targets,
           Save(r, next, rest), next \in Loops \cup TargetSteps, r.kind = mem.kind,
           \A t \in Targets \ touched[tx] : UndoValue(r, tx, t) = pre[tx][t],
           UNCHANGED <<live, backup, count, ghosts>>,
           pc' = next /\ mem' = r => VisitInv' /\ PhaseInv'
    PROVE  IInv'
  <1>1. CASE Spend("io") /\ EnterUndo(r) /\ UNCHANGED records
    BY <1>1, EnterUndoInv DEF disk, ghosts
  <1>2. CASE ~(Spend("io") /\ EnterUndo(r) /\ UNCHANGED records)
    <2>1. /\ records' = [records EXCEPT ![tx] = r]
          /\ mem' = r /\ pc' = next /\ todo' = rest
          /\ UNCHANGED <<tx, manifest, budget>>
      BY <1>2 DEF Save
    <2>2. tx \in TxIds /\ tx <= count /\ Running'
      BY <2>1, BoundAssumption DEF IInv, TypeOK, NumberedInv, Running, Undoing, Loops, TargetSteps, TxIds
    <2>3. NumberedInv'
      BY <2>1, <2>2 DEF IInv, TypeOK, NumberedInv, Running
    <2>4. SyncedInv'
      BY <2>1, <2>2 DEF IInv, TypeOK, SyncedInv, SameUndo
    <2>5. RunningIsUndoable'
      BY <2>1, <2>2 DEF RunningIsUndoable, UndoValue, Reverts, ghosts
    <2>6. UnfinishedIsUndoable'
      BY <2>1, <2>2, <2>4, <2>5, RunningStepUndoable DEF IInv, TypeOK, ghosts
    <2> QED
      BY <2>1, <2>3, <2>4, <2>5, <2>6 DEF IInv
  <1> QED
    BY <1>1, <1>2

\* StageInstall: nothing is entered yet, so undoing is doing nothing.
LEMMA StageInstallInv ==
    ASSUME IInv, TypeOK', StageInstall
    PROVE  IInv'
  <1> USE DEF IInv, TypeOK, disk, ghosts
  <1>1. tx \in TxIds /\ tx' = tx /\ Running /\ Running'
    BY BoundAssumption DEF StageInstall, TxIds, Running, Undoing, TargetSteps
  <1>2. NumberedInv'
    BY <1>1 DEF StageInstall, NumberedInv
  <1>3. SyncedInv'
    BY <1>1 DEF StageInstall, SyncedInv, SameUndo, Declared
  <1>4. VisitInv'
    BY <1>1 DEF StageInstall, VisitInv, Undoing, TargetSteps, Declared, Reverts
  <1>5. PhaseInv'
    BY <1>1 DEF StageInstall, PhaseInv, VisitInv, Record, TargetSteps, Declared
  <1>6. RunningIsUndoable'
    BY <1>1 DEF StageInstall, RunningIsUndoable, UndoValue, Reverts, VisitInv, TargetSteps, Declared
  <1>7. UnfinishedIsUndoable'
    BY <1>1, <1>3, <1>6, RunningStepUndoable DEF StageInstall, Declared
  <1> QED
    BY <1>2, <1>3, <1>4, <1>5, <1>6, <1>7

\* BackUpFile: the copy is of the file as it was before.
LEMMA BackUpFileInv ==
    ASSUME IInv, TypeOK', NEW t \in Targets, BackUpFile(t)
    PROVE  IInv'
  <1> USE DEF IInv, TypeOK, disk, ghosts
  <1>1. tx \in TxIds /\ tx' = tx /\ Running /\ Running'
    BY BoundAssumption DEF BackUpFile, TxIds, Running, Undoing, TargetSteps
  <1>2. NumberedInv'
    BY <1>1 DEF BackUpFile, NumberedInv
  <1>3. SyncedInv'
    BY <1>1 DEF BackUpFile, SyncedInv, SameUndo, BackUp
  <1>4. VisitInv'
    BY <1>1 DEF BackUpFile, VisitInv, RunningIsUndoable, UndoValue, Undoing, TargetSteps, BackUp, Reverts
  <1>5. PhaseInv'
    BY <1>1 DEF BackUpFile, PhaseInv, TargetSteps, BackUp
  <1>6. RunningIsUndoable'
    BY <1>1 DEF BackUpFile, RunningIsUndoable, UndoValue, Reverts, VisitInv, TargetSteps, BackUp
  <1>7. UnfinishedIsUndoable'
    BY <1>1, <1>3, <1>6, RunningStepUndoable DEF BackUpFile, BackUp
  <1> QED
    BY <1>2, <1>3, <1>4, <1>5, <1>6, <1>7

\* BackUpManaged: likewise for uninstall.
LEMMA BackUpManagedInv ==
    ASSUME IInv, TypeOK', NEW t \in Targets, BackUpManaged(t)
    PROVE  IInv'
  <1> USE DEF IInv, TypeOK, disk, ghosts
  <1>1. tx \in TxIds /\ tx' = tx /\ Running /\ Running'
    BY BoundAssumption DEF BackUpManaged, TxIds, Running, Undoing, TargetSteps
  <1>2. NumberedInv'
    BY <1>1 DEF BackUpManaged, NumberedInv
  <1>3. SyncedInv'
    BY <1>1 DEF BackUpManaged, SyncedInv, SameUndo, BackUp
  <1>4. VisitInv'
    BY <1>1 DEF BackUpManaged, VisitInv, RunningIsUndoable, UndoValue, Undoing, TargetSteps, BackUp, Reverts
  <1>5. PhaseInv'
    BY <1>1 DEF BackUpManaged, PhaseInv, TargetSteps, BackUp
  <1>6. RunningIsUndoable'
    BY <1>1 DEF BackUpManaged, RunningIsUndoable, UndoValue, Reverts, VisitInv, TargetSteps, BackUp
  <1>7. UnfinishedIsUndoable'
    BY <1>1, <1>3, <1>6, RunningStepUndoable DEF BackUpManaged, BackUp
  <1> QED
    BY <1>2, <1>3, <1>4, <1>5, <1>6, <1>7

\* BackUpStale: memory can undo it at once; the disk need not, for the file
\* is not declared.
LEMMA BackUpStaleInv ==
    ASSUME IInv, TypeOK', NEW t \in Targets, BackUpStale(t)
    PROVE  IInv'
  <1> USE DEF IInv, TypeOK, disk, ghosts
  <1>1. tx \in TxIds /\ tx' = tx /\ Running /\ Running'
    BY BoundAssumption DEF BackUpStale, TxIds, Running, Undoing, TargetSteps
  <1>2. NumberedInv'
    BY <1>1 DEF BackUpStale, NumberedInv
  <1>3. SyncedInv'
    <2>1. mem.kind = "install" /\ t \notin declared[tx]
      BY DEF BackUpStale, PhaseInv
    <2>2. mem'.kind = mem.kind /\ \A u \in Targets \ {t} : mem'.files[u] = mem.files[u]
      BY DEF BackUpStale, WithItem, Record
    <2> QED
      BY <1>1, <2>1, <2>2 DEF BackUpStale, SyncedInv, SameUndo
  <1>4. VisitInv'
    BY <1>1 DEF BackUpStale, VisitInv, Undoing, TargetSteps, BackUp, WithItem, Record, Reverts
  <1>5. PhaseInv'
    BY <1>1 DEF BackUpStale, PhaseInv, TargetSteps, BackUp, WithItem, Record
  <1>6. RunningIsUndoable'
    BY <1>1 DEF BackUpStale, RunningIsUndoable, UndoValue, Reverts, VisitInv, TargetSteps, BackUp, WithItem, Record
  <1>7. UnfinishedIsUndoable'
    BY <1>1, <1>3, <1>6, RunningStepUndoable DEF BackUpStale, BackUp, WithItem, Record
  <1> QED
    BY <1>2, <1>3, <1>4, <1>5, <1>6, <1>7

\* FilesInstalled: the leftovers it turns to are not declared.
LEMMA FilesInstalledInv ==
    ASSUME IInv, TypeOK', FilesInstalled
    PROVE  IInv'
  <1> USE DEF IInv, TypeOK, disk, ghosts
  <1>1. tx \in TxIds /\ tx' = tx /\ Running /\ Running'
    BY BoundAssumption DEF FilesInstalled, TxIds, Running, Undoing, TargetSteps
  <1>2. NumberedInv'
    BY <1>1 DEF FilesInstalled, NumberedInv
  <1>3. SyncedInv'
    BY <1>1 DEF FilesInstalled, SyncedInv, SameUndo, StaleTargets, Declared
  <1>4. VisitInv'
    BY <1>1 DEF FilesInstalled, VisitInv, PhaseInv, Undoing, TargetSteps, StaleTargets, Declared, Reverts
  <1>5. PhaseInv'
    BY <1>1 DEF FilesInstalled, PhaseInv, TargetSteps, StaleTargets, Declared
  <1>6. RunningIsUndoable'
    BY <1>1 DEF FilesInstalled, RunningIsUndoable, UndoValue, Reverts, VisitInv, TargetSteps, StaleTargets, Declared
  <1>7. UnfinishedIsUndoable'
    BY <1>1, <1>3, <1>6, RunningStepUndoable DEF FilesInstalled, StaleTargets, Declared
  <1> QED
    BY <1>2, <1>3, <1>4, <1>5, <1>6, <1>7

\* StartUninstall: no file has an entry yet.
LEMMA StartUninstallInv ==
    ASSUME IInv, TypeOK', StartUninstall
    PROVE  IInv'
  <1> USE DEF IInv, TypeOK, disk, ghosts
  <1>1. tx \in TxIds /\ tx' = tx /\ Running /\ Running'
    BY BoundAssumption DEF StartUninstall, TxIds, Running, Undoing, TargetSteps
  <1>2. NumberedInv'
    BY <1>1 DEF StartUninstall, NumberedInv
  <1>3. SyncedInv'
    BY <1>1 DEF StartUninstall, SyncedInv, SameUndo, ActiveFiles, StaleTargets
  <1>4. VisitInv'
    BY <1>1 DEF StartUninstall, VisitInv, Undoing, TargetSteps, ActiveFiles, StaleTargets, Reverts
  <1>5. PhaseInv'
    BY <1>1 DEF StartUninstall, PhaseInv, TargetSteps, ActiveFiles, StaleTargets
  <1>6. RunningIsUndoable'
    BY <1>1 DEF StartUninstall, RunningIsUndoable, UndoValue, Reverts, VisitInv, TargetSteps, ActiveFiles, StaleTargets
  <1>7. UnfinishedIsUndoable'
    BY <1>1, <1>3, <1>6, RunningStepUndoable DEF StartUninstall, ActiveFiles, StaleTargets
  <1> QED
    BY <1>2, <1>3, <1>4, <1>5, <1>6, <1>7

\* CopyStaged: the file it changes already has its entry on disk and in memory.
LEMMA CopyStagedInv ==
    ASSUME IInv, TypeOK', CopyStaged
    PROVE  IInv'
  <1> USE DEF IInv, TypeOK, disk, ghosts
  <1>1. tx \in TxIds /\ tx' = tx /\ Running /\ Running'
    BY BoundAssumption DEF CopyStaged, TxIds, Running, Undoing, TargetSteps
  <1>0. tgt \in Targets /\ manifest[tgt] \in Slot /\ SetLive(tx, tgt, manifest[tgt])
        /\ pre' = pre /\ declared' = declared /\ touched'[tx] = touched[tx]
        /\ \A s \in Targets : s # tgt => live'[s] = live[s]
    BY <1>1, SetLiveFrame DEF CopyStaged, TargetSteps
  <1>2. NumberedInv'
    BY <1>1 DEF CopyStaged, NumberedInv
  <1>3. SyncedInv'
    BY <1>1 , <1>0 DEF CopyStaged, SyncedInv, SameUndo
  <1>4. VisitInv'
    BY <1>1 , <1>0 DEF CopyStaged, VisitInv, Undoing, TargetSteps, Reverts
  <1>5. PhaseInv'
    BY <1>1 , <1>0 DEF CopyStaged, PhaseInv, TargetSteps
  <1>6. RunningIsUndoable'
    BY <1>1 , <1>0 DEF CopyStaged, RunningIsUndoable, UndoValue, Reverts, VisitInv, TargetSteps
  <1>7. UnfinishedIsUndoable'
    BY <1>1, <1>3, <1>6, RunningStepUndoable, <1>0 DEF CopyStaged
  <1> QED
    BY <1>2, <1>3, <1>4, <1>5, <1>6, <1>7

\* ApplyBaseline: so does the file it changes, on disk too if it must.
LEMMA ApplyBaselineInv ==
    ASSUME IInv, TypeOK', ApplyBaseline
    PROVE  IInv'
  <1> USE DEF IInv, TypeOK, disk, ghosts
  <1>1. tx \in TxIds /\ tx' = tx /\ Running /\ Running'
    BY BoundAssumption DEF ApplyBaseline, TxIds, Running, Undoing, TargetSteps
  <1>0. PICK v \in Slot : SetLive(tx, tgt, v)
    BY BaselineType DEF ApplyBaseline, TargetSteps
  <1>8. /\ tgt \in Targets
        /\ pre' = pre /\ declared' = declared /\ touched'[tx] = touched[tx]
        /\ \A s \in Targets : s # tgt => live'[s] = live[s]
    BY <1>0, <1>1, SetLiveFrame DEF ApplyBaseline, TargetSteps
  <1>2. NumberedInv'
    BY <1>1 DEF ApplyBaseline, NumberedInv
  <1>3. SyncedInv'
    BY <1>1 , <1>0, <1>8 DEF ApplyBaseline, SyncedInv, SameUndo, WithItem, Record
  <1>4. VisitInv'
    BY <1>1 , <1>0, <1>8 DEF ApplyBaseline, VisitInv, Undoing, TargetSteps, WithItem, Record, Reverts
  <1>5. PhaseInv'
    BY <1>1 , <1>0, <1>8 DEF ApplyBaseline, PhaseInv, TargetSteps, WithItem, Record
  <1>6. RunningIsUndoable'
    BY <1>1 , <1>0, <1>8 DEF ApplyBaseline, RunningIsUndoable, UndoValue, Reverts, VisitInv, TargetSteps, WithItem, Record
  <1>7. UnfinishedIsUndoable'
    BY <1>1, <1>3, <1>6, RunningStepUndoable, <1>0, <1>8 DEF ApplyBaseline, WithItem, Record
  <1> QED
    BY <1>2, <1>3, <1>4, <1>5, <1>6, <1>7

\* RecordIntent: the backup just made is what undoing will put back.
LEMMA RecordIntentInv ==
    ASSUME IInv, TypeOK', RecordIntent
    PROVE  IInv'
  <1> DEFINE existed == backup[tx][tgt] # Absent
             action == CASE mem.kind = "uninstall" -> "uninstall"
                         [] existed                -> "replace"
                         [] OTHER                  -> "create"
             item == [action |-> action, previously_existed |-> existed,
                      installed |-> Absent, post_absent |-> FALSE]
             r == WithItem(tgt, item)
             next == IF mem.kind = "uninstall" THEN "baseline" ELSE "copy"
  <1> USE DEF IInv, TypeOK
  <1>1. tgt \in Targets /\ tx \in TxIds /\ pc = "intend" /\ Running
    BY BoundAssumption DEF RecordIntent, TargetSteps, TxIds, Running, Undoing
  <1>2. /\ item \in Item /\ item.action \notin {"none", "unchanged"}
        /\ item.previously_existed = (backup[tx][tgt] # Absent)
    BY DEF Item, Slot
  <1>3. r \in Record /\ r.kind = mem.kind /\ r.status = mem.status /\ r.files[tgt] = item
        /\ \A t \in Targets \ {tgt} : r.files[t] = mem.files[t]
    BY <1>1, <1>2, WithItemType DEF WithItem, Record
  <1>4. \A t \in Targets \ touched[tx] : UndoValue(r, tx, t) = pre[tx][t]
    <2>1. tgt \notin touched[tx] => UndoValue(r, tx, tgt) = pre[tx][tgt]
      <3> HIDE DEF r, item
      <3>1. UndoValue(r, tx, tgt) = backup[tx][tgt]
        BY <1>2, <1>3 DEF UndoValue, Reverts
      <3> QED
        BY <1>1, <3>1 DEF VisitInv
    <2>2. \A t \in Targets \ {tgt} : UndoValue(r, tx, t) = UndoValue(mem, tx, t)
      BY <1>3 DEF UndoValue, Reverts
    <2> QED
      BY <1>1, <2>1, <2>2 DEF RunningIsUndoable, Running, Undoing
  <1>5. Save(r, next, todo) /\ UNCHANGED <<live, backup, count, ghosts>>
    BY DEF RecordIntent
  <1>6. ASSUME pc' = next, mem' = r
        PROVE  VisitInv' /\ PhaseInv'
    <2>1. /\ todo' = todo /\ tgt' = tgt /\ tx' = tx /\ manifest' = manifest
          /\ UNCHANGED ghosts /\ pc' \in {"baseline", "copy"}
          /\ mem.kind = "uninstall" <=> pc' = "baseline"
      BY <1>5, <1>6 DEF Save, EnterUndo, TargetSteps
    <2> HIDE DEF r, item, next
    <2>2. VisitInv'
      BY <1>1, <1>2, <1>3, <1>6, <2>1 DEF VisitInv, Reverts, TargetSteps, Undoing
    <2>3. PhaseInv'
      BY <1>1, <1>2, <1>3, <1>6, <2>1 DEF PhaseInv, Running, Undoing, TargetSteps, ghosts
    <2> QED
      BY <2>2, <2>3
  <1> HIDE DEF r, next, IInv, TypeOK
  <1>7. next \in TargetSteps /\ todo \in SUBSET Targets
    BY DEF TargetSteps, next, IInv, TypeOK
  <1> QED
    BY <1>1, <1>3, <1>4, <1>5, <1>6, <1>7, SaveInv

\* VerifyCopy: what is entered as installed does not matter for undoing.
LEMMA VerifyCopyInv ==
    ASSUME IInv, TypeOK', VerifyCopy
    PROVE  IInv'
  <1> DEFINE r == WithItem(tgt, [mem.files[tgt] EXCEPT !.installed = manifest[tgt]])
  <1> USE DEF IInv, TypeOK
  <1>1. tgt \in Targets /\ tx \in TxIds /\ pc = "verify" /\ Running
    BY BoundAssumption DEF VerifyCopy, TargetSteps, TxIds, Running, Undoing
  <1>2. [mem.files[tgt] EXCEPT !.installed = manifest[tgt]] \in Item
    BY <1>1, SetInstalledType DEF Record
  <1>3. /\ r \in Record /\ r.kind = mem.kind
        /\ \A t \in Targets : SameUndo(r, mem, t)
    BY <1>1, <1>2, WithItemType DEF WithItem, Record, Item, SameUndo
  <1>4. Save(r, "files", todo) /\ UNCHANGED <<live, backup, count, ghosts>>
    BY DEF VerifyCopy
  <1> HIDE DEF r
  <1>5. \A t \in Targets \ touched[tx] : UndoValue(r, tx, t) = pre[tx][t]
    BY <1>1, <1>3 DEF RunningIsUndoable, Running, Undoing, UndoValue, Reverts, SameUndo
  <1>6. ASSUME pc' = "files", mem' = r
        PROVE  VisitInv' /\ PhaseInv'
    <2>1. todo' = todo /\ tx' = tx /\ manifest' = manifest /\ UNCHANGED ghosts
      BY <1>4, <1>6 DEF Save, EnterUndo
    <2>2. VisitInv'
      BY <1>1, <1>3, <1>6, <2>1 DEF VisitInv, SameUndo, TargetSteps, Undoing
    <2>3. PhaseInv'
      BY <1>1, <1>3, <1>6, <2>1 DEF PhaseInv, SameUndo, Running, Undoing, TargetSteps, ghosts
    <2> QED
      BY <2>2, <2>3
  <1> HIDE DEF IInv, TypeOK
  <1>7. todo \in SUBSET Targets
    BY DEF IInv, TypeOK
  <1> QED
    BY <1>1, <1>3, <1>4, <1>5, <1>6, <1>7, SaveInv DEF Loops

\* LeaveUnchanged: an unchanged file needs no undoing.
LEMMA LeaveUnchangedInv ==
    ASSUME IInv, TypeOK', NEW t \in Targets, LeaveUnchanged(t)
    PROVE  IInv'
  <1> DEFINE item == [action |-> "unchanged", previously_existed |-> TRUE,
                      installed |-> manifest[t], post_absent |-> FALSE]
             r == WithItem(t, item)
  <1> USE DEF IInv, TypeOK
  <1>1. tx \in TxIds /\ pc = "files" /\ t \in todo /\ Running
    BY BoundAssumption DEF LeaveUnchanged, TargetSteps, TxIds, Running, Undoing
  <1>2. item \in Item /\ item.action = "unchanged"
    BY DEF Item
  <1>3. /\ r \in Record /\ r.kind = mem.kind /\ r.files[t] = item
        /\ \A u \in Targets \ {t} : r.files[u] = mem.files[u]
    BY <1>2, WithItemType DEF WithItem, Record
  <1>4. Save(r, "files", todo \ {t}) /\ UNCHANGED <<live, backup, count, ghosts>>
    BY DEF LeaveUnchanged
  <1> HIDE DEF r, item
  <1>5. \A u \in Targets \ touched[tx] : UndoValue(r, tx, u) = pre[tx][u]
    <2>1. \A u \in Targets : UndoValue(r, tx, u) = UndoValue(mem, tx, u)
      BY <1>1, <1>2, <1>3 DEF VisitInv, UndoValue, Reverts
    <2> QED
      BY <1>1, <2>1 DEF RunningIsUndoable, Running, Undoing
  <1>6. ASSUME pc' = "files", mem' = r
        PROVE  VisitInv' /\ PhaseInv'
    <2>1. todo' = todo \ {t} /\ tx' = tx /\ manifest' = manifest /\ UNCHANGED ghosts
      BY <1>4, <1>6 DEF Save, EnterUndo
    <2>2. VisitInv'
      BY <1>1, <1>3, <1>6, <2>1 DEF VisitInv, TargetSteps, Undoing
    <2>3. PhaseInv'
      BY <1>1, <1>3, <1>6, <2>1 DEF PhaseInv, Running, Undoing, TargetSteps, ghosts
    <2> QED
      BY <2>2, <2>3
  <1> HIDE DEF IInv, TypeOK
  <1>7. todo \ {t} \in SUBSET Targets
    BY DEF IInv, TypeOK
  <1> QED
    BY <1>1, <1>3, <1>4, <1>5, <1>6, <1>7, SaveInv DEF Loops

\* RecordOutcome: the loop goes on with what is left.
LEMMA RecordOutcomeInv ==
    ASSUME IInv, TypeOK', RecordOutcome
    PROVE  IInv'
  <1> DEFINE next == IF mem.kind = "uninstall" THEN "uninstall" ELSE "stale"
  <1> USE DEF IInv, TypeOK
  <1>1. tx \in TxIds /\ pc = "record" /\ Running
    BY BoundAssumption DEF RecordOutcome, TargetSteps, TxIds, Running, Undoing
  <1>2. Save(mem, next, todo) /\ UNCHANGED <<live, backup, count, ghosts>>
    BY DEF RecordOutcome
  <1>3. next \in Loops /\ (mem.kind = "uninstall" <=> next = "uninstall")
    BY DEF Loops
  <1> HIDE DEF next
  <1>4. ASSUME pc' = next, mem' = mem
        PROVE  VisitInv' /\ PhaseInv'
    <2>1. todo' = todo /\ tx' = tx /\ manifest' = manifest /\ UNCHANGED ghosts
          /\ pc' \in {"uninstall", "stale"}
      BY <1>2, <1>3, <1>4 DEF Save, EnterUndo, Loops, next
    <2>2. VisitInv'
      BY <1>1, <1>4, <2>1 DEF VisitInv, TargetSteps, Undoing
    <2>3. PhaseInv'
      BY <1>1, <1>3, <1>4, <2>1 DEF PhaseInv, Running, Undoing, TargetSteps, ghosts
    <2> QED
      BY <2>2, <2>3
  <1>5. \A t \in Targets \ touched[tx] : UndoValue(mem, tx, t) = pre[tx][t]
    BY <1>1 DEF RunningIsUndoable, Running, Undoing
  <1>6. mem \in Record /\ todo \in SUBSET Targets
    OBVIOUS
  <1> HIDE DEF IInv, TypeOK
  <1> QED
    BY <1>1, <1>2, <1>3, <1>4, <1>5, <1>6, SaveInv

\* Commit: the record only changes its status.
LEMMA CommitInv ==
    ASSUME IInv, TypeOK', Commit
    PROVE  IInv'
  <1> DEFINE r == [mem EXCEPT !.status = "committed"]
  <1> USE DEF IInv, TypeOK
  <1>1. tx \in TxIds /\ pc \in {"stale", "uninstall"} /\ Running
    BY BoundAssumption DEF Commit, TargetSteps, TxIds, Running, Undoing
  <1>2. Save(r, "audit", {}) /\ UNCHANGED <<live, backup, count, ghosts>>
    BY DEF Commit
  <1>3. r \in Record /\ r.kind = mem.kind /\ r.files = mem.files
    <2>1. r \in Record
      BY SetStatusType DEF Statuses
    <2>2. r.kind = mem.kind /\ r.files = mem.files
      BY DEF Record
    <2> QED
      BY <2>1, <2>2
  <1> HIDE DEF r
  <1>4. ASSUME pc' = "audit", mem' = r
        PROVE  VisitInv' /\ PhaseInv'
    <2>1. todo' = {} /\ tx' = tx
      BY <1>2, <1>4 DEF Save, EnterUndo
    <2>2. VisitInv'
      BY <1>1, <1>4, <2>1 DEF VisitInv, TargetSteps, Undoing
    <2>3. PhaseInv'
      BY <1>1, <1>3, <1>4, <2>1 DEF PhaseInv, Running, Undoing, TargetSteps
    <2> QED
      BY <2>2, <2>3
  <1>5. \A t \in Targets \ touched[tx] : UndoValue(r, tx, t) = pre[tx][t]
    BY <1>1, <1>3 DEF RunningIsUndoable, Running, Undoing, UndoValue, Reverts
  <1>6. {} \in SUBSET Targets
    OBVIOUS
  <1> HIDE DEF IInv, TypeOK
  <1> QED
    BY <1>1, <1>2, <1>3, <1>4, <1>5, <1>6, SaveInv DEF Loops

\* Whatever raises in the try block leaves memory as it was.
LEMMA ExceptInv ==
    ASSUME IInv, TypeOK',
           CopyMismatch \/ BaselineFails \/ Fail \/ \E t \in Targets : StaleDrift(t)
    PROVE  IInv'
  <1>1. EnterUndo(mem) /\ Running /\ UNCHANGED <<live, disk, ghosts>>
    BY DEF CopyMismatch, BaselineFails, Fail, StaleDrift, Running, Undoing, TargetSteps, Mishaps
  <1>2. mem \in Record /\ \A t \in Targets \ touched[tx] : UndoValue(mem, tx, t) = pre[tx][t]
    BY <1>1 DEF IInv, TypeOK, RunningIsUndoable, Running, Undoing
  <1> QED
    BY <1>1, <1>2, EnterUndoInv

\* The operation ends without a trace: whoever was undoable stays so.
LEMMA FinishInv ==
    ASSUME IInv, TypeOK', Finish, UNCHANGED <<live, disk, ghosts>>
    PROVE  IInv'
  <1> USE DEF IInv, Finish, disk, ghosts
  <1>1. NumberedInv' /\ SyncedInv'
    BY DEF NumberedInv, SyncedInv, Running
  <1>2. VisitInv' /\ PhaseInv'
    BY DEF VisitInv, PhaseInv, NoRecord, NewRecord, Running, Undoing, TargetSteps
  <1>3. RunningIsUndoable'
    BY DEF RunningIsUndoable
  <1>4. UnfinishedIsUndoable'
    BY DEF UnfinishedIsUndoable, Undoable, Unresolved, UndoValue, Reverts
  <1> QED
    BY <1>1, <1>2, <1>3, <1>4

LEMMA LeaveInv ==
    ASSUME IInv, TypeOK', AuditCommit \/ StartAuditFails \/ RestoreFails
    PROVE  IInv'
  BY FinishInv DEF AuditCommit, StartAuditFails, RestoreFails

\* UndoFile: the file gets back what preceded the operation, so undoing it
\* once more by the record on disk would change nothing.
LEMMA UndoFileInv ==
    ASSUME IInv, TypeOK', NEW t \in Targets, UndoFile(t)
    PROVE  IInv'
  <1> USE DEF IInv, TypeOK, disk, ghosts
  <1>1. /\ tx \in TxIds /\ tx <= count /\ pc = "undo" /\ pc' = "undo"
        /\ UNCHANGED <<tx, mem, manifest, tgt, records, backup, count>>
        /\ todo' \subseteq todo /\ Reverts(mem, t)
    BY BoundAssumption DEF UndoFile, TxIds, NumberedInv, VisitInv, Undoing, Reverted
  <1>2. /\ pre' = pre /\ declared' = declared /\ touched'[tx] = touched[tx]
        /\ \A s \in Targets : s # t => live'[s] = live[s]
        /\ live'[t] = UndoValue(mem, tx, t)
        /\ \A x \in TxIds : touched[x] \subseteq touched'[x]
        /\ \A x \in TxIds : x <= count /\ x # tx =>
              \A s \in Targets \ touched'[x] : live'[s] = live[s]
    BY <1>1, SetLiveFrame DEF UndoFile
  <1>3. NumberedInv' /\ SyncedInv'
    BY <1>1 DEF NumberedInv, SyncedInv, Running, Undoing
  <1>4. VisitInv'
    BY <1>1 DEF VisitInv, TargetSteps, Undoing, Reverted, Reverts
  <1>5. PhaseInv'
    BY <1>1 DEF PhaseInv, TargetSteps, Running, Undoing
  <1>6. RunningIsUndoable'
    BY <1>1, <1>2 DEF RunningIsUndoable, UndoValue, Reverts
  <1>7. UnfinishedIsUndoable'
    <2>1. \A s \in Targets \ touched[tx] :
             live'[s] = live[s] \/ (live'[s] = pre[tx][s])
      BY <1>1, <1>2 DEF RunningIsUndoable
    <2>2. Undoable(tx)'
      BY <1>1, <1>2, <2>1 DEF UnfinishedIsUndoable, Undoable, Unresolved, UndoValue, Reverts
    <2>3. ASSUME NEW x \in TxIds \ {tx}
          PROVE  Undoable(x)'
      <3>1. CASE records[x].status = "none"
        BY <1>1, <3>1 DEF Undoable, Unresolved
      <3>2. CASE records[x].status # "none"
        BY <1>1, <1>2, <3>2, FrameUndoable DEF NumberedInv, UnfinishedIsUndoable
      <3> QED
        BY <3>1, <3>2
    <2> QED
      BY <1>1, <2>2, <2>3 DEF UnfinishedIsUndoable
  <1> QED
    BY <1>3, <1>4, <1>5, <1>6, <1>7

\* RestoreFile: the same with the record of disk.
LEMMA RestoreFileInv ==
    ASSUME IInv, TypeOK', NEW t \in Targets, RestoreFile(t)
    PROVE  IInv'
  <1> USE DEF IInv, TypeOK, disk, ghosts
  <1>1. /\ tx \in TxIds /\ tx <= count /\ pc = "restore" /\ pc' = "restore"
        /\ UNCHANGED <<tx, mem, manifest, tgt, records, backup, count>>
        /\ todo' \subseteq todo /\ Reverts(records[tx], t) /\ mem = records[tx]
    BY BoundAssumption DEF RestoreFile, TxIds, NumberedInv, VisitInv, Undoing, Reverted
  <1>2. /\ pre' = pre /\ declared' = declared /\ touched'[tx] = touched[tx]
        /\ \A s \in Targets : s # t => live'[s] = live[s]
        /\ \A x \in TxIds : touched[x] \subseteq touched'[x]
        /\ \A x \in TxIds : x <= count /\ x # tx =>
              \A s \in Targets \ touched'[x] : live'[s] = live[s]
    BY <1>1, SetLiveFrame DEF RestoreFile
  <1>3. NumberedInv' /\ SyncedInv'
    BY <1>1 DEF NumberedInv, SyncedInv, Running, Undoing
  <1>4. VisitInv'
    BY <1>1 DEF VisitInv, TargetSteps, Undoing, Reverted, Reverts
  <1>5. PhaseInv'
    BY <1>1 DEF PhaseInv, TargetSteps, Running, Undoing
  <1>6. RunningIsUndoable'
    BY <1>1 DEF RunningIsUndoable
  <1>7. UnfinishedIsUndoable'
    <2>1. Undoable(tx)'
      BY <1>1, <1>2 DEF UnfinishedIsUndoable, Undoable, Unresolved, UndoValue, Reverts
    <2>2. ASSUME NEW x \in TxIds \ {tx}
          PROVE  Undoable(x)'
      <3>1. CASE records[x].status = "none"
        BY <1>1, <3>1 DEF Undoable, Unresolved
      <3>2. CASE records[x].status # "none"
        BY <1>1, <1>2, <3>2, FrameUndoable DEF NumberedInv, UnfinishedIsUndoable
      <3> QED
        BY <3>1, <3>2
    <2> QED
      BY <1>1, <2>1, <2>2 DEF UnfinishedIsUndoable
  <1> QED
    BY <1>3, <1>4, <1>5, <1>6, <1>7

\* A transaction that cannot go on undoing either remembers so or gives up.
LEMMA UndoFileFailsInv ==
    ASSUME IInv, TypeOK', NEW t \in Targets, UndoFileFails(t)
    PROVE  IInv'
  <1> USE DEF IInv, disk, ghosts
  <1>1. pc = "undo" /\ UNCHANGED <<live, disk, ghosts>>
    BY DEF UndoFileFails
  <1>2. CASE Finish
    BY <1>1, <1>2, FinishInv
  <1>3. CASE ~Finish
    <2>1. /\ UNCHANGED <<pc, tx, manifest, tgt>> /\ todo' \subseteq todo
          /\ mem' = [mem EXCEPT !.status = "rollback_failed_after_install_failure"]
      BY <1>3 DEF UndoFileFails
    <2>2. mem'.kind = mem.kind /\ mem'.files = mem.files
      BY <2>1 DEF TypeOK, Record
    <2>3. NumberedInv' /\ SyncedInv'
      BY <1>1, <2>1, <2>2 DEF NumberedInv, SyncedInv, Running, Undoing
    <2>4. VisitInv'
      BY <1>1, <2>1, <2>2 DEF VisitInv, TargetSteps, Undoing, Reverted, Reverts
    <2>5. PhaseInv'
      BY <1>1, <2>1, <2>2 DEF PhaseInv, TargetSteps, Running, Undoing
    <2>6. RunningIsUndoable'
      BY <1>1, <2>1, <2>2 DEF RunningIsUndoable, UndoValue, Reverts
    <2>7. UnfinishedIsUndoable'
      BY <1>1 DEF UnfinishedIsUndoable, Undoable, Unresolved, UndoValue, Reverts
    <2> QED
      BY <2>3, <2>4, <2>5, <2>6, <2>7
  <1> QED
    BY <1>2, <1>3

\* A record that gets a final status claims nothing any more.
LEMMA ResolveInv ==
    ASSUME IInv, TypeOK', pc # "idle", Finish, UNCHANGED <<live, backup, count, ghosts>>,
           \A x \in TxIds \ {tx} : records'[x] = records[x],
           records'[tx] = records[tx] \/
              records'[tx].status \notin {"staging", "committing", "interrupted"}
    PROVE  IInv'
  <1> USE DEF IInv, ghosts
  <1>1. NumberedInv'
    BY BoundAssumption DEF NumberedInv, Finish, TypeOK, TxIds
  <1>2. SyncedInv' /\ RunningIsUndoable'
    BY DEF SyncedInv, RunningIsUndoable, Running, Finish
  <1>3. VisitInv' /\ PhaseInv'
    BY DEF VisitInv, PhaseInv, NoRecord, NewRecord, Running, Undoing, TargetSteps, Finish
  <1>4. UnfinishedIsUndoable'
    BY DEF UnfinishedIsUndoable, Undoable, Unresolved, UndoValue, Reverts
  <1> QED
    BY <1>1, <1>2, <1>3, <1>4

LEMMA DoneInv ==
    ASSUME IInv, TypeOK', UndoDone \/ RestoreDone
    PROVE  IInv'
  <1>1. tx \in TxIds /\ pc # "idle" /\ Finish /\ UNCHANGED <<live, backup, count, ghosts>>
    BY BoundAssumption DEF UndoDone, RestoreDone, IInv, TypeOK, TxIds
  <1>2. \A x \in TxIds \ {tx} : records'[x] = records[x]
    BY DEF UndoDone, RestoreDone, IInv, TypeOK
  <1>3. \/ records'[tx] = records[tx]
        \/ records'[tx].status \notin {"staging", "committing", "interrupted"}
    <2>1. CASE UndoDone
      <3>1. CASE UNCHANGED records
        BY <3>1
      <3>2. CASE ~UNCHANGED records
        <4>1. records'[tx].status \in {"rollback_failed_after_install_failure",
                                       "rolled_back_after_failure"}
          BY <1>1, <2>1, <3>2 DEF UndoDone, IInv, TypeOK, Record
        <4> QED
          BY <4>1
      <3> QED
        BY <3>1, <3>2
    <2>2. CASE RestoreDone
      <3>1. records'[tx].status \in {"rolled_back", "recovered"}
        BY <1>1, <2>2 DEF RestoreDone, IInv, TypeOK, Record
      <3> QED
        BY <3>1
    <2> QED
      BY <2>1, <2>2
  <1> QED
    BY <1>1, <1>2, <1>3, ResolveInv

\* A new transaction has nothing entered, and its snapshot is what is live.
LEMMA CreateInv ==
    ASSUME IInv, TypeOK', NEW kind \in {"install", "uninstall"}, NEW id, NEW status \in Statuses,
           Create(NewRecord(kind, id, status)),
           UNCHANGED <<live, backup, touched, declared>>
    PROVE  IInv'
  <1> USE DEF IInv
  <1>1. /\ tx' = count + 1 /\ count' = count + 1 /\ tx' \in TxIds /\ pc' = "started"
        /\ todo' = {} /\ mem' = NewRecord(kind, id, status)
        /\ records'[tx'] = mem' /\ pre'[tx'] = live /\ count \in Nat
        /\ \A x \in TxIds \ {tx'} : records'[x] = records[x] /\ pre'[x] = pre[x]
    BY BoundAssumption DEF Create, TypeOK, TxIds
  <1>2. /\ mem'.kind = kind /\ \A t \in Targets : mem'.files[t].action = "none"
    BY <1>1 DEF NewRecord, NoItem
  <1>3. NumberedInv'
    BY <1>1 DEF NumberedInv, TxIds
  <1>4. SyncedInv'
    BY <1>1 DEF SyncedInv, SameUndo
  <1>5. VisitInv'
    BY <1>1, <1>2 DEF VisitInv, TargetSteps, Undoing
  <1>6. PhaseInv'
    BY <1>1, <1>2 DEF PhaseInv, TargetSteps
  <1>7. RunningIsUndoable'
    BY <1>1, <1>2 DEF RunningIsUndoable, UndoValue, Reverts
  <1>8. UnfinishedIsUndoable'
    <2>1. Undoable(tx)'
      BY <1>1, <1>2 DEF Undoable, UndoValue, Reverts
    <2>2. ASSUME NEW x \in TxIds \ {tx'}
          PROVE  Undoable(x)'
      BY <1>1, FrameUndoable DEF UnfinishedIsUndoable
    <2> QED
      BY <2>1, <2>2 DEF UnfinishedIsUndoable
  <1> QED
    BY <1>3, <1>4, <1>5, <1>6, <1>7, <1>8

\* A restore starts from the record on disk.
LEMMA BeginRestoreInv ==
    ASSUME IInv, TypeOK', NEW x \in TxIds, records[x].status # "none", BeginRestore(x)
    PROVE  IInv'
  <1> USE DEF IInv, disk, ghosts, BeginRestore
  <1>1. NumberedInv'
    BY DEF NumberedInv, TxIds
  <1>2. SyncedInv' /\ RunningIsUndoable'
    BY DEF SyncedInv, RunningIsUndoable, Running, Undoing
  <1>3. VisitInv'
    BY DEF VisitInv, TargetSteps, Undoing
  <1>4. PhaseInv'
    BY DEF PhaseInv, TargetSteps, Running, Undoing
  <1>5. UnfinishedIsUndoable'
    BY DEF UnfinishedIsUndoable, Undoable, Unresolved, UndoValue, Reverts
  <1> QED
    BY <1>1, <1>2, <1>3, <1>4, <1>5

LEMMA RequestInv ==
    ASSUME IInv, TypeOK', Request
    PROVE  IInv'
  <1>1. ASSUME NEW p \in Packages, BeginInstall(p)
        PROVE  IInv'
    BY <1>1, CreateInv DEF BeginInstall, Statuses
  <1>2. ASSUME NEW id \in PackageIds, NEW force \in BOOLEAN, BeginUninstall(id, force)
        PROVE  IInv'
    BY <1>2, CreateInv DEF BeginUninstall, Statuses
  <1>3. ASSUME NEW x \in TxIds, NEW force \in BOOLEAN, BeginRollback(x, force)
        PROVE  IInv'
    BY <1>3, BeginRestoreInv DEF BeginRollback
  <1>4. ASSUME NEW x \in TxIds, BeginRecovery(x)
        PROVE  IInv'
    BY <1>4, BeginRestoreInv DEF BeginRecovery, Recoverable
  <1> QED
    BY <1>1, <1>2, <1>3, <1>4 DEF Request

\* A mark changes what a record is called, not what it can undo.
LEMMA MarkUndoable ==
    ASSUME IInv, MarkInterrupted, UNCHANGED <<live, backup, ghosts>>
    PROVE  /\ UnfinishedIsUndoable'
           /\ \A x \in TxIds : records'[x].kind = records[x].kind
                               /\ (records[x].status = "none" => records'[x].status = "none")
  <1>1. \A x \in TxIds :
           /\ records'[x].kind = records[x].kind /\ records'[x].files = records[x].files
           /\ records'[x].status = IF Unresolved(x) THEN "interrupted" ELSE records[x].status
    BY DEF IInv, TypeOK, MarkInterrupted, Record
  <1>2. UnfinishedIsUndoable'
    BY <1>1 DEF IInv, UnfinishedIsUndoable, Undoable, Unresolved, UndoValue, Reverts, ghosts
  <1> QED
    BY <1>1, <1>2 DEF Unresolved

LEMMA CrashInv ==
    ASSUME IInv, TypeOK', Crash
    PROVE  IInv'
  <1>1. /\ UnfinishedIsUndoable' /\ Finish /\ UNCHANGED <<live, backup, count, ghosts>>
        /\ \A x \in TxIds : records[x].status = "none" => records'[x].status = "none"
    BY MarkUndoable DEF Crash
  <1>2. NumberedInv' /\ SyncedInv' /\ RunningIsUndoable'
    BY <1>1 DEF IInv, NumberedInv, SyncedInv, RunningIsUndoable, Running, Finish
  <1>3. VisitInv' /\ PhaseInv'
    BY <1>1 DEF VisitInv, PhaseInv, NoRecord, NewRecord, Running, Undoing, TargetSteps, Finish
  <1> QED
    BY <1>1, <1>2, <1>3 DEF IInv

LEMMA RestartInv ==
    ASSUME IInv, TypeOK', Restart
    PROVE  IInv'
  <1>1. /\ UnfinishedIsUndoable' /\ pc = "idle" /\ UNCHANGED <<live, backup, count, worker, ghosts>>
        /\ \A x \in TxIds : records[x].status = "none" => records'[x].status = "none"
    BY MarkUndoable DEF Restart
  <1>2. NumberedInv' /\ SyncedInv' /\ RunningIsUndoable'
    BY <1>1 DEF IInv, NumberedInv, SyncedInv, RunningIsUndoable, Running, worker
  <1>3. VisitInv' /\ PhaseInv'
    BY <1>1 DEF IInv, VisitInv, PhaseInv, Running, Undoing, TargetSteps, worker, ghosts
  <1> QED
    BY <1>1, <1>2, <1>3 DEF IInv

\* A file somebody else changes is touched in every transaction there is.
LEMMA UserEditInv ==
    ASSUME IInv, TypeOK', NEW t \in Targets, NEW v \in Slot, UserEdit(t, v)
    PROVE  IInv'
  <1> USE DEF IInv, disk, worker
  <1>1. UNCHANGED <<disk, worker>> /\ SetLive(0, t, v)
    BY DEF UserEdit
  <1>2. /\ pre' = pre /\ declared' = declared
        /\ \A x \in TxIds : touched[x] \subseteq touched'[x]
        /\ \A x \in TxIds : x <= count => \A s \in Targets \ touched'[x] : live'[s] = live[s]
    <2>1. 0 \notin TxIds
      BY DEF TxIds
    <2> QED
      BY <1>1, <2>1, SetLiveFrame
  <1>3. pc # "idle" => tx \in TxIds /\ tx <= count
    BY DEF NumberedInv, TypeOK, TxIds
  <1>4. NumberedInv' /\ SyncedInv'
    BY <1>1, <1>2 DEF NumberedInv, SyncedInv, Running
  <1>5. VisitInv'
    BY <1>1, <1>2, <1>3 DEF VisitInv, TargetSteps, Undoing, Reverts
  <1>6. PhaseInv'
    BY <1>1, <1>2 DEF PhaseInv, Running
  <1>7. RunningIsUndoable'
    BY <1>1, <1>2, <1>3 DEF RunningIsUndoable, UndoValue, Reverts
  <1>8. UnfinishedIsUndoable'
    <2> SUFFICES ASSUME NEW x \in TxIds
                 PROVE  Undoable(x)'
      BY DEF UnfinishedIsUndoable
    <2>1. CASE records[x].status = "none"
      BY <1>1, <2>1 DEF Undoable, Unresolved
    <2>2. CASE records[x].status # "none"
      BY <1>1, <1>2, <2>2, FrameUndoable DEF NumberedInv, UnfinishedIsUndoable
    <2> QED
      BY <2>1, <2>2
  <1> QED
    BY <1>4, <1>5, <1>6, <1>7, <1>8

-----------------------------------------------------------------------------
LEMMA StepInv ==
    ASSUME IInv, TypeOK', Step
    PROVE  IInv'
  BY StageInstallInv, RecordIntentInv, CopyStagedInv, VerifyCopyInv, ExceptInv,
     FilesInstalledInv, ApplyBaselineInv, RecordOutcomeInv, CommitInv, LeaveInv,
     StartUninstallInv, DoneInv, LeaveUnchangedInv, BackUpFileInv, BackUpStaleInv,
     BackUpManagedInv, UndoFileInv, RestoreFileInv
  DEF Step

LEMMA RaiseInv ==
    ASSUME IInv, TypeOK', Raise
    PROVE  IInv'
  BY LeaveInv, ExceptInv, UndoFileFailsInv DEF Raise

LEMMA EnvironmentInv ==
    ASSUME IInv, TypeOK', Environment
    PROVE  IInv'
  BY CrashInv, RestartInv, UserEditInv DEF Environment

LEMMA InitInv == Init => IInv
  <1> SUFFICES ASSUME Init
               PROVE  IInv
    OBVIOUS
  <1>1. \A x \in TxIds : records[x].status = "none"
    BY DEF Init, NoRecord, NewRecord
  <1>2. NumberedInv /\ SyncedInv /\ RunningIsUndoable
    BY <1>1 DEF Init, NumberedInv, SyncedInv, RunningIsUndoable, Running
  <1>3. VisitInv /\ PhaseInv
    BY DEF Init, VisitInv, PhaseInv, Running, Undoing, TargetSteps, NoRecord, NewRecord
  <1>4. UnfinishedIsUndoable
    BY <1>1 DEF UnfinishedIsUndoable, Undoable, Unresolved
  <1> QED
    BY <1>2, <1>3, <1>4, TypeInit DEF IInv

LEMMA NextInv == IInv /\ [Next]_vars => IInv'
  <1> SUFFICES ASSUME IInv, [Next]_vars
               PROVE  IInv'
    OBVIOUS
  <1>1. CASE Next
    <2>1. TypeOK'
      BY <1>1, TypeStep, TypeRaise, TypeRequest, TypeEnvironment DEF Next, IInv
    <2> QED
      BY <1>1, <2>1, StepInv, RaiseInv, RequestInv, EnvironmentInv DEF Next
  <1>2. CASE UNCHANGED vars
    <2> USE <1>2 DEF vars, disk, worker, ghosts, IInv
    <2>1. TypeOK'
      BY DEF TypeOK
    <2>2. NumberedInv' /\ SyncedInv'
      BY DEF NumberedInv, SyncedInv, Running
    <2>3. VisitInv' /\ PhaseInv'
      BY DEF VisitInv, PhaseInv, Running, Reverts, Reverted
    <2>4. RunningIsUndoable' /\ UnfinishedIsUndoable'
      BY DEF RunningIsUndoable, UnfinishedIsUndoable, Undoable, Unresolved, UndoValue, Reverts
    <2> QED
      BY <2>1, <2>2, <2>3, <2>4
  <1> QED
    BY <1>1, <1>2

\* Wherever the process may die, the record on disk of an unfinished
\* transaction and its backups suffice to restore what preceded it: for any
\* number of files, packages, transactions, crashes, errors and foreign edits.
THEOREM UnfinishedUndoable == Spec => []UnfinishedIsUndoable
  <1>1. IInv => UnfinishedIsUndoable
    BY DEF IInv
  <1> QED
    BY <1>1, InitInv, NextInv, PTL DEF Spec

\* Whatever raises inside an install or an uninstall, the except clause has in
\* memory all it needs to restore every file, stale ones included.
THEOREM RunningUndoable == Spec => []RunningIsUndoable
  <1>1. IInv => RunningIsUndoable
    BY DEF IInv
  <1> QED
    BY <1>1, InitInv, NextInv, PTL DEF Spec

-----------------------------------------------------------------------------
(***************************************************************************)
(* How operations end.  The invariant behind FailedIsRestored,             *)
(* RecoveredIsRestored, RolledBackIsRestored and CommitIsExact.            *)
(***************************************************************************)
Visiting == {"files", "stale", "uninstall"} \cup TargetSteps
UndoFailed == "rollback_failed_after_install_failure"

\* What the record of the transaction in flight is called on disk.
StatusInv ==
    /\ pc = "started" => /\ records[tx].status = mem.status
                         /\ mem.status \in {"staging", "committing"}
                         /\ mem.kind = "uninstall" => mem.status = "committing"
    /\ pc \in Visiting => records[tx].status = "committing" /\ mem.status = "committing"
    /\ pc = "audit" => records[tx].status = "committed"
    /\ pc = "undo" => records[tx].status \in {"staging", "committing", "committed"}
    /\ pc = "restore" => records[tx].status \in {"committed", "interrupted"}

\* The files an undoing has behind it are undone.
UndoneInv ==
    pc = "restore" \/ (pc = "undo" /\ mem.status # UndoFailed) =>
        \A t \in Reverted(mem) \ (todo \cup touched[tx]) : live[t] = UndoValue(mem, tx, t)

\* A file that is entered, and no longer worked on, holds what is entered.
EnteredInv ==
    pc \in Visiting =>
        \A t \in Targets \ touched[tx] :
            mem.files[t].action # "none" /\ ~(pc \in TargetSteps \ {"record"} /\ t = tgt) =>
                live[t] = mem.files[t].installed

\* An install has entered each declared file it has behind it.
DeclaredInv ==
    pc \in {"files", "stale"} \cup TargetSteps /\ mem.kind = "install" =>
        \A t \in declared[tx] \ (IF pc \in {"intend", "copy", "verify"} THEN todo \cup {tgt} ELSE todo) :
            mem.files[t].action # "none" /\ mem.files[t].installed = manifest[t]

\* What the final status of a transaction says is so, and a committed one can
\* be rolled back.
Outcome(x) ==
    /\ records[x].status = "committed" =>
          \A t \in Targets \ touched[x] : UndoValue(records[x], x, t) = pre[x][t]
    /\ records[x].status \in {"rolled_back_after_failure", "rolled_back"} =>
          \A t \in Targets \ touched[x] : live[t] = pre[x][t]
    /\ records[x].status = "recovered" =>
          \A t \in declared[x] \ touched[x] : live[t] = pre[x][t]
OutcomeInv == \A x \in TxIds : Outcome(x)

LInv == StatusInv /\ UndoneInv /\ EnteredInv /\ DeclaredInv
OInv == LInv /\ OutcomeInv

-----------------------------------------------------------------------------
(* Frames.                                                                 *)

\* A transaction whose record, backups and ghosts stay, and whose untouched
\* files stay, has the same outcome.
LEMMA FrameOutcome ==
    ASSUME NEW x \in TxIds, TypeOK, Outcome(x),
           records'[x] = records[x], backup'[x] = backup[x],
           pre'[x] = pre[x], declared'[x] = declared[x], touched[x] \subseteq touched'[x],
           \A t \in Targets \ touched'[x] : live'[t] = live[t]
    PROVE  Outcome(x)'
  BY DEF Outcome, UndoValue, Reverts, TypeOK

\* A step of the transaction in flight leaves the outcome of every other.
LEMMA OthersOutcome ==
    ASSUME IInv, OutcomeInv, NEW x \in TxIds, x # tx,
           records'[x] = records[x], backup'[x] = backup[x],
           pre'[x] = pre[x], declared'[x] = declared[x],
           \/ UNCHANGED <<live, touched>>
           \/ \E t \in Targets, v \in Slot : SetLive(tx, t, v)
    PROVE  Outcome(x)'
  <1>1. CASE records[x].status = "none"
    BY <1>1 DEF Outcome
  <1>2. CASE records[x].status # "none"
    <2>1. x <= count
      BY <1>2 DEF IInv, NumberedInv
    <2>2. touched[x] \subseteq touched'[x] /\ \A t \in Targets \ touched'[x] : live'[t] = live[t]
      BY <2>1, SetLiveFrame DEF IInv
    <2> QED
      BY <2>2, FrameOutcome DEF IInv, OutcomeInv
  <1> QED
    BY <1>1, <1>2

\* What changes neither files nor records changes no outcome.
LEMMA SameOutcome ==
    ASSUME IInv, OutcomeInv, UNCHANGED <<live, records, backup, ghosts>>
    PROVE  OutcomeInv'
  BY FrameOutcome DEF OutcomeInv, IInv, ghosts

\* An unfinished transaction has no outcome yet.
LEMMA NoOutcomeYet ==
    ASSUME NEW x \in TxIds, records[x].status \in {"none", "staging", "committing", "interrupted"}
    PROVE  Outcome(x)
  BY DEF Outcome

\* An operation that ends has nothing in flight.
LEMMA FinishLocal ==
    ASSUME Finish
    PROVE  LInv'
  BY DEF Finish, LInv, StatusInv, UndoneInv, EnteredInv, DeclaredInv, Visiting, TargetSteps

LEMMA FinishOutcome ==
    ASSUME IInv, OInv, Finish, UNCHANGED <<live, disk, ghosts>>
    PROVE  OInv'
  BY FinishLocal, SameOutcome DEF OInv, disk

\* An undoing that begins has all its files before it.
LEMMA EnterUndoOutcome ==
    ASSUME IInv, OInv, Running, NEW r \in Record, EnterUndo(r), UNCHANGED <<live, disk, ghosts>>
    PROVE  OInv'
  <1>1. OutcomeInv'
    BY SameOutcome DEF OInv, disk
  <1>2. pc \in {"started", "audit"} \cup Visiting
    BY DEF Running, Undoing, IInv, TypeOK, Visiting
  <1>3. StatusInv'
    BY <1>2 DEF OInv, LInv, StatusInv, EnterUndo, Visiting, TargetSteps, disk
  <1>4. UndoneInv'
    BY DEF UndoneInv, EnterUndo
  <1>5. EnteredInv' /\ DeclaredInv'
    BY DEF EnteredInv, DeclaredInv, EnterUndo, Visiting, TargetSteps
  <1> QED
    BY <1>1, <1>3, <1>4, <1>5 DEF OInv, LInv

\* A record that is saved while files are visited stays unfinished.
LEMMA SaveOutcome ==
    ASSUME IInv, OInv, pc \in Visiting, NEW r \in Record, r.status = "committing",
           NEW next \in Visiting, NEW rest,
           Save(r, next, rest), UNCHANGED <<live, backup, count, ghosts>>,
           mem' = r /\ pc' = next /\ todo' = rest
             /\ tgt' = (IF next \in TargetSteps THEN tgt ELSE "none") /\ UNCHANGED <<tx, manifest>> =>
                EnteredInv' /\ DeclaredInv'
    PROVE  OInv'
  <1>0. Running /\ tx \in TxIds
    BY BoundAssumption DEF Running, Undoing, Visiting, TargetSteps, IInv, TypeOK, TxIds
  <1>1. CASE Spend("io") /\ EnterUndo(r) /\ UNCHANGED records
    BY <1>0, <1>1, EnterUndoOutcome DEF disk
  <1>2. CASE ~(Spend("io") /\ EnterUndo(r) /\ UNCHANGED records)
    <2>1. /\ records' = [records EXCEPT ![tx] = r]
          /\ mem' = r /\ pc' = next /\ todo' = rest
          /\ tgt' = (IF next \in TargetSteps THEN tgt ELSE "none")
          /\ UNCHANGED <<tx, manifest, budget>>
      BY <1>2 DEF Save
    <2>2. records'[tx] = r /\ \A x \in TxIds \ {tx} : records'[x] = records[x]
      BY <1>0, <2>1 DEF IInv, TypeOK
    <2>3. StatusInv'
      BY <2>1, <2>2 DEF StatusInv, Visiting, TargetSteps
    <2>4. UndoneInv'
      BY <2>1 DEF UndoneInv, Visiting, TargetSteps
    <2>5. OutcomeInv'
      <3>1. Outcome(tx)'
        BY <2>1, <2>2 DEF Outcome
      <3>2. ASSUME NEW x \in TxIds \ {tx}
            PROVE  Outcome(x)'
        BY <2>2, OthersOutcome DEF OInv, ghosts
      <3> QED
        BY <2>1, <3>1, <3>2 DEF OutcomeInv
    <2> QED
      BY <2>1, <2>3, <2>4, <2>5 DEF OInv, LInv
  <1> QED
    BY <1>1, <1>2

-----------------------------------------------------------------------------
(* One lemma per step.                                                     *)

\* StageInstall: nothing is entered, and all that is declared lies before it.
LEMMA StageInstallOutcome ==
    ASSUME IInv, OInv, TypeOK', StageInstall
    PROVE  OInv'
  <1>1. /\ tx \in TxIds /\ pc = "started" /\ pc' = "files" /\ UNCHANGED <<live, backup, count, tx, tgt, pre, touched>>
        /\ mem' = [mem EXCEPT !.status = "committing"] /\ records' = [records EXCEPT ![tx] = mem']
        /\ declared' = [declared EXCEPT ![tx] = Declared(manifest')] /\ todo' = Declared(manifest')
    BY BoundAssumption DEF StageInstall, IInv, TypeOK, TxIds
  <1>2. /\ records'[tx].status = "committing" /\ mem'.status = "committing" /\ declared'[tx] = todo'
        /\ \A t \in Targets : mem'.files[t].action = "none"
        /\ \A x \in TxIds \ {tx} : records'[x] = records[x] /\ declared'[x] = declared[x]
    BY <1>1 DEF IInv, TypeOK, VisitInv, Record
  <1>3. StatusInv' /\ UndoneInv'
    BY <1>1, <1>2 DEF StatusInv, UndoneInv, Visiting, TargetSteps
  <1>4. EnteredInv' /\ DeclaredInv'
    BY <1>1, <1>2 DEF EnteredInv, DeclaredInv
  <1>5. OutcomeInv'
    <2>1. Outcome(tx)'
      BY <1>1, <1>2 DEF Outcome
    <2>2. ASSUME NEW x \in TxIds \ {tx}
          PROVE  Outcome(x)'
      BY <1>1, <1>2, OthersOutcome DEF OInv
    <2> QED
      BY <1>1, <2>1, <2>2 DEF OutcomeInv
  <1> QED
    BY <1>3, <1>4, <1>5 DEF OInv, LInv

\* BackUpFile, BackUpManaged: the file has no entry, and is now the one worked on.
LEMMA BackUpOutcome ==
    ASSUME IInv, OInv, TypeOK', NEW t \in Targets, BackUpFile(t) \/ BackUpManaged(t)
    PROVE  OInv'
  <1>1. /\ tx \in TxIds /\ pc \in {"files", "uninstall"} /\ t \in todo
        /\ pc' = "intend" /\ tgt' = t /\ todo' = todo \ {t}
        /\ UNCHANGED <<live, records, count, tx, mem, manifest, ghosts>>
        /\ \A x \in TxIds \ {tx} : backup'[x] = backup[x]
    BY BoundAssumption DEF BackUpFile, BackUpManaged, BackUp, IInv, TypeOK, TxIds
  <1>2. StatusInv' /\ UndoneInv'
    BY <1>1 DEF OInv, LInv, StatusInv, UndoneInv, Visiting, TargetSteps
  <1>3. EnteredInv'
    BY <1>1 DEF OInv, LInv, EnteredInv, Visiting, TargetSteps, ghosts
  <1>4. DeclaredInv'
    BY <1>1 DEF OInv, LInv, DeclaredInv, TargetSteps, ghosts, IInv, PhaseInv
  <1>5. OutcomeInv'
    <2>1. Outcome(tx)'
      BY <1>1, NoOutcomeYet DEF OInv, LInv, StatusInv, Visiting, Outcome
    <2>2. ASSUME NEW x \in TxIds \ {tx}
          PROVE  Outcome(x)'
      BY <1>1, OthersOutcome DEF OInv, ghosts
    <2> QED
      BY <1>1, <2>1, <2>2 DEF OutcomeInv
  <1> QED
    BY <1>2, <1>3, <1>4, <1>5 DEF OInv, LInv

\* BackUpStale: the entry is made, and the file is now the one worked on.
LEMMA BackUpStaleOutcome ==
    ASSUME IInv, OInv, TypeOK', NEW t \in Targets, BackUpStale(t)
    PROVE  OInv'
  <1>1. /\ tx \in TxIds /\ pc = "stale" /\ t \in todo
        /\ pc' = "baseline" /\ tgt' = t /\ todo' = todo \ {t}
        /\ UNCHANGED <<live, records, count, tx, manifest, ghosts>>
        /\ \A x \in TxIds \ {tx} : backup'[x] = backup[x]
    BY BoundAssumption DEF BackUpStale, BackUp, IInv, TypeOK, TxIds
  <1>2. /\ mem'.kind = mem.kind /\ mem'.status = mem.status
        /\ \A s \in Targets : s # t => mem'.files[s] = mem.files[s]
    BY DEF BackUpStale, WithItem, IInv, TypeOK, Record
  <1>3. StatusInv' /\ UndoneInv'
    BY <1>1, <1>2 DEF OInv, LInv, StatusInv, UndoneInv, Visiting, TargetSteps
  <1>4. EnteredInv'
    BY <1>1, <1>2 DEF OInv, LInv, EnteredInv, Visiting, TargetSteps, ghosts
  <1>5. DeclaredInv'
    <2>1. mem.kind = "install" => t \notin declared[tx]
      BY <1>1 DEF IInv, PhaseInv
    <2>2. declared[tx] \subseteq Targets
      BY <1>1 DEF IInv, TypeOK
    <2> QED
      BY <1>1, <1>2, <2>1, <2>2 DEF OInv, LInv, DeclaredInv, ghosts
  <1>6. OutcomeInv'
    <2>1. Outcome(tx)'
      BY <1>1 DEF OInv, LInv, StatusInv, Visiting, Outcome
    <2>2. ASSUME NEW x \in TxIds \ {tx}
          PROVE  Outcome(x)'
      BY <1>1, OthersOutcome DEF OInv, ghosts
    <2> QED
      BY <1>1, <2>1, <2>2 DEF OutcomeInv
  <1> QED
    BY <1>3, <1>4, <1>5, <1>6 DEF OInv, LInv

\* CopyStaged, ApplyBaseline: the file worked on changes, for everybody else
\* by another hand.
LEMMA ChangeOutcome ==
    ASSUME IInv, OInv, TypeOK', CopyStaged \/ ApplyBaseline
    PROVE  OInv'
  <1>1. /\ tx \in TxIds /\ tgt \in Targets /\ UNCHANGED <<disk, tx, manifest, todo, tgt>>
        /\ \/ pc = "copy" /\ pc' = "verify"
           \/ pc = "baseline" /\ pc' = "record"
    BY BoundAssumption DEF CopyStaged, ApplyBaseline, IInv, TypeOK, TxIds, TargetSteps
  <1>2. PICK v \in Slot : SetLive(tx, tgt, v)
    <2>1. manifest[tgt] \in Slot /\ Baseline(mem.package_id, tgt).value \in Slot
      BY <1>1, BaselineType DEF IInv, TypeOK
    <2> QED
      BY <2>1 DEF CopyStaged, ApplyBaseline
  <1>3. /\ pre' = pre /\ declared' = declared /\ touched'[tx] = touched[tx]
        /\ \A s \in Targets : s # tgt => live'[s] = live[s]
    BY <1>1, <1>2, SetLiveFrame DEF IInv
  <1>4. /\ mem'.kind = mem.kind /\ mem'.status = mem.status
        /\ \A s \in Targets : s # tgt => mem'.files[s] = mem.files[s]
        /\ pc' = "record" => mem'.files[tgt].installed = live'[tgt]
    <2>1. CASE CopyStaged
      BY <2>1 DEF CopyStaged
    <2>2. CASE ApplyBaseline
      <3> DEFINE b == Baseline(mem.package_id, tgt)
                 item == [mem.files[tgt] EXCEPT
                            !.installed = b.value,
                            !.post_absent = (b.mode = "absent" /\ mem.kind = "uninstall")]
      <3>1. mem' = WithItem(tgt, item) /\ SetLive(tx, tgt, b.value)
        BY <2>2 DEF ApplyBaseline
      <3>2. item.installed = b.value
        BY <1>1 DEF IInv, TypeOK, Record, Item
      <3>3. live'[tgt] = b.value
        BY <1>1, <3>1 DEF SetLive, IInv, TypeOK
      <3> HIDE DEF item
      <3> QED
        BY <1>1, <3>1, <3>2, <3>3 DEF WithItem, IInv, TypeOK, Record
    <2> QED
      BY <2>1, <2>2
  <1>5. StatusInv' /\ UndoneInv'
    BY <1>1, <1>4 DEF OInv, LInv, StatusInv, UndoneInv, Visiting, TargetSteps, disk
  <1>6. EnteredInv'
    BY <1>1, <1>3, <1>4 DEF OInv, LInv, EnteredInv, Visiting, TargetSteps
  <1>7. DeclaredInv'
    <2>1. pc = "baseline" /\ mem.kind = "install" => tgt \notin declared[tx]
      BY DEF IInv, PhaseInv
    <2>2. declared[tx] \subseteq Targets
      BY <1>1 DEF IInv, TypeOK
    <2> QED
      BY <1>1, <1>3, <1>4, <2>1, <2>2 DEF OInv, LInv, DeclaredInv, TargetSteps
  <1>8. OutcomeInv'
    <2>1. Outcome(tx)'
      BY <1>1 DEF OInv, LInv, StatusInv, Visiting, TargetSteps, Outcome, disk
    <2>2. ASSUME NEW x \in TxIds \ {tx}
          PROVE  Outcome(x)'
      BY <1>1, <1>2, <1>3, OthersOutcome DEF OInv, disk
    <2> QED
      BY <1>1, <2>1, <2>2 DEF OutcomeInv
  <1> QED
    BY <1>5, <1>6, <1>7, <1>8 DEF OInv, LInv

\* RecordIntent: the file worked on is entered.
LEMMA RecordIntentOutcome ==
    ASSUME IInv, OInv, TypeOK', RecordIntent
    PROVE  OInv'
  <1> DEFINE existed == backup[tx][tgt] # Absent
             action == CASE mem.kind = "uninstall" -> "uninstall"
                         [] existed                -> "replace"
                         [] OTHER                  -> "create"
             item == [action |-> action, previously_existed |-> existed,
                      installed |-> Absent, post_absent |-> FALSE]
             next == IF mem.kind = "uninstall" THEN "baseline" ELSE "copy"
  <1>1. pc = "intend" /\ tgt \in Targets /\ UNCHANGED <<live, backup, count, ghosts>>
        /\ Save(WithItem(tgt, item), next, todo)
    BY DEF RecordIntent, IInv, TypeOK, TargetSteps
  <1>2. item \in Item
    BY DEF Item, Slot
  <1> HIDE DEF item
  <1>3. /\ WithItem(tgt, item) \in Record
        /\ WithItem(tgt, item).kind = mem.kind /\ WithItem(tgt, item).status = "committing"
        /\ \A s \in Targets : s # tgt => WithItem(tgt, item).files[s] = mem.files[s]
    BY <1>1, <1>2, WithItemType DEF WithItem, IInv, TypeOK, Record, OInv, LInv, StatusInv, Visiting, TargetSteps
  <1>4. ASSUME mem' = WithItem(tgt, item), pc' = next, todo' = todo, tgt' = tgt, UNCHANGED <<tx, manifest>>
        PROVE  EnteredInv' /\ DeclaredInv'
    <2>1. EnteredInv'
      BY <1>1, <1>3, <1>4 DEF OInv, LInv, EnteredInv, Visiting, TargetSteps, ghosts
    <2>2. declared[tx] \subseteq Targets
      BY <1>1, BoundAssumption DEF IInv, TypeOK, TxIds, TargetSteps
    <2>3. DeclaredInv'
      BY <1>1, <1>3, <1>4, <2>2 DEF OInv, LInv, DeclaredInv, TargetSteps, ghosts
    <2> QED
      BY <2>1, <2>3
  <1>5. pc \in Visiting /\ next \in Visiting /\ next \in TargetSteps
    BY <1>1 DEF Visiting, TargetSteps
  <1> HIDE DEF next
  <1> QED
    BY <1>1, <1>3, <1>4, <1>5, SaveOutcome

\* VerifyCopy: the file that was copied holds what is entered.
LEMMA VerifyCopyOutcome ==
    ASSUME IInv, OInv, TypeOK', VerifyCopy
    PROVE  OInv'
  <1> DEFINE item == [mem.files[tgt] EXCEPT !.installed = manifest[tgt]]
  <1>1. pc = "verify" /\ tgt \in Targets /\ live[tgt] = manifest[tgt]
        /\ UNCHANGED <<live, backup, count, ghosts>> /\ Save(WithItem(tgt, item), "files", todo)
    BY DEF VerifyCopy, IInv, TypeOK, TargetSteps
  <1>2. item \in Item /\ item.installed = manifest[tgt] /\ item.action = mem.files[tgt].action
    BY <1>1, SetInstalledType DEF IInv, TypeOK, Record, Item
  <1>3. mem.files[tgt].action # "none"
    BY <1>1 DEF IInv, VisitInv, TargetSteps, Reverts
  <1> HIDE DEF item
  <1>4. /\ WithItem(tgt, item) \in Record
        /\ WithItem(tgt, item).kind = mem.kind /\ WithItem(tgt, item).status = "committing"
        /\ WithItem(tgt, item).files[tgt] = item
        /\ \A s \in Targets : s # tgt => WithItem(tgt, item).files[s] = mem.files[s]
    BY <1>1, <1>2, WithItemType DEF WithItem, IInv, TypeOK, Record, OInv, LInv, StatusInv, Visiting, TargetSteps
  <1>5. ASSUME mem' = WithItem(tgt, item), pc' = "files", todo' = todo, UNCHANGED <<tx, manifest>>
        PROVE  EnteredInv' /\ DeclaredInv'
    <2>1. EnteredInv'
      BY <1>1, <1>2, <1>4, <1>5 DEF OInv, LInv, EnteredInv, Visiting, TargetSteps, ghosts
    <2>2. declared[tx] \subseteq Targets
      BY <1>1, BoundAssumption DEF IInv, TypeOK, TxIds
    <2>3. DeclaredInv'
      BY <1>1, <1>2, <1>3, <1>4, <1>5, <2>2 DEF OInv, LInv, DeclaredInv, TargetSteps, ghosts
    <2> QED
      BY <2>1, <2>3
  <1>6. pc \in Visiting /\ "files" \in Visiting
    BY <1>1 DEF Visiting, TargetSteps
  <1> QED
    BY <1>1, <1>4, <1>5, <1>6, SaveOutcome

\* LeaveUnchanged: the file already holds what is entered.
LEMMA LeaveUnchangedOutcome ==
    ASSUME IInv, OInv, TypeOK', NEW t \in Targets, LeaveUnchanged(t)
    PROVE  OInv'
  <1> DEFINE item == [action |-> "unchanged", previously_existed |-> TRUE,
                      installed |-> manifest[t], post_absent |-> FALSE]
  <1>1. pc = "files" /\ t \in todo /\ live[t] = manifest[t]
        /\ UNCHANGED <<live, backup, count, ghosts>> /\ Save(WithItem(t, item), "files", todo \ {t})
    BY DEF LeaveUnchanged
  <1>2. item \in Item /\ item.installed = manifest[t] /\ item.action # "none"
    BY DEF Item, IInv, TypeOK
  <1> HIDE DEF item
  <1>3. /\ WithItem(t, item) \in Record
        /\ WithItem(t, item).kind = mem.kind /\ WithItem(t, item).status = "committing"
        /\ WithItem(t, item).files[t] = item
        /\ \A s \in Targets : s # t => WithItem(t, item).files[s] = mem.files[s]
    BY <1>1, <1>2, WithItemType DEF WithItem, IInv, TypeOK, Record, OInv, LInv, StatusInv, Visiting
  <1>4. ASSUME mem' = WithItem(t, item), pc' = "files", todo' = todo \ {t}, UNCHANGED <<tx, manifest>>
        PROVE  EnteredInv' /\ DeclaredInv'
    <2>1. EnteredInv'
      BY <1>1, <1>2, <1>3, <1>4 DEF OInv, LInv, EnteredInv, Visiting, TargetSteps, ghosts
    <2>2. declared[tx] \subseteq Targets
      BY <1>1, BoundAssumption DEF IInv, TypeOK, TxIds
    <2>3. DeclaredInv'
      BY <1>1, <1>2, <1>3, <1>4, <2>2 DEF OInv, LInv, DeclaredInv, TargetSteps, ghosts
    <2> QED
      BY <2>1, <2>3
  <1>5. pc \in Visiting /\ "files" \in Visiting
    BY <1>1 DEF Visiting
  <1> QED
    BY <1>1, <1>3, <1>4, <1>5, SaveOutcome

\* RecordOutcome: what was done is what is entered.
LEMMA RecordOutcomeOutcome ==
    ASSUME IInv, OInv, TypeOK', RecordOutcome
    PROVE  OInv'
  <1> DEFINE next == IF mem.kind = "uninstall" THEN "uninstall" ELSE "stale"
  <1>1. pc = "record" /\ UNCHANGED <<live, backup, count, ghosts>> /\ Save(mem, next, todo)
    BY DEF RecordOutcome
  <1>2. mem \in Record /\ mem.status = "committing"
    BY <1>1 DEF IInv, TypeOK, OInv, LInv, StatusInv, Visiting, TargetSteps
  <1>3. ASSUME mem' = mem, pc' = next, todo' = todo, UNCHANGED <<tx, manifest>>
        PROVE  EnteredInv' /\ DeclaredInv'
    <2>1. EnteredInv'
      BY <1>1, <1>3 DEF OInv, LInv, EnteredInv, Visiting, TargetSteps, ghosts
    <2>2. DeclaredInv'
      BY <1>1, <1>3 DEF OInv, LInv, DeclaredInv, TargetSteps, ghosts
    <2> QED
      BY <2>1, <2>2
  <1>4. pc \in Visiting /\ next \in Visiting
    BY <1>1 DEF Visiting, TargetSteps
  <1> HIDE DEF next
  <1> QED
    BY <1>1, <1>2, <1>3, <1>4, SaveOutcome

\* FilesInstalled, StartUninstall: a loop begins.
LEMMA LoopOutcome ==
    ASSUME IInv, OInv, FilesInstalled \/ StartUninstall
    PROVE  OInv'
  <1>1. /\ UNCHANGED <<live, disk, tx, mem, manifest, ghosts>>
        /\ \/ pc = "files" /\ todo = {} /\ pc' = "stale"
           \/ pc = "started" /\ mem.kind = "uninstall" /\ pc' = "uninstall"
    BY DEF FilesInstalled, StartUninstall
  <1>2. StatusInv' /\ UndoneInv'
    BY <1>1 DEF OInv, LInv, StatusInv, UndoneInv, Visiting, TargetSteps, disk
  <1>3. EnteredInv'
    BY <1>1 DEF OInv, LInv, EnteredInv, Visiting, TargetSteps, ghosts, IInv, VisitInv, TypeOK, Record
  <1>4. DeclaredInv'
    BY <1>1 DEF OInv, LInv, DeclaredInv, TargetSteps, ghosts
  <1>5. OutcomeInv'
    BY <1>1, SameOutcome DEF OInv, disk
  <1> QED
    BY <1>2, <1>3, <1>4, <1>5 DEF OInv, LInv

\* Commit: what memory can undo is what the committed record can.
LEMMA CommitOutcome ==
    ASSUME IInv, OInv, TypeOK', Commit
    PROVE  OInv'
  <1> DEFINE r == [mem EXCEPT !.status = "committed"]
  <1>0. r \in Record
    BY SetStatusType DEF IInv, TypeOK, Statuses
  <1>1. /\ tx \in TxIds /\ pc \in Visiting /\ Running /\ r \in Record
        /\ UNCHANGED <<live, backup, count, ghosts>> /\ Save(r, "audit", {})
    BY <1>0, BoundAssumption
    DEF Commit, Visiting, Running, Undoing, TargetSteps, IInv, TypeOK, TxIds
  <1>2. r.files = mem.files /\ r.status = "committed"
    BY DEF IInv, TypeOK, Record
  <1> HIDE DEF r
  <1>3. CASE Spend("io") /\ EnterUndo(r) /\ UNCHANGED records
    BY <1>1, <1>3, EnterUndoOutcome DEF disk
  <1>4. CASE ~(Spend("io") /\ EnterUndo(r) /\ UNCHANGED records)
    <2>1. records' = [records EXCEPT ![tx] = r] /\ pc' = "audit" /\ tx' = tx
      BY <1>1, <1>4 DEF Save
    <2>2. records'[tx] = r /\ \A x \in TxIds \ {tx} : records'[x] = records[x]
      BY <1>1, <2>1 DEF IInv, TypeOK
    <2>3. LInv'
      BY <1>2, <2>1, <2>2 DEF LInv, StatusInv, UndoneInv, EnteredInv, DeclaredInv, Visiting, TargetSteps
    <2>4. Outcome(tx)'
      BY <1>1, <1>2, <2>1, <2>2 DEF Outcome, IInv, RunningIsUndoable, UndoValue, Reverts, Running, Undoing, ghosts
    <2>5. ASSUME NEW x \in TxIds \ {tx}
          PROVE  Outcome(x)'
      BY <1>1, <2>2, OthersOutcome DEF OInv, ghosts
    <2> QED
      BY <2>1, <2>3, <2>4, <2>5 DEF OInv, OutcomeInv
  <1> QED
    BY <1>3, <1>4

\* UndoFile, RestoreFile: one more file is undone.
LEMMA UndoFileOutcome ==
    ASSUME IInv, OInv, TypeOK', NEW t \in Targets, UndoFile(t) \/ RestoreFile(t)
    PROVE  OInv'
  <1>1. /\ tx \in TxIds /\ pc \in Undoing /\ t \in Reverted(mem)
        /\ UNCHANGED <<disk, pc, tx, mem, manifest, tgt>> /\ todo' = todo \ {t}
        /\ SetLive(tx, t, UndoValue(mem, tx, t)) /\ UndoValue(mem, tx, t) \in Slot
    BY BoundAssumption, UndoValueType
    DEF UndoFile, RestoreFile, IInv, TypeOK, VisitInv, TxIds, Undoing
  <1>2. /\ pre' = pre /\ declared' = declared /\ touched'[tx] = touched[tx]
        /\ live'[t] = UndoValue(mem, tx, t)
        /\ \A s \in Targets : s # t => live'[s] = live[s]
    BY <1>1, SetLiveFrame DEF IInv
  <1>3. StatusInv' /\ EnteredInv' /\ DeclaredInv'
    BY <1>1 DEF OInv, LInv, StatusInv, EnteredInv, DeclaredInv, Undoing, Visiting, TargetSteps, disk
  <1>4. UndoneInv'
    BY <1>1, <1>2 DEF OInv, LInv, UndoneInv, UndoValue, Reverted, disk
  <1>5. OutcomeInv'
    <2>1. Outcome(tx)'
      <3>1. CASE records[tx].status # "committed"
        BY <1>1, <3>1 DEF OInv, LInv, StatusInv, Outcome, Undoing, disk
      <3>2. CASE records[tx].status = "committed"
        <4>1. \A s \in Targets \ touched[tx] : UndoValue(records[tx], tx, s) = pre[tx][s]
          BY <1>1, <3>2 DEF OInv, OutcomeInv, Outcome
        <4>2. t \notin touched[tx] => UndoValue(mem, tx, t) = pre[tx][t]
          BY <1>1, <4>1 DEF IInv, RunningIsUndoable, VisitInv, Undoing
        <4>3. \A s \in Targets \ touched[tx] : UndoValue(records[tx], tx, s)' = pre[tx][s]
          BY <1>1, <1>2, <4>1, <4>2 DEF UndoValue, Reverts, disk
        <4> QED
          BY <1>1, <1>2, <3>2, <4>3 DEF Outcome, disk
      <3> QED
        BY <3>1, <3>2
    <2>2. ASSUME NEW x \in TxIds \ {tx}
          PROVE  Outcome(x)'
      BY <1>1, <1>2, OthersOutcome DEF OInv, disk
    <2> QED
      BY <1>1, <2>1, <2>2 DEF OutcomeInv
  <1> QED
    BY <1>3, <1>4, <1>5 DEF OInv, LInv

\* A file that cannot be undone makes the undoing a failed one, or its end.
LEMMA UndoFileFailsOutcome ==
    ASSUME IInv, OInv, NEW t \in Targets, UndoFileFails(t)
    PROVE  OInv'
  <1>1. CASE Finish
    BY <1>1, FinishOutcome DEF UndoFileFails
  <1>2. CASE ~Finish
    <2>1. /\ pc = "undo" /\ UNCHANGED <<live, disk, ghosts, pc, tx, manifest, tgt>>
          /\ mem' = [mem EXCEPT !.status = UndoFailed]
      BY <1>2 DEF UndoFileFails, UndoFailed
    <2>2. mem'.status = UndoFailed
      BY <2>1 DEF IInv, TypeOK, Record
    <2>3. LInv'
      BY <2>1, <2>2 DEF OInv, LInv, StatusInv, UndoneInv, EnteredInv, DeclaredInv, Visiting, TargetSteps, disk
    <2>4. OutcomeInv'
      BY <2>1, SameOutcome DEF OInv, disk
    <2> QED
      BY <2>3, <2>4 DEF OInv
  <1> QED
    BY <1>1, <1>2

\* What an undoing or a rollback has restored is all there was to restore.
LEMMA AllRestored ==
    ASSUME IInv, OInv, pc \in Undoing, todo = {}, pc = "undo" => mem.status # UndoFailed,
           NEW t \in Targets \ touched[tx], UndoValue(mem, tx, t) = pre[tx][t]
    PROVE  live[t] = pre[tx][t]
  BY DEF OInv, LInv, UndoneInv, Reverted, UndoValue, Undoing

LEMMA UndoDoneOutcome ==
    ASSUME IInv, OInv, TypeOK', UndoDone
    PROVE  OInv'
  <1>1. /\ tx \in TxIds /\ pc = "undo" /\ todo = {} /\ Finish
        /\ UNCHANGED <<live, backup, count, ghosts>>
    BY BoundAssumption DEF UndoDone, IInv, TypeOK, TxIds
  <1>2. CASE UNCHANGED records
    BY <1>1, <1>2, FinishOutcome DEF disk
  <1>3. CASE ~UNCHANGED records
    <2> DEFINE status == IF mem.status = UndoFailed THEN UndoFailed ELSE "rolled_back_after_failure"
               r == [mem EXCEPT !.status = status]
    <2>1. records' = [records EXCEPT ![tx] = r]
      BY <1>3 DEF UndoDone, UndoFailed
    <2>2. /\ records'[tx].status = status
          /\ \A x \in TxIds \ {tx} : records'[x] = records[x]
      BY <1>1, <2>1 DEF IInv, TypeOK, Record
    <2>3. mem.status # UndoFailed => \A t \in Targets \ touched[tx] : live[t] = pre[tx][t]
      BY <1>1, AllRestored DEF IInv, RunningIsUndoable, Undoing
    <2>4. \A x \in TxIds : x = tx => Outcome(x)'
      BY <1>1, <2>2, <2>3 DEF Outcome, UndoFailed, ghosts
    <2>5. ASSUME NEW x \in TxIds, x # tx
          PROVE  Outcome(x)'
      BY <1>1, <2>2, <2>5, OthersOutcome DEF OInv, ghosts
    <2> QED
      BY <1>1, <2>4, <2>5, FinishLocal DEF OInv, OutcomeInv
  <1> QED
    BY <1>2, <1>3

LEMMA RestoreDoneOutcome ==
    ASSUME IInv, OInv, TypeOK', RestoreDone
    PROVE  OInv'
  <1>1. /\ tx \in TxIds /\ pc = "restore" /\ todo = {} /\ Finish /\ mem = records[tx]
        /\ records[tx].status \in {"committed", "interrupted"}
        /\ UNCHANGED <<live, backup, count, ghosts>>
    BY BoundAssumption DEF RestoreDone, IInv, TypeOK, TxIds, VisitInv, OInv, LInv, StatusInv
  <1>2. /\ records'[tx].status = IF records[tx].status = "committed" THEN "rolled_back" ELSE "recovered"
        /\ \A x \in TxIds \ {tx} : records'[x] = records[x]
    BY <1>1 DEF RestoreDone, IInv, TypeOK, Record
  <1>3. \A t \in Targets \ touched[tx] :
           records[tx].status = "committed" \/ t \in declared[tx] => live[t] = pre[tx][t]
    <2>1. \A t \in Targets \ touched[tx] :
             records[tx].status = "committed" \/ t \in declared[tx] =>
                 UndoValue(mem, tx, t) = pre[tx][t]
      BY <1>1 DEF OInv, OutcomeInv, Outcome, IInv, UnfinishedIsUndoable, Undoable
    <2> QED
      BY <1>1, <2>1, AllRestored DEF Undoing
  <1>4. \A x \in TxIds : x = tx => Outcome(x)'
    <2>1. declared[tx] \subseteq Targets
      BY <1>1 DEF IInv, TypeOK
    <2> QED
      BY <1>1, <1>2, <1>3, <2>1 DEF Outcome, ghosts
  <1>5. ASSUME NEW x \in TxIds, x # tx
        PROVE  Outcome(x)'
    BY <1>1, <1>2, <1>5, OthersOutcome DEF OInv, ghosts
  <1> QED
    BY <1>1, <1>4, <1>5, FinishLocal DEF OInv, OutcomeInv

\* Whatever raises: the operation ends, or its undoing begins.
LEMMA ExceptOutcome ==
    ASSUME IInv, OInv,
           \/ AuditCommit \/ StartAuditFails \/ RestoreFails
           \/ Fail \/ CopyMismatch \/ BaselineFails \/ \E t \in Targets : StaleDrift(t)
    PROVE  OInv'
  <1>1. CASE AuditCommit \/ StartAuditFails \/ RestoreFails
    BY <1>1, FinishOutcome DEF AuditCommit, StartAuditFails, RestoreFails
  <1>2. CASE Fail \/ CopyMismatch \/ BaselineFails \/ \E t \in Targets : StaleDrift(t)
    <2>1. Running /\ EnterUndo(mem) /\ UNCHANGED <<live, disk, ghosts>> /\ mem \in Record
      BY <1>2 DEF Fail, CopyMismatch, BaselineFails, StaleDrift, Running, Undoing, TargetSteps, IInv, TypeOK
    <2> QED
      BY <2>1, EnterUndoOutcome
  <1> QED
    BY <1>1, <1>2

\* A new transaction is unfinished; the others are as they were.
LEMMA CreateOutcome ==
    ASSUME IInv, OInv, TypeOK', NEW kind \in {"install", "uninstall"}, NEW id,
           NEW status \in {"staging", "committing"}, kind = "uninstall" => status = "committing",
           Create(NewRecord(kind, id, status)), UNCHANGED <<live, backup, touched, declared>>
    PROVE  OInv'
  <1>1. /\ tx' = count + 1 /\ tx' \in TxIds /\ pc' = "started" /\ mem' = NewRecord(kind, id, status)
        /\ records'[tx'] = mem'
        /\ \A x \in TxIds \ {tx'} : records'[x] = records[x] /\ pre'[x] = pre[x]
    BY BoundAssumption DEF Create, IInv, TypeOK, TxIds
  <1>2. mem'.status = status /\ mem'.kind = kind
    BY <1>1 DEF NewRecord
  <1>3. LInv'
    BY <1>1, <1>2 DEF LInv, StatusInv, UndoneInv, EnteredInv, DeclaredInv, Visiting, TargetSteps
  <1>4. \A x \in TxIds : x = tx' => Outcome(x)'
    BY <1>1, <1>2 DEF Outcome
  <1>5. ASSUME NEW x \in TxIds, x # tx'
        PROVE  Outcome(x)'
    BY <1>1, <1>5, FrameOutcome DEF IInv, OInv, OutcomeInv
  <1> QED
    BY <1>3, <1>4, <1>5 DEF OInv, OutcomeInv

LEMMA RequestOutcome ==
    ASSUME IInv, OInv, TypeOK', Request
    PROVE  OInv'
  <1>1. ASSUME NEW p \in Packages, BeginInstall(p)
        PROVE  OInv'
    BY <1>1, CreateOutcome DEF BeginInstall
  <1>2. ASSUME NEW id \in PackageIds, NEW force \in BOOLEAN, BeginUninstall(id, force)
        PROVE  OInv'
    BY <1>2, CreateOutcome DEF BeginUninstall
  <1>3. ASSUME NEW x \in TxIds, records[x].status \in {"committed", "interrupted"}, BeginRestore(x)
        PROVE  OInv'
    <2>1. LInv'
      BY <1>3 DEF BeginRestore, LInv, StatusInv, UndoneInv, EnteredInv, DeclaredInv, Visiting, TargetSteps, disk
    <2>2. OutcomeInv'
      BY <1>3, SameOutcome DEF BeginRestore, OInv, disk
    <2> QED
      BY <2>1, <2>2 DEF OInv
  <1> QED
    BY <1>1, <1>2, <1>3 DEF Request, BeginRollback, BeginRecovery, Recoverable

\* A mark makes no transaction finished.
LEMMA MarkOutcome ==
    ASSUME IInv, OInv, MarkInterrupted, UNCHANGED <<live, backup, ghosts>>
    PROVE  OutcomeInv'
  <1> SUFFICES ASSUME NEW x \in TxIds
               PROVE  Outcome(x)'
    BY DEF OutcomeInv
  <1>1. CASE Unresolved(x)
    <2>1. records'[x].status = "interrupted"
      BY <1>1 DEF MarkInterrupted, IInv, TypeOK, Record
    <2> QED
      BY <2>1 DEF Outcome
  <1>2. CASE ~Unresolved(x)
    BY <1>2, FrameOutcome DEF MarkInterrupted, IInv, OInv, OutcomeInv, ghosts
  <1> QED
    BY <1>1, <1>2

LEMMA EnvironmentOutcome ==
    ASSUME IInv, OInv, TypeOK', Environment
    PROVE  OInv'
  <1>1. CASE Crash
    BY <1>1, MarkOutcome, FinishLocal DEF Crash, OInv
  <1>2. CASE Restart
    <2>1. LInv'
      BY <1>2 DEF Restart, LInv, StatusInv, UndoneInv, EnteredInv, DeclaredInv, Visiting, TargetSteps, worker
    <2> QED
      BY <1>2, <2>1, MarkOutcome DEF Restart, OInv
  <1>3. ASSUME NEW t \in Targets, NEW v \in Slot, UserEdit(t, v)
        PROVE  OInv'
    <2>1. UNCHANGED <<disk, worker>> /\ SetLive(0, t, v)
      BY <1>3 DEF UserEdit
    <2>2. /\ pre' = pre /\ declared' = declared
          /\ \A x \in TxIds : touched[x] \subseteq touched'[x]
          /\ \A x \in TxIds : x <= count => \A s \in Targets \ touched'[x] : live'[s] = live[s]
      <3>1. 0 \notin TxIds
        BY DEF TxIds
      <3> QED
        BY <2>1, <3>1, SetLiveFrame DEF IInv
    <2>3. pc # "idle" => tx \in TxIds /\ tx <= count
      BY DEF IInv, NumberedInv, TypeOK, TxIds
    <2>4. StatusInv' /\ DeclaredInv'
      BY <2>1, <2>2 DEF OInv, LInv, StatusInv, DeclaredInv, disk, worker
    <2>5. UndoneInv'
      <3>1. pc \in Undoing => \A s \in Reverted(mem) : UndoValue(mem, tx, s)' = UndoValue(mem, tx, s)
        BY <2>1 DEF UndoValue, Reverted, Reverts, disk, worker
      <3>2. Reverted(mem) \subseteq Targets /\ Reverted(mem)' = Reverted(mem)
        BY <2>1 DEF Reverted, Reverts, worker
      <3> QED
        BY <2>1, <2>2, <2>3, <3>1, <3>2 DEF OInv, LInv, UndoneInv, Undoing, worker
    <2>6. EnteredInv'
      BY <2>1, <2>2, <2>3 DEF OInv, LInv, EnteredInv, Visiting, TargetSteps, worker
    <2>7. ASSUME NEW x \in TxIds
          PROVE  Outcome(x)'
      <3>1. CASE records[x].status = "none"
        BY <2>1, <3>1 DEF Outcome, disk
      <3>2. CASE records[x].status # "none"
        BY <2>1, <2>2, <3>2, FrameOutcome DEF IInv, NumberedInv, OInv, OutcomeInv, disk
      <3> QED
        BY <3>1, <3>2
    <2> QED
      BY <2>4, <2>5, <2>6, <2>7 DEF OInv, LInv, OutcomeInv
  <1> QED
    BY <1>1, <1>2, <1>3 DEF Environment

-----------------------------------------------------------------------------
LEMMA StepOutcome ==
    ASSUME IInv, OInv, TypeOK', Step \/ Raise
    PROVE  OInv'
  BY StageInstallOutcome, BackUpOutcome, BackUpStaleOutcome, ChangeOutcome,
     RecordIntentOutcome, VerifyCopyOutcome, LeaveUnchangedOutcome, RecordOutcomeOutcome,
     LoopOutcome, CommitOutcome, UndoFileOutcome, UndoFileFailsOutcome, UndoDoneOutcome,
     RestoreDoneOutcome, ExceptOutcome
  DEF Step, Raise

LEMMA InitOutcome == Init => OInv
  <1> SUFFICES ASSUME Init
               PROVE  OInv
    OBVIOUS
  <1>1. LInv
    BY DEF Init, LInv, StatusInv, UndoneInv, EnteredInv, DeclaredInv, Visiting, TargetSteps
  <1>2. \A x \in TxIds : records[x].status = "none"
    BY DEF Init, NoRecord, NewRecord
  <1> QED
    BY <1>1, <1>2, NoOutcomeYet DEF OInv, OutcomeInv

LEMMA NextOutcome == IInv /\ OInv /\ [Next]_vars => OInv'
  <1> SUFFICES ASSUME IInv, OInv, [Next]_vars
               PROVE  OInv'
    OBVIOUS
  <1>1. TypeOK'
    BY NextInv DEF IInv
  <1>2. CASE Next
    BY <1>1, <1>2, StepOutcome, RequestOutcome, EnvironmentOutcome DEF Next
  <1>3. CASE UNCHANGED vars
    <2> USE <1>3 DEF vars, disk, worker, ghosts
    <2>1. OutcomeInv'
      BY SameOutcome DEF OInv
    <2>2. StatusInv' /\ UndoneInv'
      BY DEF OInv, LInv, StatusInv, UndoneInv, UndoValue, Reverts, Reverted
    <2>3. EnteredInv' /\ DeclaredInv'
      BY DEF OInv, LInv, EnteredInv, DeclaredInv
    <2> QED
      BY <2>1, <2>2, <2>3 DEF OInv, LInv
  <1> QED
    BY <1>2, <1>3

LEMMA OutcomesHold == Spec => [](IInv /\ OInv)
  <1>1. Init => IInv /\ OInv
    BY InitInv, InitOutcome
  <1>2. IInv /\ OInv /\ [Next]_vars => (IInv /\ OInv)'
    BY NextInv, NextOutcome
  <1> QED
    BY <1>1, <1>2, PTL DEF Spec

\* A failed operation that reports so has left every file as it found it, for
\* any number of files, packages, transactions, crashes, errors and edits.
THEOREM FailedRestored == Spec => []FailedIsRestored
  <1>1. OInv => FailedIsRestored
    BY DEF OInv, OutcomeInv, Outcome, FailedIsRestored, EndRestores
  <1> QED
    BY <1>1, OutcomesHold, PTL

\* Recovery puts back every file the interrupted install declared.
THEOREM RecoveredRestored == Spec => []RecoveredIsRestored
  <1>1. OInv => RecoveredIsRestored
    BY DEF OInv, OutcomeInv, Outcome, RecoveredIsRestored, EndRestores
  <1> QED
    BY <1>1, OutcomesHold, PTL

\* A rollback puts back every file, one that had to be begun again too.
THEOREM RolledBackRestored == Spec => []RolledBackIsRestored
  <1>1. OInv => RolledBackIsRestored
    BY DEF OInv, OutcomeInv, Outcome, RolledBackIsRestored, EndRestores
  <1> QED
    BY <1>1, OutcomesHold, PTL

-----------------------------------------------------------------------------
(* CommitIsExact.                                                          *)

\* A record that is saved while files are visited is not a committed one.
LEMMA SaveCommitsNothing ==
    ASSUME IInv, tx \in TxIds, NEW r, r.status # "committed", NEW next, NEW rest, Save(r, next, rest),
           NEW x \in TxIds, records[x].status # "committed"
    PROVE  records'[x].status # "committed"
  BY DEF Save, IInv, TypeOK

\* Nothing but Commit makes a record a committed one.
LEMMA OnlyCommitCommits ==
    ASSUME IInv, OInv, Next, NEW x \in TxIds,
           records[x].status # "committed", records'[x].status = "committed"
    PROVE  Commit /\ x = tx /\ records' = [records EXCEPT ![tx] = [mem EXCEPT !.status = "committed"]]
  <1> USE DEF disk
  <1>0. pc # "idle" => tx \in TxIds
    BY BoundAssumption DEF IInv, TypeOK, TxIds
  <1>1. CASE Commit
    <2>1. tx \in TxIds
      BY <1>0, <1>1 DEF Commit
    <2>2. ~UNCHANGED records
      OBVIOUS
    <2>3. records' = [records EXCEPT ![tx] = [mem EXCEPT !.status = "committed"]]
      BY <1>1, <2>2 DEF Commit, Save
    <2> QED
      BY <1>1, <2>1, <2>3 DEF IInv, TypeOK
  <1>2. CASE RecordIntent \/ VerifyCopy \/ RecordOutcome \/ \E t \in Targets : LeaveUnchanged(t)
    <2>1. pc \in Visiting /\ tx \in TxIds
      BY <1>0, <1>2 DEF RecordIntent, VerifyCopy, RecordOutcome, LeaveUnchanged, Visiting, TargetSteps
    <2>2. mem.status = "committing" /\ mem \in Record
      BY <2>1 DEF IInv, TypeOK, OInv, LInv, StatusInv
    <2>3. \A t, item : WithItem(t, item).status = mem.status
      BY <2>2 DEF WithItem, Record
    <2>4. \E r, next, rest : r.status = "committing" /\ Save(r, next, rest)
      <3>1. CASE RecordIntent
        BY <2>2, <2>3, <3>1 DEF RecordIntent
      <3>2. CASE VerifyCopy
        BY <2>2, <2>3, <3>2 DEF VerifyCopy
      <3>3. CASE RecordOutcome
        BY <2>2, <3>3 DEF RecordOutcome
      <3>4. CASE \E t \in Targets : LeaveUnchanged(t)
        BY <2>2, <2>3, <3>4 DEF LeaveUnchanged
      <3> QED
        BY <1>2, <3>1, <3>2, <3>3, <3>4
    <2> QED
      BY <2>1, <2>4, SaveCommitsNothing
  <1>3. CASE StageInstall
    BY <1>0, <1>3 DEF StageInstall, IInv, TypeOK, Record
  <1>4. CASE UndoDone \/ RestoreDone
    BY <1>0, <1>4 DEF UndoDone, RestoreDone, IInv, TypeOK, Record
  <1>5. CASE Crash \/ Restart
    BY <1>5 DEF Crash, Restart, MarkInterrupted, IInv, TypeOK, Record
  <1>6. CASE Request
    <2>1. ASSUME NEW r, Create(r), r.status # "committed"
          PROVE  FALSE
      BY <2>1 DEF Create, IInv, TypeOK
    <2> QED
      BY <1>6, <2>1 DEF Request, BeginInstall, BeginUninstall, BeginRollback, BeginRecovery,
                        BeginRestore, NewRecord
  <1> QED
    BY <1>1, <1>2, <1>3, <1>4, <1>5, <1>6
    DEF Next, Step, Raise, Environment, CopyStaged, CopyMismatch, FilesInstalled, ApplyBaseline,
        BaselineFails, AuditCommit, StartUninstall, BackUpFile, StaleDrift, BackUpStale,
        BackUpManaged, UndoFile, RestoreFile, StartAuditFails, Fail, RestoreFails,
        UndoFileFails, UserEdit

\* What an install has entered when it commits is what lies there, and what
\* its manifest says: for any archive swapped in before the staging, and any
\* foreign edit while the files were copied.
THEOREM CommitExact == Spec => CommitIsExact
  <1>1. ASSUME IInv, OInv, Next, NEW x \in TxIds, records'[x].status = "committed",
               records[x].status = "committing", records[x].kind = "install",
               NEW t \in declared[x] \ touched[x]
        PROVE  live[t] = manifest[t] /\ records'[x].files[t].installed = live[t]
    <2>1. Commit /\ x = tx /\ records' = [records EXCEPT ![tx] = [mem EXCEPT !.status = "committed"]]
      BY <1>1, OnlyCommitCommits
    <2>2. pc = "stale" /\ todo = {} /\ mem.kind = "install"
      BY <1>1, <2>1 DEF Commit, IInv, SyncedInv, PhaseInv
    <2>3. t \in Targets
      BY <1>1 DEF IInv, TypeOK
    <2>4. mem.files[t].action # "none" /\ mem.files[t].installed = manifest[t]
      BY <1>1, <2>1, <2>2 DEF OInv, LInv, DeclaredInv
    <2>5. live[t] = mem.files[t].installed
      BY <1>1, <2>1, <2>2, <2>3, <2>4 DEF OInv, LInv, EnteredInv, Visiting, TargetSteps
    <2>6. records'[x].files = mem.files
      BY <1>1, <2>1 DEF IInv, TypeOK, Record
    <2> QED
      BY <2>4, <2>5, <2>6
  <1>2. ASSUME IInv, OInv, [Next]_vars
        PROVE  [\A x \in TxIds :
                  records'[x].status = "committed" /\ records[x].status = "committing"
                    /\ records[x].kind = "install" =>
                  \A t \in declared[x] \ touched[x] :
                     /\ live[t] = manifest[t]
                     /\ records'[x].files[t].installed = live[t]]_vars
    BY <1>1, <1>2
  <1> QED
    BY <1>2, OutcomesHold, PTL DEF Spec, CommitIsExact

-----------------------------------------------------------------------------
(***************************************************************************)
(* CommittedIsIntact.  As long as nothing raises or dies, nothing but a    *)
(* rollback undoes what is committed.                                      *)
(***************************************************************************)
BudgetInv == \A m \in Mishaps : budget[m] <= Budget[m]

Intact(x) ==
    records[x].status = "committed" /\ ~(pc = "restore" /\ tx = x) =>
        \A t \in Reverted(records[x]) \ touched[x] : live[t] = records[x].files[t].installed
IntactInv == Undisturbed => /\ pc = "undo" => records[tx].status # "committed"
                            /\ \A x \in TxIds : Intact(x)

\* A step spends a mishap or none.
LEMMA StepSpends ==
    ASSUME Next
    PROVE  UNCHANGED budget \/ \E m \in Mishaps : Spend(m)
  <1>1. CASE Step
    BY <1>1
    DEF Step, StageInstall, RecordIntent, CopyStaged, VerifyCopy, CopyMismatch, FilesInstalled,
        ApplyBaseline, BaselineFails, RecordOutcome, Commit, AuditCommit, StartUninstall, UndoDone,
        RestoreDone, LeaveUnchanged, BackUpFile, StaleDrift, BackUpStale, BackUpManaged, UndoFile,
        RestoreFile, Save, Mishaps
  <1>2. CASE Raise \/ Request \/ Environment
    BY <1>2
    DEF Raise, Request, Environment, StartAuditFails, Fail, RestoreFails, UndoFileFails, BeginInstall,
        BeginUninstall, BeginRollback, BeginRecovery, BeginRestore, Crash, Restart, UserEdit, Mishaps
  <1> QED
    BY <1>1, <1>2 DEF Next

LEMMA BudgetFalls ==
    ASSUME IInv, BudgetInv, Next
    PROVE  BudgetInv' /\ \A m \in Mishaps : budget'[m] <= budget[m]
  <1>1. budget \in [Mishaps -> Nat] /\ Budget \in [Mishaps -> Nat]
    BY BoundAssumption DEF IInv, TypeOK
  <1>2. UNCHANGED budget => \A n \in Mishaps : budget'[n] <= budget[n]
    <2>1. \A n \in Mishaps : budget[n] <= budget[n]
      BY <1>1
    <2> QED
      BY <2>1
  <1>3. ASSUME NEW m \in Mishaps, Spend(m)
        PROVE  \A n \in Mishaps : budget'[n] <= budget[n]
    <2>1. budget[m] > 0 /\ budget' = [budget EXCEPT ![m] = budget[m] - 1]
      BY <1>3 DEF Spend
    <2>2. ASSUME NEW n \in Mishaps
          PROVE  budget'[n] <= budget[n]
      <3>1. budget[n] \in Nat /\ budget[m] \in Nat
        BY <1>1
      <3>2. CASE n = m
        BY <1>1, <2>1, <3>1, <3>2
      <3>3. CASE n # m
        BY <1>1, <2>1, <3>1, <3>3
      <3> QED
        BY <3>2, <3>3
    <2> QED
      BY <2>2
  <1>4. budget' \in [Mishaps -> Nat]
    <2>1. ASSUME NEW m \in Mishaps, Spend(m)
          PROVE  budget' \in [Mishaps -> Nat]
      BY <1>1, <2>1 DEF Spend
    <2>2. \A n \in Mishaps : budget[n] \in Nat
      BY <1>1
    <2>3. CASE UNCHANGED budget
      BY <1>1, <2>3
    <2> QED
      BY <2>1, <2>3, StepSpends
  <1>5. \A n \in Mishaps : budget'[n] <= budget[n]
    <2>1. \A n \in Mishaps : budget[n] <= budget[n]
      BY <1>1
    <2> QED
      BY <1>2, <1>3, <2>1, StepSpends
  <1>6. ASSUME NEW n \in Mishaps
        PROVE  budget'[n] <= Budget[n]
    <2>1. budget'[n] \in Nat /\ budget[n] \in Nat /\ Budget[n] \in Nat /\ budget[n] <= Budget[n]
      BY <1>1, <1>4 DEF BudgetInv
    <2> QED
      BY <1>5, <2>1
  <1> QED
    BY <1>5, <1>6 DEF BudgetInv

\* What is undisturbed after a step was so before, and the step spent neither
\* a crash nor an error.
LEMMA UndisturbedBefore ==
    ASSUME IInv, BudgetInv, Next, Undisturbed'
    PROVE  Undisturbed /\ ~Spend("crash") /\ ~Spend("io")
  <1>1. \A m \in {"crash", "io"} : budget'[m] = Budget[m] /\ budget'[m] <= budget[m]
                                   /\ budget[m] <= Budget[m] /\ budget[m] \in Nat /\ Budget[m] \in Nat
    BY BudgetFalls, BoundAssumption DEF IInv, TypeOK, BudgetInv, Undisturbed, Mishaps
  <1>2. Undisturbed
    BY <1>1 DEF Undisturbed
  <1>3. ASSUME NEW m \in {"crash", "io"}, Spend(m)
        PROVE  FALSE
    <2>1. budget'[m] = budget[m] - 1
      BY <1>3 DEF Spend, IInv, TypeOK, Mishaps
    <2> QED
      BY <1>1, <2>1
  <1> QED
    BY <1>2, <1>3

\* A committed transaction whose record stays, and whose untouched files stay,
\* stays intact.
LEMMA FrameIntact ==
    ASSUME NEW x \in TxIds, Intact(x), records'[x] = records[x], touched[x] \subseteq touched'[x],
           \A t \in Targets \ touched'[x] : live'[t] = live[t],
           pc = "restore" /\ tx = x => records'[x].status # "committed" \/ (pc' = "restore" /\ tx' = x)
    PROVE  Intact(x)'
  BY DEF Intact, Reverted, Reverts

LEMMA OthersIntact ==
    ASSUME IInv, NEW x \in TxIds, x # tx, Intact(x), records'[x] = records[x],
           \/ UNCHANGED <<live, touched>>
           \/ \E t \in Targets, v \in Slot : SetLive(tx, t, v)
    PROVE  Intact(x)'
  <1>1. CASE records[x].status = "none"
    BY <1>1 DEF Intact
  <1>2. CASE records[x].status # "none"
    <2>1. x <= count
      BY <1>2 DEF IInv, NumberedInv
    <2>2. touched[x] \subseteq touched'[x] /\ \A t \in Targets \ touched'[x] : live'[t] = live[t]
      BY <2>1, SetLiveFrame DEF IInv
    <2> QED
      BY <2>2, FrameIntact
  <1> QED
    BY <1>1, <1>2

\* A step of an operation other than a rollback whose record is not committed
\* by it leaves every committed transaction intact.
LEMMA UncommittedIntact ==
    ASSUME IInv, \A x \in TxIds : Intact(x), tx \in TxIds,
           records'[tx].status # "committed" \/ (pc' = "restore" /\ tx' = tx),
           \A x \in TxIds \ {tx} : records'[x] = records[x],
           \/ UNCHANGED <<live, touched>>
           \/ \E t \in Targets, v \in Slot : SetLive(tx, t, v)
    PROVE  \A x \in TxIds : Intact(x)'
  <1>1. \A x \in TxIds : x = tx => Intact(x)'
    BY DEF Intact
  <1> QED
    BY <1>1, OthersIntact

\* What each step of an operation does to files and records.
LEMMA StepEffect ==
    ASSUME IInv, OInv, TypeOK', Step, ~Spend("io")
    PROVE  /\ tx \in TxIds
           /\ \A x \in TxIds \ {tx} : records'[x] = records[x]
           /\ \/ UNCHANGED <<live, touched>>
              \/ \E t \in Targets, v \in Slot : SetLive(tx, t, v)
  <1> USE DEF disk, ghosts
  <1>1. tx \in TxIds /\ (pc \in TargetSteps => tgt \in Targets)
    <2>1. pc # "idle"
      BY DEF Step, StageInstall, RecordIntent, CopyStaged, VerifyCopy, CopyMismatch, FilesInstalled,
             ApplyBaseline, BaselineFails, RecordOutcome, Commit, AuditCommit, StartUninstall,
             UndoDone, RestoreDone, LeaveUnchanged, BackUpFile, StaleDrift, BackUpStale,
             BackUpManaged, UndoFile, RestoreFile
    <2> QED
      BY <2>1, BoundAssumption DEF IInv, TypeOK, TxIds
  <1>2. CASE CopyStaged \/ ApplyBaseline
    <2>1. pc \in TargetSteps /\ UNCHANGED records
      BY <1>2 DEF CopyStaged, ApplyBaseline, TargetSteps
    <2>2. manifest[tgt] \in Slot /\ Baseline(mem.package_id, tgt).value \in Slot
      BY <1>1, <2>1, BaselineType DEF IInv, TypeOK
    <2> QED
      BY <1>1, <1>2, <2>1, <2>2 DEF CopyStaged, ApplyBaseline
  <1>3. CASE \E t \in Targets : UndoFile(t) \/ RestoreFile(t)
    <2>1. PICK t \in Targets : UndoFile(t) \/ RestoreFile(t)
      BY <1>3
    <2>2. UndoValue(mem, tx, t) \in Slot
      BY <1>1, UndoValueType DEF IInv, TypeOK
    <2> QED
      BY <1>1, <2>1, <2>2 DEF UndoFile, RestoreFile
  <1>4. CASE UNCHANGED <<live, touched>>
    <2>1. \A x \in TxIds \ {tx} : records'[x] = records[x]
      BY <1>1
      DEF Step, StageInstall, RecordIntent, CopyStaged, VerifyCopy, CopyMismatch, FilesInstalled,
          ApplyBaseline, BaselineFails, RecordOutcome, Commit, AuditCommit, StartUninstall, UndoDone,
          RestoreDone, LeaveUnchanged, BackUpFile, StaleDrift, BackUpStale, BackUpManaged, UndoFile,
          RestoreFile, Save, IInv, TypeOK
    <2> QED
      BY <1>1, <1>4, <2>1
  <1> QED
    BY <1>2, <1>3, <1>4
    DEF Step, StageInstall, RecordIntent, VerifyCopy, CopyMismatch, FilesInstalled,
        BaselineFails, RecordOutcome, Commit, AuditCommit, StartUninstall, UndoDone,
        RestoreDone, LeaveUnchanged, BackUpFile, StaleDrift, BackUpStale, BackUpManaged

\* Commit: what was entered is what lies there.
LEMMA CommitIntact ==
    ASSUME IInv, OInv, TypeOK', IntactInv, Undisturbed, Commit, ~Spend("io")
    PROVE  pc' # "undo" /\ \A x \in TxIds : Intact(x)'
  <1>1. /\ tx \in TxIds /\ pc \in {"stale", "uninstall"} /\ tx' = tx /\ pc' = "audit"
        /\ records' = [records EXCEPT ![tx] = [mem EXCEPT !.status = "committed"]]
        /\ UNCHANGED <<live, ghosts>>
    BY BoundAssumption DEF Commit, Save, IInv, TypeOK, TxIds
  <1>2. records'[tx].files = mem.files /\ \A x \in TxIds \ {tx} : records'[x] = records[x]
    BY <1>1 DEF IInv, TypeOK, Record
  <1>3. \A t \in Reverted(mem) \ touched[tx] : live[t] = mem.files[t].installed
    BY <1>1 DEF OInv, LInv, EnteredInv, Visiting, TargetSteps, Reverted, Reverts
  <1>4. \A x \in TxIds : x = tx => Intact(x)'
    BY <1>1, <1>2, <1>3 DEF Intact, Reverted, Reverts, ghosts
  <1> QED
    BY <1>1, <1>2, <1>4, OthersIntact DEF IntactInv, ghosts

LEMMA StepIntact ==
    ASSUME IInv, OInv, TypeOK', IntactInv, Undisturbed, Step, ~Spend("io")
    PROVE  /\ pc' = "undo" => records'[tx'].status # "committed"
           /\ \A x \in TxIds : Intact(x)'
  <1> USE DEF disk, ghosts
  <1>0. \A x \in TxIds : Intact(x)
    BY DEF IntactInv
  <1>1. CASE Commit
    BY <1>1, CommitIntact
  <1>2. CASE AuditCommit
    <2>1. pc = "audit" /\ pc' = "idle" /\ UNCHANGED <<live, records, touched>>
      BY <1>2 DEF AuditCommit, Finish
    <2> QED
      BY <1>0, <2>1, FrameIntact
  <1>3. CASE ~Commit /\ ~AuditCommit
    <2>1. /\ tx' = tx \/ pc' = "idle"
          /\ records'[tx].status # "committed" \/ (pc' = "restore" /\ tx' = tx)
      <3>1. tx \in TxIds /\ mem \in Record
        BY StepEffect DEF IInv, TypeOK
      <3>2. CASE pc \in Visiting
        <4>1. records[tx].status = "committing"
          BY <3>2 DEF OInv, LInv, StatusInv
        <4>2. records'[tx].status # "committed"
          BY <1>3, <3>1, <4>1, OnlyCommitCommits DEF Next
        <4>3. tx' = tx
          BY <1>3, <3>2
          DEF Step, StageInstall, RecordIntent, CopyStaged, VerifyCopy, CopyMismatch, FilesInstalled,
              ApplyBaseline, BaselineFails, RecordOutcome, StartUninstall, UndoDone, RestoreDone,
              LeaveUnchanged, BackUpFile, StaleDrift, BackUpStale, BackUpManaged, UndoFile,
              RestoreFile, Save, EnterUndo, Visiting, TargetSteps
        <4> QED
          BY <4>2, <4>3
      <3>3. CASE pc = "started"
        BY <1>3, <3>1, <3>3
        DEF Step, StageInstall, RecordIntent, CopyStaged, VerifyCopy, CopyMismatch, FilesInstalled,
            ApplyBaseline, BaselineFails, RecordOutcome, StartUninstall, UndoDone, RestoreDone,
            LeaveUnchanged, BackUpFile, StaleDrift, BackUpStale, BackUpManaged, UndoFile,
            RestoreFile, OInv, LInv, StatusInv, IInv, TypeOK, Record
      <3>4. CASE pc = "undo"
        <4>1. records[tx].status # "committed"
          BY <3>4 DEF IntactInv
        <4>2. UndoDone \/ \E t \in Targets : UndoFile(t)
          BY <1>3, <3>4
          DEF Step, StageInstall, RecordIntent, CopyStaged, VerifyCopy, CopyMismatch, FilesInstalled,
              ApplyBaseline, BaselineFails, RecordOutcome, StartUninstall, RestoreDone,
              LeaveUnchanged, BackUpFile, StaleDrift, BackUpStale, BackUpManaged, RestoreFile
        <4> QED
          BY <3>1, <4>1, <4>2 DEF UndoDone, UndoFile, Finish, IInv, TypeOK, Record
      <3>5. CASE pc = "restore"
        <4>1. RestoreDone \/ \E t \in Targets : RestoreFile(t)
          BY <1>3, <3>5
          DEF Step, StageInstall, RecordIntent, CopyStaged, VerifyCopy, CopyMismatch, FilesInstalled,
              ApplyBaseline, BaselineFails, RecordOutcome, StartUninstall, UndoDone, UndoFile,
              LeaveUnchanged, BackUpFile, StaleDrift, BackUpStale, BackUpManaged
        <4> QED
          BY <3>1, <3>5, <4>1 DEF RestoreDone, RestoreFile, Finish, IInv, TypeOK, Record
      <3>6. pc \notin {"idle", "audit"}
        BY <1>3
        DEF Step, StageInstall, RecordIntent, CopyStaged, VerifyCopy, CopyMismatch, FilesInstalled,
            ApplyBaseline, BaselineFails, RecordOutcome, StartUninstall, UndoDone, RestoreDone,
            LeaveUnchanged, BackUpFile, StaleDrift, BackUpStale, BackUpManaged, UndoFile,
            RestoreFile, TargetSteps
      <3> QED
        BY <3>2, <3>3, <3>4, <3>5, <3>6 DEF IInv, TypeOK, Visiting
    <2>2. \A x \in TxIds : Intact(x)'
      BY <1>0, <2>1, StepEffect, UncommittedIntact
    <2> QED
      BY <2>1, <2>2
  <1> QED
    BY <1>1, <1>2, <1>3

LEMMA RequestIntact ==
    ASSUME IInv, OInv, TypeOK', IntactInv, Undisturbed, Request
    PROVE  pc' # "undo" /\ \A x \in TxIds : Intact(x)'
  <1>0. \A x \in TxIds : Intact(x)
    BY DEF IntactInv
  <1>1. ASSUME NEW r, r.status # "committed", Create(r), UNCHANGED <<live, touched>>
        PROVE  pc' # "undo" /\ \A x \in TxIds : Intact(x)'
    <2>1. /\ tx' \in TxIds /\ pc = "idle" /\ pc' = "started" /\ records'[tx'].status # "committed"
          /\ \A x \in TxIds \ {tx'} : records'[x] = records[x]
      BY <1>1, BoundAssumption DEF Create, IInv, TypeOK, TxIds
    <2>2. \A x \in TxIds : x = tx' => Intact(x)'
      BY <2>1 DEF Intact
    <2> QED
      BY <1>0, <1>1, <2>1, <2>2, FrameIntact
  <1>2. ASSUME NEW x \in TxIds, BeginRestore(x)
        PROVE  pc' # "undo" /\ \A y \in TxIds : Intact(y)'
    BY <1>0, <1>2, FrameIntact DEF BeginRestore, disk, ghosts
  <1> QED
    BY <1>1, <1>2 DEF Request, BeginInstall, BeginUninstall, BeginRollback, BeginRecovery, NewRecord

LEMMA EnvironmentIntact ==
    ASSUME IInv, OInv, TypeOK', IntactInv, Undisturbed, Environment, ~Spend("crash")
    PROVE  /\ pc' = "undo" => records'[tx'].status # "committed"
           /\ \A x \in TxIds : Intact(x)'
  <1>0. \A x \in TxIds : Intact(x)
    BY DEF IntactInv
  <1>1. CASE Restart
    <2>1. pc = "idle" /\ pc' = "idle" /\ UNCHANGED <<live, touched>> /\ MarkInterrupted
      BY <1>1 DEF Restart, worker, ghosts
    <2>2. ASSUME NEW x \in TxIds
          PROVE  Intact(x)'
      <3>1. CASE Unresolved(x)
        <4>1. records'[x].status # "committed"
          BY <2>1, <3>1 DEF MarkInterrupted, IInv, TypeOK, Record
        <4> QED
          BY <4>1 DEF Intact
      <3>2. CASE ~Unresolved(x)
        BY <1>0, <2>1, <3>2, FrameIntact DEF MarkInterrupted
      <3> QED
        BY <3>1, <3>2
    <2> QED
      BY <2>1, <2>2
  <1>2. ASSUME NEW t \in Targets, NEW v \in Slot, UserEdit(t, v)
        PROVE  /\ pc' = "undo" => records'[tx'].status # "committed"
               /\ \A x \in TxIds : Intact(x)'
    <2>1. UNCHANGED <<disk, worker>> /\ SetLive(0, t, v)
      BY <1>2 DEF UserEdit
    <2>2. \A x \in TxIds : /\ touched[x] \subseteq touched'[x]
                           /\ x <= count => \A s \in Targets \ touched'[x] : live'[s] = live[s]
      <3>1. 0 \notin TxIds
        BY DEF TxIds
      <3> QED
        BY <2>1, <3>1, SetLiveFrame DEF IInv
    <2>3. ASSUME NEW x \in TxIds
          PROVE  Intact(x)'
      <3>1. CASE records[x].status = "none"
        BY <2>1, <3>1 DEF Intact, disk
      <3>2. CASE records[x].status # "none"
        BY <1>0, <2>1, <2>2, <3>2, FrameIntact DEF IInv, NumberedInv, disk, worker
      <3> QED
        BY <3>1, <3>2
    <2> QED
      BY <2>1, <2>3 DEF IntactInv, disk, worker
  <1> QED
    BY <1>1, <1>2 DEF Environment, Crash

LEMMA NextIntact == IInv /\ OInv /\ BudgetInv /\ IntactInv /\ [Next]_vars => BudgetInv' /\ IntactInv'
  <1> SUFFICES ASSUME IInv, OInv, BudgetInv, IntactInv, [Next]_vars
               PROVE  BudgetInv' /\ IntactInv'
    OBVIOUS
  <1>1. TypeOK'
    BY NextInv DEF IInv
  <1>2. CASE Next
    <2>1. ASSUME Undisturbed'
          PROVE  /\ pc' = "undo" => records'[tx'].status # "committed"
                 /\ \A x \in TxIds : Intact(x)'
      <3>1. Undisturbed /\ ~Spend("crash") /\ ~Spend("io")
        BY <1>2, <2>1, UndisturbedBefore
      <3>2. ~Raise
        BY <3>1 DEF Raise, StartAuditFails, Fail, RestoreFails, UndoFileFails
      <3> QED
        BY <1>1, <1>2, <3>1, <3>2, StepIntact, RequestIntact, EnvironmentIntact DEF Next
    <2> QED
      BY <1>2, <2>1, BudgetFalls DEF IntactInv
  <1>3. CASE UNCHANGED vars
    <2> USE <1>3 DEF vars, disk, worker, ghosts
    <2>1. \A x \in TxIds : Intact(x) => Intact(x)'
      BY FrameIntact
    <2> QED
      BY <2>1 DEF BudgetInv, IntactInv, Undisturbed
  <1> QED
    BY <1>2, <1>3

\* As long as nothing raises or dies, what a committed record says is so,
\* however many packages share a file and whoever edits in between.
THEOREM CommittedIntact == Spec => []CommittedIsIntact
  <1>1. Init => BudgetInv /\ IntactInv
    <2> SUFFICES ASSUME Init
                 PROVE  BudgetInv /\ IntactInv
      OBVIOUS
    <2>1. BudgetInv
      BY BoundAssumption DEF Init, BudgetInv
    <2>2. pc # "undo" /\ \A x \in TxIds : records[x].status = "none"
      BY DEF Init, NoRecord, NewRecord
    <2> QED
      BY <2>1, <2>2 DEF IntactInv, Intact
  <1>2. IntactInv => CommittedIsIntact
    BY DEF IntactInv, Intact, CommittedIsIntact
  <1> QED
    BY <1>1, <1>2, NextIntact, OutcomesHold, PTL DEF Spec

-----------------------------------------------------------------------------
(***************************************************************************)
(* UninstallGivesBack.  As long as nobody edits a file by hand, a          *)
(* transaction changes only files of its own while it runs.                *)
(***************************************************************************)

\* A transaction is touched only by those after it.
UntouchedInv ==
    Unedited => /\ \A x \in TxIds : x > count => touched[x] = {}
                /\ pc \notin {"idle", "restore"} => touched[tx] = {}

\* An entry says whether there was a file.
Faithful(r) ==
    \A t \in Targets : /\ r.files[t].action = "create" => ~r.files[t].previously_existed
                       /\ r.files[t].action = "replace" => r.files[t].previously_existed
EntriesInv == Faithful(mem) /\ \A x \in TxIds : Faithful(records[x])

\* What a committed transaction would restore is what preceded it.
Kept(x) == \A t \in Reverted(records[x]) : UndoValue(records[x], x, t) = pre[x][t]
KeptInv == Unedited => \A x \in TxIds : records[x].status = "committed" => Kept(x)

\* An uninstall has given back the files it has behind it.
GivenBack(id, t) ==
    \A f \in FirstNaming(id, t) : live[t] = pre[f][t] \/ records[f].files[t].action = "unchanged"
GivenInv ==
    Unedited /\ pc \in Visiting /\ mem.kind = "uninstall" =>
        \A t \in Reverted(mem) : ~(pc = "baseline" /\ t = tgt) => GivenBack(mem.package_id, t)

GInv == BudgetInv /\ UntouchedInv /\ EntriesInv /\ KeptInv /\ GivenInv

\* What is unedited after a step was so before, and the step was no edit.
LEMMA UneditedBefore ==
    ASSUME IInv, BudgetInv, Next, Unedited'
    PROVE  Unedited /\ ~Spend("edit")
  <1>1. /\ budget'["edit"] = Budget["edit"] /\ budget'["edit"] <= budget["edit"]
        /\ budget["edit"] <= Budget["edit"] /\ budget["edit"] \in Nat /\ Budget["edit"] \in Nat
    BY BudgetFalls, BoundAssumption DEF IInv, TypeOK, BudgetInv, Unedited, Mishaps
  <1>2. Unedited
    BY <1>1 DEF Unedited
  <1>3. ASSUME Spend("edit")
        PROVE  FALSE
    <2>1. budget'["edit"] = budget["edit"] - 1
      BY <1>3 DEF Spend, IInv, TypeOK, Mishaps
    <2> QED
      BY <1>1, <2>1
  <1> QED
    BY <1>2, <1>3

\* What a step other than an edit touches, it touches for others.
LEMMA TouchEffect ==
    ASSUME IInv, Next, ~Spend("edit")
    PROVE  \/ UNCHANGED touched
           \/ /\ UNCHANGED count
              /\ \A x \in TxIds : x > count \/ x = tx => touched'[x] = touched[x]
  <1> USE DEF disk, ghosts
  <1>1. ASSUME NEW t, NEW v, SetLive(tx, t, v)
        PROVE  \A x \in TxIds : x > count \/ x = tx => touched'[x] = touched[x]
    BY <1>1 DEF SetLive, ChangedBy, IInv, TypeOK, TxIds
  <1>2. CASE CopyStaged \/ ApplyBaseline \/ \E t \in Targets : UndoFile(t) \/ RestoreFile(t)
    BY <1>1, <1>2 DEF CopyStaged, ApplyBaseline, UndoFile, RestoreFile
  <1>3. CASE Step /\ ~(CopyStaged \/ ApplyBaseline \/ \E t \in Targets : UndoFile(t) \/ RestoreFile(t))
    BY <1>3
    DEF Step, StageInstall, RecordIntent, VerifyCopy, CopyMismatch, FilesInstalled,
        BaselineFails, RecordOutcome, Commit, AuditCommit, StartUninstall, UndoDone,
        RestoreDone, LeaveUnchanged, BackUpFile, StaleDrift, BackUpStale, BackUpManaged
  <1>4. CASE Raise
    BY <1>4 DEF Raise, StartAuditFails, Fail, RestoreFails, UndoFileFails
  <1>5. CASE Request
    BY <1>5 DEF Request, BeginInstall, BeginUninstall, BeginRollback, BeginRecovery, BeginRestore
  <1>6. CASE Environment
    BY <1>6 DEF Environment, Crash, Restart, UserEdit
  <1> QED
    BY <1>2, <1>3, <1>4, <1>5, <1>6 DEF Next

\* An operation keeps its transaction; a new one has the next number.
LEMMA TurnEffect ==
    ASSUME IInv, Next
    PROVE  \/ /\ UNCHANGED count
              /\ pc' \notin {"idle", "restore"} => pc \notin {"idle", "restore"} /\ tx' = tx
           \/ count' = count + 1 /\ tx' = count'
  <1> USE DEF disk, worker
  <1>1. CASE Step
    BY <1>1
    DEF Step, StageInstall, RecordIntent, CopyStaged, VerifyCopy, CopyMismatch, FilesInstalled,
        ApplyBaseline, BaselineFails, RecordOutcome, Commit, AuditCommit, StartUninstall, UndoDone,
        RestoreDone, LeaveUnchanged, BackUpFile, StaleDrift, BackUpStale, BackUpManaged, UndoFile,
        RestoreFile, Save, EnterUndo, Finish, TargetSteps
  <1>2. CASE Raise
    BY <1>2 DEF Raise, StartAuditFails, Fail, RestoreFails, UndoFileFails, EnterUndo, Finish, TargetSteps
  <1>3. CASE Request
    BY <1>3 DEF Request, BeginInstall, BeginUninstall, BeginRollback, BeginRecovery, BeginRestore, Create
  <1>4. CASE Environment
    BY <1>4 DEF Environment, Crash, Restart, UserEdit, Finish
  <1> QED
    BY <1>1, <1>2, <1>3, <1>4 DEF Next

LEMMA UntouchedStep ==
    ASSUME IInv, TypeOK', NumberedInv', UntouchedInv, Unedited, Next, ~Spend("edit")
    PROVE  UntouchedInv'
  <1>1. count \in Nat /\ count' \in Nat /\ \A x \in TxIds : x \in Nat
    BY BoundAssumption DEF IInv, TypeOK, TxIds
  <1>2. ASSUME NEW x \in TxIds, x > count'
        PROVE  touched'[x] = {}
    BY <1>1, <1>2, TouchEffect, TurnEffect DEF UntouchedInv
  <1>3. ASSUME pc' \notin {"idle", "restore"}
        PROVE  touched'[tx'] = {}
    <2>1. tx' \in TxIds
      BY <1>3, BoundAssumption DEF TypeOK, TxIds
    <2>2. CASE UNCHANGED count /\ tx' = tx /\ pc \notin {"idle", "restore"}
      BY <2>1, <2>2, TouchEffect DEF UntouchedInv
    <2>3. CASE count' = count + 1 /\ tx' = count'
      BY <1>1, <2>1, <2>3, TouchEffect DEF UntouchedInv
    <2> QED
      BY <1>3, <2>2, <2>3, TurnEffect
  <1> QED
    BY <1>2, <1>3 DEF UntouchedInv

-----------------------------------------------------------------------------
(* Entries.                                                                *)

\* Records that agree on these two fields are faithful together.
LEMMA FaithfulTogether ==
    ASSUME NEW r, NEW s, Faithful(r),
           \A t \in Targets : SameUndo(s, r, t)
    PROVE  Faithful(s)
  BY DEF Faithful, SameUndo

LEMMA FaithfulStatus ==
    ASSUME NEW r \in Record, NEW status, Faithful(r)
    PROVE  Faithful([r EXCEPT !.status = status])
  BY DEF Faithful, Record

LEMMA FaithfulItem ==
    ASSUME mem \in Record, Faithful(mem), NEW t \in Targets, NEW item,
           item.action = "create" => ~item.previously_existed,
           item.action = "replace" => item.previously_existed
    PROVE  Faithful(WithItem(t, item))
  BY DEF Faithful, WithItem, Record

LEMMA FaithfulNew ==
    ASSUME NEW kind, NEW id, NEW status
    PROVE  Faithful(NewRecord(kind, id, status))
  BY DEF Faithful, NewRecord, NoItem

\* Writing a faithful record leaves faithful ones.
LEMMA FaithfulSave ==
    ASSUME IInv, EntriesInv, tx \in TxIds, NEW r, Faithful(r), NEW next, NEW rest, Save(r, next, rest)
    PROVE  EntriesInv'
  <1>1. mem' = r /\ (records' = records \/ records' = [records EXCEPT ![tx] = r])
    BY DEF Save, EnterUndo
  <1>2. \A x \in TxIds : records'[x] = records[x] \/ records'[x] = r
    BY <1>1 DEF IInv, TypeOK
  <1>3. Faithful(mem') /\ \A x \in TxIds : Faithful(records'[x])
    BY <1>1, <1>2 DEF EntriesInv
  <1> QED
    BY <1>3 DEF EntriesInv, Faithful

LEMMA EntriesStep ==
    ASSUME IInv, EntriesInv, Step
    PROVE  EntriesInv'
  <1> USE DEF disk
  <1>0. /\ mem \in Record /\ records \in [TxIds -> Record]
        /\ Faithful(mem) /\ \A x \in TxIds : Faithful(records[x])
    BY DEF IInv, TypeOK, EntriesInv
  <1>1. pc # "idle" => tx \in TxIds
    BY BoundAssumption DEF IInv, TypeOK, TxIds
  <1>2. pc \in TargetSteps => tgt \in Targets /\ mem.files[tgt] \in Item
    BY <1>0 DEF IInv, TypeOK, Record
  <1>3. ASSUME Faithful(mem'), \A x \in TxIds : Faithful(records'[x])
        PROVE  EntriesInv'
    BY <1>3 DEF EntriesInv, Faithful
  <1>4. ASSUME Faithful(mem'), UNCHANGED records
        PROVE  EntriesInv'
    BY <1>0, <1>3, <1>4
  <1>5. Faithful(NoRecord)
    BY FaithfulNew DEF NoRecord
  <1>6. CASE StageInstall
    <2>1. Faithful(mem') /\ records' = [records EXCEPT ![tx] = mem'] /\ tx \in TxIds
      BY <1>0, <1>1, <1>6, FaithfulStatus DEF StageInstall
    <2>2. \A x \in TxIds : records'[x] = records[x] \/ records'[x] = mem'
      BY <1>0, <2>1
    <2> QED
      BY <1>0, <1>3, <2>1, <2>2
  <1>7. CASE RecordIntent
    <2> DEFINE existed == backup[tx][tgt] # Absent
               action == CASE mem.kind = "uninstall" -> "uninstall"
                           [] existed                -> "replace"
                           [] OTHER                  -> "create"
               item == [action |-> action, previously_existed |-> existed,
                        installed |-> Absent, post_absent |-> FALSE]
    <2>1. /\ item.action = "create" => ~item.previously_existed
          /\ item.action = "replace" => item.previously_existed
      OBVIOUS
    <2>2. \E next, rest : Save(WithItem(tgt, item), next, rest)
      BY <1>7 DEF RecordIntent
    <2>3. tgt \in Targets /\ tx \in TxIds
      BY <1>1, <1>2, <1>7 DEF RecordIntent, TargetSteps
    <2> HIDE DEF item
    <2> QED
      BY <1>0, <2>1, <2>2, <2>3, FaithfulItem, FaithfulSave
  <1>8. CASE VerifyCopy
    <2> DEFINE item == [mem.files[tgt] EXCEPT !.installed = manifest[tgt]]
    <2>1. tgt \in Targets /\ tx \in TxIds
      BY <1>1, <1>2, <1>8 DEF VerifyCopy, TargetSteps
    <2>2. /\ item.action = mem.files[tgt].action
          /\ item.previously_existed = mem.files[tgt].previously_existed
      BY <1>2, <1>8 DEF VerifyCopy, TargetSteps, Item
    <2>3. Save(WithItem(tgt, item), "files", todo)
      BY <1>8 DEF VerifyCopy
    <2> HIDE DEF item
    <2>4. Faithful(WithItem(tgt, item))
      BY <1>0, <2>1, <2>2, FaithfulItem DEF Faithful
    <2> QED
      BY <2>1, <2>3, <2>4, FaithfulSave
  <1>9. CASE ApplyBaseline
    <2> DEFINE b == Baseline(mem.package_id, tgt)
               item == [mem.files[tgt] EXCEPT
                          !.installed = b.value,
                          !.post_absent = (b.mode = "absent" /\ mem.kind = "uninstall")]
    <2>1. tgt \in Targets
      BY <1>2, <1>9 DEF ApplyBaseline, TargetSteps
    <2>2. /\ item.action = mem.files[tgt].action
          /\ item.previously_existed = mem.files[tgt].previously_existed
      BY <1>2, <1>9 DEF ApplyBaseline, TargetSteps, Item
    <2>3. mem' = WithItem(tgt, item) /\ UNCHANGED records
      BY <1>9 DEF ApplyBaseline
    <2> HIDE DEF item
    <2>4. Faithful(WithItem(tgt, item))
      BY <1>0, <2>1, <2>2, FaithfulItem DEF Faithful
    <2> QED
      BY <1>4, <2>3, <2>4
  <1>10. CASE RecordOutcome \/ Commit
    <2>1. tx \in TxIds /\ Faithful([mem EXCEPT !.status = "committed"])
      BY <1>0, <1>1, <1>10, FaithfulStatus DEF RecordOutcome, Commit
    <2>2. \E r, next, rest : Faithful(r) /\ Save(r, next, rest)
      BY <1>0, <1>10, <2>1 DEF RecordOutcome, Commit
    <2> QED
      BY <2>1, <2>2, FaithfulSave
  <1>11. CASE \E t \in Targets : LeaveUnchanged(t)
    <2> PICK t \in Targets : LeaveUnchanged(t)
      BY <1>11
    <2> DEFINE item == [action |-> "unchanged", previously_existed |-> TRUE,
                        installed |-> manifest[t], post_absent |-> FALSE]
    <2>1. tx \in TxIds /\ Save(WithItem(t, item), "files", todo \ {t})
      BY <1>1 DEF LeaveUnchanged
    <2>2. Faithful(WithItem(t, item))
      BY <1>0, FaithfulItem
    <2> HIDE DEF item
    <2> QED
      BY <2>1, <2>2, FaithfulSave
  <1>12. CASE \E t \in Targets : BackUpStale(t)
    BY <1>0, <1>4, <1>12, FaithfulItem DEF BackUpStale
  <1>13. CASE UndoDone \/ RestoreDone
    <2>1. mem' = NoRecord /\ tx \in TxIds
      BY <1>1, <1>13 DEF UndoDone, RestoreDone, Finish
    <2>2. \E status : \/ records' = records
                      \/ records' = [records EXCEPT ![tx] = [mem EXCEPT !.status = status]]
                      \/ records' = [records EXCEPT ![tx].status = status]
      BY <1>13 DEF UndoDone, RestoreDone
    <2>3. ASSUME NEW x \in TxIds
          PROVE  Faithful(records'[x])
      <3>1. PICK status : \/ records'[x] = records[x]
                          \/ records'[x] = [mem EXCEPT !.status = status]
                          \/ records'[x] = [records[x] EXCEPT !.status = status]
        BY <1>0, <2>1, <2>2
      <3> QED
        BY <1>0, <3>1, FaithfulStatus
    <2> QED
      BY <1>3, <1>5, <2>1, <2>3
  <1>14. CASE CopyMismatch \/ FilesInstalled \/ BaselineFails \/ StartUninstall \/ AuditCommit
              \/ \E t \in Targets : BackUpFile(t) \/ StaleDrift(t) \/ BackUpManaged(t)
                                    \/ UndoFile(t) \/ RestoreFile(t)
    <2>1. UNCHANGED records /\ (mem' = mem \/ mem' = NoRecord)
      BY <1>14
      DEF CopyMismatch, FilesInstalled, BaselineFails, StartUninstall, AuditCommit, BackUpFile,
          StaleDrift, BackUpManaged, UndoFile, RestoreFile, EnterUndo, Finish
    <2> QED
      BY <1>0, <1>4, <1>5, <2>1
  <1>15. CASE CopyStaged
    BY <1>0, <1>4, <1>15 DEF CopyStaged
  <1> QED
    BY <1>6, <1>7, <1>8, <1>9, <1>10, <1>11, <1>12, <1>13, <1>14, <1>15 DEF Step

LEMMA EntriesNext ==
    ASSUME IInv, EntriesInv, Next
    PROVE  EntriesInv'
  <1> USE DEF disk, worker
  <1>0. /\ mem \in Record /\ records \in [TxIds -> Record]
        /\ Faithful(mem) /\ \A x \in TxIds : Faithful(records[x])
    BY DEF IInv, TypeOK, EntriesInv
  <1>1. ASSUME Faithful(mem'), \A x \in TxIds : Faithful(records'[x])
        PROVE  EntriesInv'
    BY <1>1 DEF EntriesInv, Faithful
  <1>2. Faithful(NoRecord)
    BY FaithfulNew DEF NoRecord
  <1>3. CASE Raise
    <2>1. UNCHANGED records
      BY <1>3 DEF Raise, StartAuditFails, Fail, RestoreFails, UndoFileFails
    <2>2. mem' = mem \/ mem' = NoRecord \/ mem' = [mem EXCEPT !.status = UndoFailed]
      BY <1>3 DEF Raise, StartAuditFails, Fail, RestoreFails, UndoFileFails, EnterUndo, Finish, UndoFailed
    <2>3. Faithful(mem')
      BY <1>0, <1>2, <2>2, FaithfulStatus
    <2> QED
      BY <1>0, <1>1, <2>1, <2>3
  <1>4. ASSUME NEW r, Faithful(r), Create(r)
        PROVE  EntriesInv'
    <2>1. mem' = r /\ \A x \in TxIds : records'[x] = records[x] \/ records'[x] = r
      BY <1>0, <1>4 DEF Create
    <2> QED
      BY <1>0, <1>1, <1>4, <2>1
  <1>5. ASSUME NEW x \in TxIds, BeginRestore(x)
        PROVE  EntriesInv'
    BY <1>0, <1>1, <1>5 DEF BeginRestore
  <1>6. CASE Request
    BY <1>4, <1>5, <1>6, FaithfulNew
    DEF Request, BeginInstall, BeginUninstall, BeginRollback, BeginRecovery
  <1>7. CASE Crash \/ Restart
    <2>1. (mem' = mem \/ mem' = NoRecord) /\ MarkInterrupted
      BY <1>7 DEF Crash, Restart, Finish
    <2>2. \A x \in TxIds : \/ records'[x] = records[x]
                           \/ records'[x] = [records[x] EXCEPT !.status = "interrupted"]
      BY <2>1 DEF MarkInterrupted
    <2>3. \A x \in TxIds : Faithful(records'[x])
      <3> TAKE x \in TxIds
      <3>1. Faithful([records[x] EXCEPT !.status = "interrupted"])
        BY <1>0, FaithfulStatus
      <3> QED
        BY <1>0, <2>2, <3>1
    <2> QED
      BY <1>0, <1>1, <1>2, <2>1, <2>3
  <1>8. CASE \E t \in Targets, v \in Slot : UserEdit(t, v)
    BY <1>0, <1>1, <1>8 DEF UserEdit
  <1> QED
    BY <1>3, <1>6, <1>7, <1>8, EntriesStep DEF Next, Environment

-----------------------------------------------------------------------------
(* Committed transactions.                                                 *)

\* A transaction that is committed, and stays so, keeps its record and backups.
LEMMA CommittedStays ==
    ASSUME IInv, OInv, TypeOK', Next, NEW x \in TxIds,
           records[x].status = "committed", records'[x].status = "committed"
    PROVE  records'[x] = records[x] /\ backup'[x] = backup[x] /\ pre'[x] = pre[x]
  <1> USE DEF disk, ghosts
  <1>0. pc # "idle" => tx \in TxIds
    BY BoundAssumption DEF IInv, TypeOK, TxIds
  <1>1. x <= count
    BY DEF IInv, NumberedInv
  <1>2. pc \in Visiting \cup {"started"} => x # tx
    BY DEF OInv, LInv, StatusInv
  <1>3. ASSUME pc # "idle", records'[tx] = records[tx] \/ x # tx \/ records'[tx].status # "committed",
               \A y \in TxIds \ {tx} : records'[y] = records[y]
        PROVE  records'[x] = records[x]
    BY <1>3
  <1>4. CASE Step \/ Raise
    <2>1. pc # "idle" /\ UNCHANGED pre
      BY <1>4
      DEF Step, StageInstall, RecordIntent, CopyStaged, VerifyCopy, CopyMismatch, FilesInstalled,
          ApplyBaseline, BaselineFails, RecordOutcome, Commit, AuditCommit, StartUninstall, UndoDone,
          RestoreDone, LeaveUnchanged, BackUpFile, StaleDrift, BackUpStale, BackUpManaged, UndoFile,
          RestoreFile, Raise, StartAuditFails, Fail, RestoreFails, UndoFileFails, SetLive, TargetSteps
    <2>2. backup'[x] = backup[x]
      <3>1. CASE \E t \in Targets : BackUpFile(t) \/ BackUpStale(t) \/ BackUpManaged(t)
        <4>1. pc \in Visiting /\ \A y \in TxIds \ {tx} : backup'[y] = backup[y]
          BY <1>0, <2>1, <3>1 DEF BackUpFile, BackUpStale, BackUpManaged, BackUp, Visiting, IInv, TypeOK
        <4> QED
          BY <1>2, <4>1
      <3>2. CASE ~\E t \in Targets : BackUpFile(t) \/ BackUpStale(t) \/ BackUpManaged(t)
        BY <1>4, <3>2
        DEF Step, StageInstall, RecordIntent, CopyStaged, VerifyCopy, CopyMismatch, FilesInstalled,
            ApplyBaseline, BaselineFails, RecordOutcome, Commit, AuditCommit, StartUninstall, UndoDone,
            RestoreDone, LeaveUnchanged, StaleDrift, UndoFile, RestoreFile, Raise, StartAuditFails,
            Fail, RestoreFails, UndoFileFails
      <3> QED
        BY <3>1, <3>2
    <2>3. \A y \in TxIds \ {tx} : records'[y] = records[y]
      BY <1>0, <1>4, <2>1
      DEF Step, StageInstall, RecordIntent, CopyStaged, VerifyCopy, CopyMismatch, FilesInstalled,
          ApplyBaseline, BaselineFails, RecordOutcome, Commit, AuditCommit, StartUninstall, UndoDone,
          RestoreDone, LeaveUnchanged, BackUpFile, StaleDrift, BackUpStale, BackUpManaged, UndoFile,
          RestoreFile, Save, IInv, TypeOK, Raise, StartAuditFails, Fail, RestoreFails, UndoFileFails
    <2>4. records'[tx] = records[tx] \/ x # tx \/ records'[tx].status # "committed"
      <3>1. CASE UndoDone \/ RestoreDone
        BY <1>0, <2>1, <3>1 DEF UndoDone, RestoreDone, IInv, TypeOK, Record
      <3>2. CASE ~(UndoDone \/ RestoreDone)
        <4>1. pc \in Visiting \cup {"started"} \/ UNCHANGED records
          BY <1>4, <3>2
          DEF Step, StageInstall, RecordIntent, CopyStaged, VerifyCopy, CopyMismatch, FilesInstalled,
              ApplyBaseline, BaselineFails, RecordOutcome, Commit, AuditCommit, StartUninstall,
              LeaveUnchanged, BackUpFile, StaleDrift, BackUpStale, BackUpManaged, UndoFile,
              RestoreFile, Raise, StartAuditFails, Fail, RestoreFails, UndoFileFails, Visiting,
              TargetSteps
        <4> QED
          BY <1>2, <4>1
      <3> QED
        BY <3>1, <3>2
    <2> QED
      BY <1>3, <2>1, <2>2, <2>3, <2>4
  <1>5. ASSUME NEW r, Create(r), UNCHANGED backup
        PROVE  records'[x] = records[x] /\ backup'[x] = backup[x] /\ pre'[x] = pre[x]
    <2>1. x # count'
      BY <1>1, <1>5 DEF Create, IInv, TypeOK, TxIds
    <2> QED
      BY <1>5, <2>1 DEF Create, IInv, TypeOK
  <1>6. CASE Request
    BY <1>5, <1>6
    DEF Request, BeginInstall, BeginUninstall, BeginRollback, BeginRecovery, BeginRestore
  <1>7. CASE Crash \/ Restart
    BY <1>7 DEF Crash, Restart, MarkInterrupted, Unresolved
  <1>8. CASE \E t \in Targets, v \in Slot : UserEdit(t, v)
    BY <1>8 DEF UserEdit, SetLive
  <1> QED
    BY <1>4, <1>6, <1>7, <1>8 DEF Next, Environment

LEMMA KeptStep ==
    ASSUME IInv, OInv, TypeOK', UntouchedInv, KeptInv, Unedited, Next
    PROVE  KeptInv'
  <1>1. ASSUME NEW x \in TxIds, records'[x].status = "committed", records[x].status = "committed"
        PROVE  Kept(x)'
    BY <1>1, CommittedStays DEF KeptInv, Kept, Reverted, Reverts, UndoValue
  <1>2. ASSUME NEW x \in TxIds, records'[x].status = "committed", records[x].status # "committed"
        PROVE  Kept(x)'
    <2>1. Commit /\ x = tx /\ records' = [records EXCEPT ![tx] = [mem EXCEPT !.status = "committed"]]
      BY <1>2, OnlyCommitCommits
    <2>2. pc \in {"stale", "uninstall"} /\ UNCHANGED <<backup, pre>>
      BY <2>1 DEF Commit, ghosts
    <2>3. records'[x].files = mem.files
      BY <1>2, <2>1 DEF IInv, TypeOK, Record
    <2>4. \A t \in Targets : UndoValue(mem, tx, t) = pre[tx][t]
      BY <2>2 DEF IInv, RunningIsUndoable, UntouchedInv
    <2> QED
      BY <2>1, <2>2, <2>3, <2>4 DEF Kept, Reverted, Reverts, UndoValue
  <1> QED
    BY <1>1, <1>2 DEF KeptInv

-----------------------------------------------------------------------------
(* What an uninstall gives back.                                           *)

\* A file that stays is given back as before, while no install's record changes.
LEMMA GivenBackStays ==
    ASSUME NEW id, NEW t, GivenBack(id, t), live'[t] = live[t], pre' = pre,
           \A x \in TxIds : \/ records'[x] = records[x]
                            \/ records[x].kind # "install" /\ records'[x].kind # "install"
    PROVE  GivenBack(id, t)'
  <1>1. Naming(id, t)' = Naming(id, t) /\ \A x \in Naming(id, t) : records'[x] = records[x]
    BY DEF Naming, Committed
  <1>2. FirstNaming(id, t)' = FirstNaming(id, t) /\ \A x \in FirstNaming(id, t) : records'[x] = records[x]
    BY <1>1 DEF FirstNaming
  <1> QED
    BY <1>2 DEF GivenBack

\* The baseline is what preceded the first install.
LEMMA BaselineGives ==
    ASSUME IInv, EntriesInv, KeptInv, Unedited, NEW id, NEW t \in Targets,
           NEW f \in FirstNaming(id, t), records[f].files[t].action # "unchanged"
    PROVE  Baseline(id, t).value = pre[f][t]
  <1>1. /\ f \in TxIds /\ records[f].status = "committed"
        /\ records[f].files[t].action \in {"create", "replace"}
    BY DEF FirstNaming, Naming, Committed
  <1>2. \A y \in FirstNaming(id, t) : y = f
    BY BoundAssumption DEF FirstNaming, Naming, TxIds
  <1>3. (CHOOSE y \in FirstNaming(id, t) : TRUE) = f
    BY <1>2
  <1>4. UndoValue(records[f], f, t) = pre[f][t]
    BY <1>1 DEF KeptInv, Kept, Reverted, Reverts
  <1>5. CASE records[f].files[t].action = "create"
    <2>1. pre[f][t] = Absent
      BY <1>1, <1>4, <1>5 DEF UndoValue, Reverts, EntriesInv, Faithful
    <2> QED
      BY <1>3, <1>5, <2>1 DEF Baseline, BaselineFrom, NothingBefore
  <1>6. CASE records[f].files[t].action = "replace"
    <2>1. pre[f][t] = backup[f][t]
      BY <1>1, <1>4, <1>6 DEF UndoValue, Reverts, EntriesInv, Faithful
    <2> QED
      BY <1>3, <1>6, <2>1 DEF Baseline, BaselineFrom, NothingBefore
  <1> QED
    BY <1>1, <1>5, <1>6

\* While an uninstall goes on, what it has behind it stays given back.
LEMMA GivenStays ==
    ASSUME IInv, GivenInv, Unedited, pc \in Visiting, mem.kind = "uninstall",
           mem'.package_id = mem.package_id, pre' = pre,
           \A x \in TxIds \ {tx} : records'[x] = records[x],
           records'[tx].kind = "uninstall",
           NEW t \in Targets, t \in Reverted(mem), ~(pc = "baseline" /\ t = tgt), live'[t] = live[t]
    PROVE  GivenBack(mem.package_id, t)'
  <1>1. tx \in TxIds /\ records[tx].kind = "uninstall"
    BY BoundAssumption DEF IInv, TypeOK, TxIds, SyncedInv, Visiting, TargetSteps
  <1>2. PICK id : id = mem.package_id
    OBVIOUS
  <1>3. GivenBack(id, t)
    BY <1>2 DEF GivenInv
  <1>4. GivenBack(id, t)'
    BY <1>1, <1>3, GivenBackStays
  <1> QED
    BY <1>2, <1>4

LEMMA BackUpGiven ==
    ASSUME IInv, GivenInv, Unedited, NEW s \in Targets, BackUpManaged(s), mem.kind = "uninstall"
    PROVE  GivenInv'
  <1>1. /\ pc = "uninstall" /\ pc' = "intend"
        /\ UNCHANGED <<live, records, mem, pre>>
    BY DEF BackUpManaged, ghosts
  <1>2. records[tx].kind = "uninstall"
    BY <1>1 DEF IInv, SyncedInv
  <1>3. ASSUME NEW t \in Targets, t \in Reverted(mem)
        PROVE  GivenBack(mem.package_id, t)'
    BY <1>1, <1>2, <1>3, GivenStays DEF Visiting
  <1> QED
    BY <1>1, <1>3 DEF GivenInv, Reverted, Reverts

LEMMA IntentGiven ==
    ASSUME IInv, GivenInv, Unedited, RecordIntent, mem.kind = "uninstall", pc' \in Visiting
    PROVE  GivenInv'
  <1> DEFINE existed == backup[tx][tgt] # Absent
             action == CASE mem.kind = "uninstall" -> "uninstall"
                         [] existed                -> "replace"
                         [] OTHER                  -> "create"
             item == [action |-> action, previously_existed |-> existed,
                      installed |-> Absent, post_absent |-> FALSE]
  <1>1. /\ pc = "intend" /\ tgt \in Targets /\ tx \in TxIds /\ UNCHANGED <<live, pre>>
        /\ Save(WithItem(tgt, item), "baseline", todo)
    BY BoundAssumption DEF RecordIntent, ghosts, IInv, TypeOK, TxIds, TargetSteps
  <1>2. /\ WithItem(tgt, item).kind = "uninstall"
        /\ WithItem(tgt, item).package_id = mem.package_id
        /\ \A t \in Targets : t # tgt => WithItem(tgt, item).files[t] = mem.files[t]
    BY DEF WithItem, IInv, TypeOK, Record
  <1> HIDE DEF item
  <1>3. /\ pc' = "baseline" /\ tgt' = tgt /\ mem' = WithItem(tgt, item)
        /\ records' = [records EXCEPT ![tx] = WithItem(tgt, item)]
    BY <1>1 DEF Save, EnterUndo, Visiting, TargetSteps
  <1>4. records'[tx].kind = "uninstall" /\ \A x \in TxIds \ {tx} : records'[x] = records[x]
    BY <1>1, <1>2, <1>3 DEF IInv, TypeOK
  <1>5. ASSUME NEW t \in Targets, t # tgt, t \in Reverted(mem)'
        PROVE  GivenBack(mem.package_id, t)'
    <2>1. t \in Reverted(mem)
      BY <1>2, <1>3, <1>5 DEF Reverted, Reverts
    <2> QED
      BY <1>1, <1>2, <1>3, <1>4, <2>1, <1>5, GivenStays DEF Visiting, TargetSteps
  <1> QED
    BY <1>3, <1>5 DEF GivenInv, Reverted

LEMMA BaselineGiven ==
    ASSUME IInv, EntriesInv, KeptInv, GivenInv, Unedited, ApplyBaseline, mem.kind = "uninstall"
    PROVE  GivenInv'
  <1> DEFINE b == Baseline(mem.package_id, tgt)
             item == [mem.files[tgt] EXCEPT
                        !.installed = b.value,
                        !.post_absent = (b.mode = "absent" /\ mem.kind = "uninstall")]
  <1>1. /\ pc = "baseline" /\ pc' = "record" /\ tgt \in Targets /\ tgt' = tgt
        /\ UNCHANGED records /\ mem' = WithItem(tgt, item) /\ SetLive(tx, tgt, b.value)
    BY DEF ApplyBaseline, IInv, TypeOK, TargetSteps, disk
  <1>2. item.action = mem.files[tgt].action
    BY <1>1 DEF IInv, TypeOK, Record, Item
  <1> HIDE DEF item, b
  <1>3. /\ mem'.package_id = mem.package_id
        /\ \A t \in Targets : mem'.files[t].action = mem.files[t].action
    BY <1>1, <1>2 DEF WithItem, IInv, TypeOK, Record
  <1>4. /\ pre' = pre /\ live'[tgt] = b.value
        /\ \A t \in Targets : t # tgt => live'[t] = live[t]
    <2>1. pre' = pre /\ live' = [live EXCEPT ![tgt] = b.value]
      BY <1>1 DEF SetLive
    <2> QED
      BY <1>1, <2>1 DEF IInv, TypeOK
  <1>5. records[tx].kind = "uninstall"
    BY <1>1 DEF IInv, SyncedInv
  <1>6. GivenBack(mem.package_id, tgt)'
    <2>1. PICK id : id = mem.package_id
      OBVIOUS
    <2>2. FirstNaming(id, tgt)' = FirstNaming(id, tgt)
      BY <1>1 DEF FirstNaming, Naming, Committed
    <2>3. ASSUME NEW f \in FirstNaming(id, tgt), records[f].files[tgt].action # "unchanged"
          PROVE  live'[tgt] = pre[f][tgt]
      BY <1>1, <1>4, <2>1, <2>3, BaselineGives DEF b
    <2>4. GivenBack(id, tgt)'
      BY <1>1, <1>4, <2>2, <2>3 DEF GivenBack
    <2> QED
      BY <1>1, <1>3, <2>1, <2>4
  <1>7. ASSUME NEW t \in Targets, t # tgt, t \in Reverted(mem)
        PROVE  GivenBack(mem.package_id, t)'
    BY <1>1, <1>3, <1>4, <1>5, <1>7, GivenStays DEF Visiting, TargetSteps
  <1>8. Reverted(mem)' = Reverted(mem) /\ Reverted(mem) \subseteq Targets
    BY <1>3 DEF Reverted, Reverts
  <1>9. \A t \in Reverted(mem)' : GivenBack(mem.package_id, t)'
    BY <1>1, <1>6, <1>7, <1>8
  <1> QED
    BY <1>9 DEF GivenInv

LEMMA OutcomeGiven ==
    ASSUME IInv, GivenInv, Unedited, RecordOutcome, mem.kind = "uninstall", pc' \in Visiting
    PROVE  GivenInv'
  <1>1. /\ pc = "record" /\ tx \in TxIds /\ UNCHANGED <<live, pre>>
        /\ Save(mem, "uninstall", todo)
    BY BoundAssumption DEF RecordOutcome, ghosts, IInv, TypeOK, TxIds
  <1>2. pc' = "uninstall" /\ mem' = mem /\ records' = [records EXCEPT ![tx] = mem]
    BY <1>1 DEF Save, EnterUndo, Visiting, TargetSteps
  <1>3. records'[tx].kind = "uninstall" /\ \A x \in TxIds \ {tx} : records'[x] = records[x]
    BY <1>1, <1>2 DEF IInv, TypeOK
  <1>4. ASSUME NEW t \in Targets, t \in Reverted(mem)
        PROVE  GivenBack(mem.package_id, t)'
    BY <1>1, <1>2, <1>3, <1>4, GivenStays DEF Visiting, TargetSteps
  <1> QED
    BY <1>2, <1>4 DEF GivenInv, Reverted, Reverts

LEMMA GivenStep ==
    ASSUME IInv, OInv, EntriesInv, KeptInv, GivenInv, Unedited, Next, ~Spend("edit")
    PROVE  GivenInv'
  <1> SUFFICES ASSUME pc' \in Visiting, mem'.kind = "uninstall"
               PROVE  GivenInv'
    BY DEF GivenInv
  <1> USE DEF disk, worker
  <1>1. CASE StartUninstall
    <2>1. Reverted(mem)' = {}
      BY <1>1 DEF StartUninstall, IInv, VisitInv, Reverted, Reverts
    <2> QED
      BY <2>1 DEF GivenInv
  <1>2. CASE Raise \/ Environment \/ Request
    BY <1>2
    DEF Raise, StartAuditFails, Fail, RestoreFails, UndoFileFails, EnterUndo, Finish, Environment,
        Crash, Restart, UserEdit, Request, BeginInstall, BeginUninstall, BeginRollback,
        BeginRecovery, BeginRestore, Create, Visiting, TargetSteps
  <1>3. CASE UndoDone \/ RestoreDone \/ Commit \/ AuditCommit \/ CopyMismatch \/ BaselineFails
             \/ \E t \in Targets : UndoFile(t) \/ RestoreFile(t) \/ StaleDrift(t)
    BY <1>3
    DEF UndoDone, RestoreDone, Commit, AuditCommit, CopyMismatch, BaselineFails, UndoFile,
        RestoreFile, StaleDrift, Save, EnterUndo, Finish, Visiting, TargetSteps
  <1>4. CASE StageInstall
    BY <1>4 DEF StageInstall, IInv, TypeOK, Record
  <1>5. CASE CopyStaged \/ VerifyCopy \/ FilesInstalled
             \/ \E t \in Targets : LeaveUnchanged(t) \/ BackUpFile(t) \/ BackUpStale(t)
    <2>1. mem.kind = "install"
      BY <1>5
      DEF CopyStaged, VerifyCopy, FilesInstalled, LeaveUnchanged, BackUpFile, BackUpStale, IInv, PhaseInv
    <2>2. mem'.kind = mem.kind
      BY <1>5
      DEF CopyStaged, VerifyCopy, FilesInstalled, LeaveUnchanged, BackUpFile, BackUpStale, WithItem,
          Save, EnterUndo, IInv, TypeOK, Record
    <2> QED
      BY <2>1, <2>2
  <1>6. CASE RecordIntent \/ ApplyBaseline \/ RecordOutcome \/ \E t \in Targets : BackUpManaged(t)
    <2>1. mem.kind = "uninstall"
      BY <1>6
      DEF RecordIntent, ApplyBaseline, RecordOutcome, BackUpManaged, WithItem, Save, EnterUndo,
          IInv, TypeOK, Record
    <2> QED
      BY <1>6, <2>1, IntentGiven, BaselineGiven, OutcomeGiven, BackUpGiven
  <1> QED
    BY <1>1, <1>2, <1>3, <1>4, <1>5, <1>6 DEF Next, Step

LEMMA NextGiven == IInv /\ OInv /\ GInv /\ [Next]_vars => GInv'
  <1> SUFFICES ASSUME IInv, OInv, GInv, [Next]_vars
               PROVE  GInv'
    OBVIOUS
  <1>1. TypeOK' /\ NumberedInv'
    BY NextInv DEF IInv
  <1>2. CASE Next
    <2>1. BudgetInv' /\ EntriesInv'
      BY <1>2, BudgetFalls, EntriesNext DEF GInv
    <2>2. ASSUME Unedited'
          PROVE  UntouchedInv' /\ KeptInv' /\ GivenInv'
      BY <1>1, <1>2, <2>2, UneditedBefore, UntouchedStep, KeptStep, GivenStep DEF GInv
    <2>3. ~Unedited' => UntouchedInv' /\ KeptInv' /\ GivenInv'
      BY DEF UntouchedInv, KeptInv, GivenInv
    <2> QED
      BY <2>1, <2>2, <2>3 DEF GInv
  <1>3. CASE UNCHANGED vars
    <2> USE <1>3 DEF vars, disk, worker, ghosts, GInv
    <2>1. BudgetInv' /\ UntouchedInv' /\ EntriesInv'
      BY DEF BudgetInv, UntouchedInv, Unedited, EntriesInv, Faithful
    <2>2. KeptInv'
      BY DEF KeptInv, Unedited, Kept, Reverted, Reverts, UndoValue
    <2>3. GivenInv'
      BY DEF GivenInv, Unedited, GivenBack, FirstNaming, Naming, Committed, Reverted, Reverts
    <2> QED
      BY <2>1, <2>2, <2>3
  <1> QED
    BY <1>2, <1>3

\* As long as nobody edits a file by hand, an uninstall gives back what the first
\* install that counts found, whatever packages share the file, whatever upgrades,
\* rollbacks, crashes and failures lie in between.
THEOREM UninstallGives == Spec => UninstallGivesBack
  <1>1. Init => GInv
    <2> SUFFICES ASSUME Init
                 PROVE  GInv
      OBVIOUS
    <2>1. BudgetInv
      BY BoundAssumption DEF Init, BudgetInv
    <2>2. UntouchedInv
      BY DEF Init, UntouchedInv
    <2>3. EntriesInv
      BY FaithfulNew DEF Init, EntriesInv, NoRecord
    <2>4. KeptInv /\ GivenInv
      BY DEF Init, KeptInv, GivenInv, NoRecord, NewRecord, Visiting, TargetSteps
    <2> QED
      BY <2>1, <2>2, <2>3, <2>4 DEF GInv
  <1>2. ASSUME IInv, OInv, GInv, Next, Unedited, NEW x \in TxIds, Uninstalls(x),
               NEW t \in Reverted(mem), NEW f \in FirstNaming(mem.package_id, t)
        PROVE  live[t] = pre[f][t] \/ records[f].files[t].action = "unchanged"
    <2>1. Commit /\ x = tx
      BY <1>2, OnlyCommitCommits DEF Uninstalls
    <2>2. mem.kind = "uninstall" /\ pc = "uninstall"
      BY <1>2, <2>1 DEF Commit, Uninstalls, IInv, SyncedInv, PhaseInv
    <2> QED
      BY <1>2, <2>2 DEF GInv, GivenInv, GivenBack, Visiting
  <1>3. ASSUME IInv, OInv, GInv, [Next]_vars
        PROVE  [Unedited =>
                  \A x \in TxIds : Uninstalls(x) =>
                     \A t \in Reverted(mem) :
                         \A f \in FirstNaming(mem.package_id, t) :
                             live[t] = pre[f][t] \/ records[f].files[t].action = "unchanged"]_vars
    BY <1>2, <1>3
  <1> QED
    BY <1>1, <1>3, NextGiven, OutcomesHold, PTL DEF Spec, UninstallGivesBack
=============================================================================
