----------------------------- MODULE HouseProofs -----------------------------
(***************************************************************************)
(* What keeps the house running, for any constants.                        *)
(*                                                                         *)
(* The house has one controller, for any plans the constants allow and any *)
(* number of calls that fail: OneController, from an invariant that says   *)
(* who may act while restore() runs, what is paused when the source is     *)
(* started, and what the emergency script has seen at each of its calls.   *)
(*                                                                         *)
(* HandlerIsHonest for any packages, any number of jobs and whatever the   *)
(* machines may suffer.  The invariant says of each place of the handler   *)
(* what the trap would put back (RestoredInv, KeptInv) and what the steps  *)
(* so far have made sure of (InstalledInv).                                *)
(*                                                                         *)
(* NamesAreServed for any bindings and any number of requests that fail:   *)
(* of a name the loop has not come to, its listing still tells the         *)
(* answers, and only the name it is at may be without one (LoopInv).       *)
(*                                                                         *)
(* LightIsKept for any durations: what a timer's flag says of a light the  *)
(* user put on (FlagInv).                                                  *)
(*                                                                         *)
(* RebootsAreBounded for any delays, any calls that may fail and any       *)
(* number of disturbances: how far the last cut is back at each step of    *)
(* the reboot (PaceInv), what the stale-arm automation still counts        *)
(* (ArmInv), and which automation is about to put power back (OffInv).     *)
(*                                                                         *)
(* NothingLeftTaken for any mishaps of the cover and any trials: a record  *)
(* of the present player is right, and there is none while the cover is    *)
(* being put up (RecordInv); while the recorder is stopped some trial's    *)
(* timer will resume it, which is cancelled only after the trial has       *)
(* resumed it itself (StoppedInv).                                         *)
(***************************************************************************)
EXTENDS ControllerHandover, PackageHandler, DnsImport, ExteriorLights, PowerInterlock,
    TakenForAWhile, TLAPS, WellFoundedInduction, FiniteSetTheorems

-----------------------------------------------------------------------------
(* The controller's handover: its invariant.                               *)

\* What OneController is promised under.
NoEmergency == "emergency" \notin plan.jobs
Guarded == NoEmergency \/ plan.watchdogs = {}

\* A workflow that called restore() waits for it; otherwise cron has called it.
LockInv ==
    /\ rst.at = "idle" <=> rst.by = "none"
    /\ rst.by = "op" => op.at = "restoring"
    /\ rst.by = "cron" => "cron" \in plan.watchdogs

\* restore() starts the source, and the timer may, only with the target paused.
FenceInv ==
    /\ Guarded /\ rst.at \in {"still?", "acceptedNow?", "attest", "start"} => target = "paused"
    /\ NoEmergency /\ fence => target = "paused"

\* A running target that has its entry, or may get it, has the source stopped.
Enrolling == entry \/ flow \in {"open", "orphan"} \/ At("cutover", "startApp")
TargetInv == Guarded /\ target = "running" /\ Enrolling => source = "stopped"

\* What the emergency script has made sure of.
EmergencyInv ==
    Guarded /\ op.job = "emergency" =>
        /\ op.at \in {"resume", "resumed?", "clean", "first?", "second?", "states?", "start"} => source = "stopped"
        /\ op.at \in {"first?", "second?", "states?", "start"} => flow \in {"orphan", "absent", "ended"}
        /\ op.at \in {"states?", "start"} => flow # "orphan" /\ ~entry

\* What acceptance has made sure of, and that no restoration is under way then.
AcceptInv ==
    NoEmergency /\ "cron" \notin plan.watchdogs =>
        /\ marker \/ At("accept", "owner?") \/ At("accept", "mark") => source = "stopped" /\ target = "running"
        /\ marker => rst.at \in {"idle", "accepted?"}

IInv == TypeOK /\ LockInv /\ FenceInv /\ TargetInv /\ EmergencyInv /\ AcceptInv

-----------------------------------------------------------------------------
(* Types.                                                                  *)

\* What moving on, giving up and ending do to the workflow.
LEMMA GoType ==
    ASSUME op \in Ops, NEW at \in Places, Go(at)
    PROVE  op' \in Ops /\ op'.job = op.job /\ op'.at = at
  BY DEF Go, Ops

LEMMA EndType ==
    ASSUME End
    PROVE  op' \in Ops /\ op'.job = "none" /\ op'.at = "idle"
  BY DEF End, Idle, Ops, Places

LEMMA GiveUpType ==
    ASSUME op \in Ops, GiveUp
    PROVE  op' \in Ops /\ op'.job \in {op.job, "none"} /\ op'.at \in {"rollback", "fence", "idle"}
  <1>1. "rollback" \in Places /\ "fence" \in Places
    BY DEF Places
  <1> QED
    BY <1>1, GoType, EndType DEF GiveUp


\* A question goes on or gives up, and changes nothing else.
LEMMA AskType ==
    ASSUME op \in Ops, NEW work, NEW at, NEW wanted, NEW next \in Places, Ask(work, at, wanted, next)
    PROVE  /\ op.job = work /\ op.at = at /\ op' \in Ops /\ UNCHANGED <<vms, guards, plan, todo, rst, told, faults>>
           /\ \/ op'.job = work /\ op'.at = next
              \/ op'.job \in {work, "none"} /\ op'.at \in {"rollback", "fence", "idle"}
  BY GoType, GiveUpType DEF Ask, At

Questions ==
    \/ CheckBoth \/ VerifyStopped \/ Load \/ CheckEnrol \/ CheckSource \/ CheckExclusive \/ CheckOwner
    \/ CheckFenced \/ CheckResumed \/ CheckFirst \/ CheckSecond \/ CheckStates \/ CheckStarted \/ CheckQuiet

\* What is known after a question at which the workflow goes on.
Known ==
    \/ op.job = "cutover" /\ op'.at \in {"arm", "load", "enrol", "source?"}
    \/ op.job = "cutover" /\ op'.at = "startApp" /\ source = "stopped"
    \/ op.job = "accept" /\ op.at = "exclusive?" /\ op'.at = "owner?" /\ source = "stopped" /\ target = "running"
    \/ op.job = "accept" /\ op.at = "owner?" /\ op'.at = "mark"
    \/ op.job = "emergency" /\ op'.at \in {"shutdown", "quiet?", "stopTimer"}
    \/ op.job = "emergency" /\ op.at = "resumed?" /\ op'.at = "clean"
    \/ op.job = "emergency" /\ op.at = "first?" /\ op'.at = "second?"
    \/ op.job = "emergency" /\ op.at = "second?" /\ op'.at = "states?" /\ flow # "orphan" /\ ~entry
    \/ op.job = "emergency" /\ op.at = "states?" /\ op'.at = "start"

LEMMA QuestionStep ==
    ASSUME op \in Ops, Questions
    PROVE  /\ op' \in Ops /\ UNCHANGED <<vms, guards, plan, todo, rst, told, faults>>
           /\ op.at \notin {"idle", "restoring"}
           /\ \/ Known /\ op'.job = op.job
              \/ op'.job \in {op.job, "none"} /\ op'.at \in {"rollback", "fence", "idle"}
  <1>0. {"arm", "load", "enrol", "source?", "startApp", "owner?", "mark", "shutdown", "clean", "second?", "states?",
         "start", "quiet?", "stopTimer", "first?"} \subseteq Places
    BY DEF Places
  <1>1. CASE CheckBoth
    BY <1>0, <1>1, AskType DEF CheckBoth, Known
  <1>2. CASE VerifyStopped
    BY <1>0, <1>2, AskType DEF VerifyStopped, Known
  <1>3. CASE Load
    BY <1>0, <1>3, AskType DEF Load, Known
  <1>4. CASE CheckEnrol
    BY <1>0, <1>4, AskType DEF CheckEnrol, Known
  <1>5. CASE CheckSource
    BY <1>0, <1>5, GoType, GiveUpType DEF CheckSource, Ask, At, Known
  <1>6. CASE CheckExclusive
    BY <1>0, <1>6, GoType, GiveUpType DEF CheckExclusive, Ask, At, Known, Exclusive
  <1>7. CASE CheckOwner
    BY <1>0, <1>7, AskType DEF CheckOwner, Known
  <1>8. CASE CheckFenced
    BY <1>0, <1>8, AskType DEF CheckFenced, Known
  <1>9. CASE CheckResumed
    BY <1>0, <1>9, AskType DEF CheckResumed, Known
  <1>10. CASE CheckFirst
    BY <1>0, <1>10, AskType DEF CheckFirst, Known
  <1>11. CASE CheckSecond
    BY <1>0, <1>11, GoType, GiveUpType DEF CheckSecond, Ask, At, Known, NoEntry
  <1>12. CASE CheckStates
    BY <1>0, <1>12, AskType DEF CheckStates, Known
  <1>13. CASE CheckStarted
    BY <1>0, <1>13, AskType DEF CheckStarted, Known
  <1>14. CASE CheckQuiet
    BY <1>0, <1>14, AskType DEF CheckQuiet, Known
  <1> QED
    BY <1>1, <1>2, <1>3, <1>4, <1>5, <1>6, <1>7, <1>8, <1>9, <1>10, <1>11, <1>12, <1>13, <1>14 DEF Questions

\* The other steps of the workflows.
LEMMA OpStepType ==
    ASSUME TypeOK, OpStep
    PROVE  TypeOK'
  <1>0. op \in Ops /\ op.job \in plan.jobs \cup {"none"}
    BY DEF TypeOK
  <1>1. {"schedule", "stopped?", "shutdown", "await", "restoring", "stopTimer", "uninstall", "uncron", "resume",
         "resumed?", "first?", "started?", "rollback"} \subseteq Places
    BY DEF Places
  <1>2. CASE Questions
    BY <1>0, <1>2, QuestionStep DEF TypeOK, vms, guards
  <1>3. CASE Shutdown \/ Mark
    BY <1>0, <1>1, <1>3, GoType DEF TypeOK, vms, guards, Shutdown, Mark
  <1>9. CASE StartApp \/ Uninstall
    BY <1>0, <1>1, <1>9, GoType DEF TypeOK, vms, guards, StartApp, Uninstall
  <1>8. CASE Resume \/ Restart \/ FenceAgain
    BY <1>0, <1>1, <1>8, GoType DEF TypeOK, guards, Resume, Restart, FenceAgain, StartSource
  <1>4. CASE Arm \/ Schedule \/ RemoveApp
    BY <1>0, <1>1, <1>4, GoType, GiveUpType DEF TypeOK, vms, guards, Arm, Schedule, RemoveApp
  <1>5. CASE Enrolled \/ StopTimer \/ RemoveCron
    BY <1>0, <1>1, <1>5, GoType, EndType, GiveUpType DEF TypeOK, vms, guards, Enrolled, StopTimer, RemoveCron
  <1>6. CASE Rollback
    <2>1. rst' \in Restorations
      BY <1>6 DEF Rollback, TypeOK, Restorations, Calls
    <2> QED
      BY <2>1, <1>0, <1>1, <1>6, GoType, EndType DEF TypeOK, vms, guards, Rollback
  <1>7. CASE SourceStopped
    <2>1. CASE op' = [op EXCEPT !.at = "resume", !.stopped = TRUE]
      <3>1. op' \in Ops /\ op'.job = op.job
        BY <2>1, <1>0, <1>1 DEF Ops
      <3> QED
        BY <3>1, <1>0, <1>7 DEF TypeOK, vms, guards, SourceStopped
    <2>2. CASE GiveUp
      BY <2>2, <1>0, <1>7, GiveUpType DEF TypeOK, vms, guards, SourceStopped
    <2> QED
      BY <1>7, <2>1, <2>2 DEF SourceStopped
  <1> QED
    BY <1>2, <1>3, <1>4, <1>5, <1>6, <1>7, <1>8, <1>9 DEF OpStep, Questions

\* What restore() does when it goes on and when it returns.
LEMMA ContinueType ==
    ASSUME rst \in Restorations, NEW at \in Calls, Continue(at)
    PROVE  rst' \in Restorations /\ rst'.at = at /\ rst'.by = rst.by
  BY DEF Continue, Restorations

Returns == Return(TRUE) \/ Return(FALSE)
LEMMA ReturnType ==
    ASSUME op \in Ops, told \in {"nothing", "restored", "unconfirmed"}, Returns
    PROVE  /\ rst' = Free /\ rst' \in Restorations /\ told' \in {"nothing", "restored", "unconfirmed"}
           /\ op' \in Ops /\ (op' = op \/ (op'.job = "none" /\ op'.at = "idle"))
           /\ rst.by = "cron" => op' = op
  <1>1. Idle \in Ops /\ Idle.job = "none" /\ Idle.at = "idle" /\ Free \in Restorations
    BY DEF Idle, Free, Ops, Restorations, Places, Calls
  <1>2. CASE rst.by = "cron"
    <2>1. rst' = Free /\ op' = op /\ told' = told
      BY <1>2 DEF Returns, Return
    <2> QED
      BY <1>1, <2>1
  <1>3. CASE rst.by # "cron"
    <2>1. rst' = Free /\ op' = Idle
      BY <1>3 DEF Returns, Return
    <2>2. told' \in {"nothing", "restored", "unconfirmed"}
      BY <1>3 DEF Returns, Return
    <2> QED
      BY <1>1, <1>3, <2>1, <2>2
  <1> QED
    BY <1>2, <1>3

LEMMA RestoreStepType ==
    ASSUME TypeOK, RestoreStep
    PROVE  TypeOK'
  <1>0. /\ op \in Ops /\ op.job \in plan.jobs \cup {"none"} /\ rst \in Restorations
        /\ told \in {"nothing", "restored", "unconfirmed"}
    BY DEF TypeOK
  <1>1. {"source?", "target?", "suspend", "fenced?", "still?", "acceptedNow?", "attest", "start"} \subseteq Calls
    BY DEF Calls
  <1>2. CASE ReadMarker \/ ReadSource \/ ReadTarget
    BY <1>0, <1>1, <1>2, ContinueType, ReturnType DEF Returns, TypeOK, vms, guards, Read, ReadMarker, ReadSource, ReadTarget
  <1>3. CASE ReadFenced \/ ReadStill \/ ReadMarkerAgain
    BY <1>0, <1>1, <1>3, ContinueType, ReturnType DEF Returns, TypeOK, vms, guards, Read, ReadFenced, ReadStill, ReadMarkerAgain
  <1>4. CASE Suspend \/ Attest \/ Start
    BY <1>0, <1>1, <1>4, ContinueType, ReturnType DEF Returns, TypeOK, vms, guards, Suspend, Attest, Start, StartSource
  <1> QED
    BY <1>2, <1>3, <1>4 DEF RestoreStep

\* A call that fails, wherever the workflow is.
LEMMA OpFailsStep ==
    ASSUME op \in Ops, OpFails
    PROVE  /\ op' \in Ops /\ op'.job \in {op.job, "none"} /\ UNCHANGED <<vms, guards, plan, todo, rst, told>>
           /\ op'.at \in {"rollback", "fence", "idle", "uninstall", "uncron"}
           /\ op.at # "restoring" /\ (faults' = faults + 1) /\ faults < MaxFaults
  <1>1. {"rollback", "uninstall", "uncron"} \subseteq Places
    BY DEF Places
  <1> QED
    BY <1>1, GoType, EndType, GiveUpType DEF OpFails

LEMMA NextType == TypeOK /\ [Next]_vars => TypeOK'
  <1> SUFFICES ASSUME TypeOK, [Next]_vars
               PROVE  TypeOK'
    OBVIOUS
  <1>0. /\ op \in Ops /\ op.job \in plan.jobs \cup {"none"} /\ rst \in Restorations
        /\ told \in {"nothing", "restored", "unconfirmed"} /\ plan.jobs \subseteq Jobs
    BY ParameterAssumption DEF TypeOK
  <1>1. CASE ShutdownEnds \/ FlowEnds \/ Deadline \/ TimerFires
    BY <1>1 DEF TypeOK, vms, guards, ShutdownEnds, FlowEnds, Deadline, TimerFires, StartSource
  <1>2. CASE CronStarts
    <2>1. rst' \in Restorations
      BY <1>2 DEF CronStarts, Restorations, Calls
    <2> QED
      BY <2>1, <1>2 DEF TypeOK, vms, guards, CronStarts
  <1>3. ASSUME NEW work \in Jobs, Begin(work)
        PROVE  TypeOK'
    <2>1. op' \in Ops /\ op'.job = work /\ work \in plan.jobs
      BY <1>3 DEF Begin, Ops, Places, TypeOK
    <2> QED
      BY <2>1, <1>3 DEF TypeOK, vms, guards, Begin
  <1>4. CASE OpFails
    BY <1>0, <1>4, OpFailsStep, ParameterAssumption DEF TypeOK, vms, guards
  <1>5. CASE OpDies
    BY <1>0, <1>5, EndType, ParameterAssumption DEF TypeOK, vms, guards, OpDies
  <1>6. CASE RestoreFails
    <2>1. faults < MaxFaults /\ faults' = faults + 1 /\ UNCHANGED <<vms, guards, plan, todo>>
      BY <1>6 DEF RestoreFails
    <2>2. Return(FALSE)
      BY <1>6 DEF RestoreFails
    <2> QED
      BY <1>0, <2>1, <2>2, ReturnType, ParameterAssumption DEF Returns, TypeOK, vms, guards
  <1>7. CASE UNCHANGED vars
    BY <1>7 DEF TypeOK, vars, vms, guards
  <1> QED
    BY <1>1, <1>2, <1>3, <1>4, <1>5, <1>6, <1>7, OpStepType, RestoreStepType DEF Next

LEMMA InitType == Init => TypeOK
  <1> SUFFICES ASSUME Init
               PROVE  TypeOK
    OBVIOUS
  <1>1. plan.jobs \subseteq Jobs
    BY ParameterAssumption DEF Init
  <1>2. op \in Ops /\ rst \in Restorations /\ op.job = "none"
    BY DEF Init, Idle, Free, Ops, Restorations, Places, Calls
  <1> QED
    <2>1. todo \subseteq plan.jobs /\ told \in {"nothing", "restored", "unconfirmed"} /\ faults \in 0..MaxFaults
      BY ParameterAssumption DEF Init
    <2> QED
      BY <1>2, <2>1 DEF Init, TypeOK

\* Every variable keeps its type.
-----------------------------------------------------------------------------
(* Who changes what.                                                       *)

\* A step of a workflow.
LEMMA OpStepChanges ==
    ASSUME TypeOK, OpStep
    PROVE  /\ plan' = plan /\ fence' = fence /\ op.at \notin {"idle", "restoring"}
           /\ target' \in {target, "paused"} \/ Resume
           /\ target' = target \/ FenceAgain \/ Resume
           /\ source' = source \/ Shutdown \/ Restart
           /\ entry' = entry
           /\ flow' = flow \/ StartApp \/ Uninstall \/ RemoveApp
           /\ marker' = marker \/ Mark
           /\ rst' = rst \/ (Rollback /\ rst = Free /\ rst' = [at |-> "accepted?", by |-> "op"] /\ op'.at = "restoring")
  <1>0. op \in Ops
    BY DEF TypeOK
  <1>1. CASE Questions
    BY <1>0, <1>1, QuestionStep DEF vms, guards
  <1>2. CASE Shutdown \/ StartApp \/ Mark \/ Uninstall \/ Resume \/ Restart \/ FenceAgain
    BY <1>2 DEF At, vms, guards, Shutdown, StartApp, Mark, Uninstall, Resume, Restart, FenceAgain
  <1>3. CASE Arm \/ Schedule \/ RemoveApp \/ Enrolled \/ StopTimer \/ RemoveCron \/ SourceStopped
    BY <1>3 DEF At, vms, guards, Arm, Schedule, RemoveApp, Enrolled, StopTimer, RemoveCron, SourceStopped
  <1>4. CASE Rollback
    <2>1. op.at = "rollback" /\ "restoring" \in Places /\ UNCHANGED <<vms, guards, plan>>
      BY <1>4 DEF Rollback, Places
    <2>2. rst' = rst \/ (rst = Free /\ rst' = [at |-> "accepted?", by |-> "op"] /\ Go("restoring"))
      BY <1>4 DEF Rollback
    <2> QED
      BY <1>0, <1>4, <2>1, <2>2, GoType DEF vms, guards
  <1> QED
    BY <1>1, <1>2, <1>3, <1>4 DEF OpStep, Questions

\* A step of restore().
LEMMA RestoreStepChanges ==
    ASSUME TypeOK, RestoreStep
    PROVE  /\ plan' = plan /\ entry' = entry /\ flow' = flow /\ marker' = marker /\ rst.at # "idle"
           /\ target' \in {target, "paused"}
           /\ target' = target \/ Suspend
           /\ source' = source \/ Start
           /\ fence' = fence \/ Attest
  BY DEF vms, guards, Read, RestoreStep, ReadMarker, ReadSource, ReadTarget, Suspend, ReadFenced, ReadStill,
         ReadMarkerAgain, Attest, Start

Advances ==
    \/ rst.at = "accepted?" /\ rst'.at = "source?" /\ ~marker
    \/ rst.at \notin {"idle", "accepted?"} /\ rst'.at \in {"target?", "suspend", "fenced?"}
    \/ rst.at \notin {"idle", "accepted?"} /\ rst'.at = "still?" /\ target # "running"
    \/ rst.at \in {"still?", "acceptedNow?", "attest"} /\ rst'.at \in {"acceptedNow?", "attest", "start"}

LEMMA RestoreStepMoves ==
    ASSUME TypeOK, RestoreStep
    PROVE  \/ /\ rst' = Free /\ (op' = op \/ (op'.job = "none" /\ op'.at = "idle"))
              /\ rst.by = "cron" => op' = op
           \/ op' = op /\ rst'.by = rst.by /\ rst'.at # "idle" /\ Advances
  <1>0. op \in Ops /\ rst \in Restorations /\ told \in {"nothing", "restored", "unconfirmed"} /\ target \in {"running", "paused"}
    BY DEF TypeOK
  <1>1. {"source?", "target?", "suspend", "fenced?", "still?", "acceptedNow?", "attest", "start"} \subseteq Calls
    BY DEF Calls
  <1>2. CASE ReadMarker \/ ReadSource
    BY <1>0, <1>1, <1>2, ContinueType, ReturnType DEF Returns, Advances, ReadMarker, ReadSource
  <1>3. CASE ReadTarget
    BY <1>0, <1>1, <1>3, ContinueType DEF Advances, ReadTarget
  <1>4. CASE ReadFenced
    BY <1>0, <1>1, <1>4, ContinueType, ReturnType DEF Returns, Advances, ReadFenced
  <1>5. CASE ReadStill \/ ReadMarkerAgain
    BY <1>0, <1>1, <1>5, ContinueType, ReturnType DEF Returns, Advances, ReadStill, ReadMarkerAgain
  <1>6. CASE Suspend \/ Attest
    BY <1>0, <1>1, <1>6, ContinueType DEF Advances, Suspend, Attest
  <1>7. CASE Start
    BY <1>0, <1>7, ReturnType DEF Returns, Start
  <1> QED
    BY <1>2, <1>3, <1>4, <1>5, <1>6, <1>7 DEF RestoreStep

\* The steps of neither: the machines and the clock, cron, and what begins,
\* fails or dies.
Others ==
    \/ ShutdownEnds \/ FlowEnds \/ Deadline \/ TimerFires \/ CronStarts \/ RestoreFails \/ OpFails \/ OpDies
    \/ \E work \in Jobs : Begin(work)
    \/ UNCHANGED vars

LEMMA OthersChange ==
    ASSUME TypeOK, Others
    PROVE  /\ plan' = plan /\ fence' = fence /\ target' = target /\ marker' = marker
           /\ source' = source \/ ShutdownEnds \/ TimerFires
           /\ entry' = entry \/ FlowEnds
           /\ flow' = flow \/ FlowEnds
  BY DEF vars, vms, guards, Others, ShutdownEnds, FlowEnds, Deadline, TimerFires, CronStarts, RestoreFails, OpFails, OpDies, Begin

LEMMA OthersMove ==
    ASSUME TypeOK, Others
    PROVE  /\ \/ rst' = rst
              \/ rst' = Free
              \/ rst = Free /\ rst' = [at |-> "accepted?", by |-> "cron"] /\ "cron" \in plan.watchdogs
           /\ \/ op' = op
              \/ op.at # "restoring" /\ op'.at \in {"exclusive?", "rollback", "fence", "idle", "uninstall", "uncron"}
              \/ rst' = Free /\ rst.by # "cron" /\ op'.job = "none" /\ op'.at = "idle"
  <1>0. op \in Ops /\ told \in {"nothing", "restored", "unconfirmed"}
    BY DEF TypeOK
  <1>1. CASE ShutdownEnds \/ FlowEnds \/ Deadline \/ TimerFires \/ UNCHANGED vars
    BY <1>1 DEF vars, vms, guards, ShutdownEnds, FlowEnds, Deadline, TimerFires
  <1>2. CASE CronStarts
    BY <1>2 DEF CronStarts
  <1>3. CASE RestoreFails
    <2>1. Return(FALSE)
      BY <1>3 DEF RestoreFails
    <2> QED
      BY <1>0, <2>1, ReturnType DEF Returns
  <1>4. CASE OpFails
    BY <1>0, <1>4, OpFailsStep
  <1>5. CASE OpDies
    BY <1>5, EndType DEF OpDies
  <1>6. ASSUME NEW work \in Jobs, Begin(work)
        PROVE  rst' = rst /\ op.at # "restoring" /\ op'.at = "exclusive?"
    BY <1>6 DEF Begin, Idle
  <1> QED
    BY <1>1, <1>2, <1>3, <1>4, <1>5, <1>6 DEF Others

LEMMA NextKinds == [Next]_vars => OpStep \/ RestoreStep \/ Others
  BY DEF Next, Others

-----------------------------------------------------------------------------
(* The invariant.                                                          *)

LEMMA NextLock == TypeOK /\ LockInv /\ [Next]_vars => LockInv'
  <1> SUFFICES ASSUME TypeOK, LockInv, [Next]_vars
               PROVE  LockInv'
    OBVIOUS
  <1>0. Free.at = "idle" /\ Free.by = "none"
    BY DEF Free
  <1>1. CASE OpStep
    BY <1>0, <1>1, OpStepChanges DEF LockInv
  <1>2. CASE RestoreStep
    BY <1>0, <1>2, RestoreStepChanges, RestoreStepMoves DEF LockInv
  <1>3. CASE Others
    BY <1>0, <1>3, OthersChange, OthersMove DEF LockInv
  <1> QED
    BY <1>1, <1>2, <1>3, NextKinds

\* Where the emergency script may run, restore() does not while it acts.
LEMMA Alone ==
    ASSUME TypeOK, LockInv, Guarded, op.job = "emergency", op.at # "restoring"
    PROVE  rst.at = "idle" /\ plan.watchdogs = {}
  <1>1. plan.watchdogs = {}
    BY DEF TypeOK, Guarded, NoEmergency
  <1> QED
    BY <1>1 DEF TypeOK, LockInv, Restorations

LEMMA NextFence == TypeOK /\ LockInv /\ FenceInv /\ [Next]_vars => FenceInv'
  <1> SUFFICES ASSUME TypeOK, LockInv, FenceInv, [Next]_vars
               PROVE  FenceInv'
    OBVIOUS
  <1>0. Free.at = "idle" /\ target \in {"running", "paused"}
    BY DEF Free, TypeOK
  <1>1. CASE OpStep
    <2>1. CASE Resume
      <3>1. op.job = "emergency" /\ op.at = "resume" /\ rst' = rst /\ fence' = fence
        BY <2>1 DEF Resume, At, guards
      <3>2. ~NoEmergency
        BY <3>1 DEF NoEmergency, TypeOK
      <3> QED
        BY <1>1, <3>1, <3>2, Alone, OpStepChanges DEF FenceInv, Guarded, NoEmergency
    <2>2. CASE ~Resume
      BY <1>0, <1>1, <2>2, OpStepChanges DEF FenceInv, Guarded, NoEmergency
    <2> QED
      BY <2>1, <2>2
  <1>2. CASE RestoreStep
    <2>1. fence' # fence => rst.at = "attest"
      BY <1>2, RestoreStepChanges DEF Attest
    <2> QED
      BY <1>0, <1>2, <2>1, RestoreStepChanges, RestoreStepMoves DEF FenceInv, Guarded, NoEmergency, Advances
  <1>3. CASE Others
    BY <1>0, <1>3, OthersChange, OthersMove DEF FenceInv, Guarded, NoEmergency
  <1> QED
    BY <1>1, <1>2, <1>3, NextKinds

\* Only with the target paused, or by the emergency script, does a stopped source start.
LEMMA SourceStarts ==
    ASSUME TypeOK, LockInv, FenceInv, Guarded, [Next]_vars, source = "stopped", source' # "stopped"
    PROVE  (target = "paused" /\ target' = "paused") \/ Restart
  <1>1. CASE OpStep
    BY <1>1, OpStepChanges DEF Shutdown
  <1>2. CASE RestoreStep
    <2>1. Start
      BY <1>2, RestoreStepChanges
    <2> QED
      BY <2>1 DEF Start, FenceInv
  <1>3. CASE Others
    <2>1. TimerFires
      BY <1>3, OthersChange DEF ShutdownEnds
    <2>2. fence /\ plan.watchdogs # {} /\ target' = target
      BY <2>1 DEF TimerFires
    <2> QED
      BY <2>2 DEF FenceInv, Guarded
  <1> QED
    BY <1>1, <1>2, <1>3, NextKinds

\* A step to the last question of the enrolment has found the source stopped.
LEMMA StartAppNext ==
    ASSUME TypeOK, [Next]_vars, op'.at = "startApp", op'.job = "cutover"
    PROVE  op' = op \/ (source = "stopped" /\ UNCHANGED vms)
  <1>0. op \in Ops
    BY DEF TypeOK
  <1>1. CASE Questions
    BY <1>0, <1>1, QuestionStep DEF Known
  <1>2. CASE OpStep /\ ~Questions
    <2>1. {"schedule", "stopped?", "shutdown", "await", "restoring", "uninstall", "uncron", "stopTimer",
           "resumed?", "first?", "started?", "rollback"} \subseteq Places
      BY DEF Places
    <2>2. CASE Shutdown \/ StartApp \/ Mark \/ Uninstall \/ Resume \/ Restart \/ FenceAgain
      BY <1>0, <2>1, <2>2, GoType DEF Shutdown, StartApp, Mark, Uninstall, Resume, Restart, FenceAgain
    <2>3. CASE Arm \/ Schedule \/ RemoveApp
      BY <1>0, <2>1, <2>3, GoType, GiveUpType DEF Arm, Schedule, RemoveApp
    <2>4. CASE Enrolled \/ StopTimer \/ RemoveCron \/ Rollback
      BY <1>0, <2>1, <2>4, GoType, EndType, GiveUpType DEF Enrolled, StopTimer, RemoveCron, Rollback
    <2>5. CASE SourceStopped
      BY <1>0, <2>5, GiveUpType DEF SourceStopped, At, Ops
    <2> QED
      BY <1>2, <2>2, <2>3, <2>4, <2>5 DEF OpStep, Questions
  <1>3. CASE RestoreStep
    BY <1>3, RestoreStepMoves
  <1>4. CASE Others
    BY <1>4, OthersMove
  <1> QED
    BY <1>1, <1>2, <1>3, <1>4, NextKinds

LEMMA NextTarget == TypeOK /\ LockInv /\ FenceInv /\ TargetInv /\ EmergencyInv /\ [Next]_vars => TargetInv'
  <1> SUFFICES ASSUME TypeOK, LockInv, FenceInv, TargetInv, EmergencyInv, [Next]_vars,
                      Guarded', target' = "running", Enrolling'
               PROVE  source' = "stopped"
    BY DEF TargetInv
  <1>0. plan' = plan /\ Guarded
    BY NextKinds, OpStepChanges, RestoreStepChanges, OthersChange DEF Guarded, NoEmergency
  <1>1. CASE Resume
    BY <1>0, <1>1 DEF Resume, At, EmergencyInv
  <1>2. CASE ~Resume /\ ~Enrolling
    <2>1. CASE OpStep
      <3>1. ~StartApp
        BY <1>2 DEF StartApp, Enrolling
      <3>2. ~(flow' \in {"open", "orphan"})
        BY <2>1, <1>2, <3>1, OpStepChanges DEF Uninstall, RemoveApp, Enrolling
      <3> QED
        BY <2>1, <1>2, <3>2, OpStepChanges, StartAppNext DEF Enrolling, At, vms
    <2>2. CASE RestoreStep
      BY <2>2, <1>2, RestoreStepChanges, StartAppNext DEF Enrolling, At, vms
    <2>3. CASE Others
      <3>1. ~FlowEnds
        BY <1>2 DEF FlowEnds, Enrolling
      <3> QED
        BY <2>3, <3>1, <1>2, OthersChange, StartAppNext DEF Enrolling, At, vms
    <2> QED
      BY <2>1, <2>2, <2>3, NextKinds
  <1>3. CASE ~Resume /\ Enrolling
    <2>1. target = "running"
      BY <1>3, NextKinds, OpStepChanges, RestoreStepChanges, OthersChange
    <2>2. source = "stopped"
      BY <1>0, <1>3, <2>1 DEF TargetInv
    <2>3. ~Restart
      BY <1>0, <1>3 DEF Restart, Enrolling, At, EmergencyInv
    <2> QED
      BY <1>0, <2>1, <2>2, <2>3, SourceStarts
  <1> QED
    BY <1>1, <1>2, <1>3

\* What the emergency script comes to know.
Acting == {"resume", "resumed?", "clean", "first?", "second?", "states?", "start"}
LEMMA EmergencyNext ==
    ASSUME TypeOK, OpStep, op'.job = "emergency", op'.at \in Acting
    PROVE  /\ op.job = "emergency" /\ source' = source /\ entry' = entry
           /\ \/ op'.at = "resume" /\ source = "stopped"
              \/ op.at = "resume" /\ op'.at = "resumed?"
              \/ op.at = "resumed?" /\ op'.at = "clean"
              \/ op.at = "clean" /\ op'.at = "first?" /\ flow' \in {"orphan", "absent"}
              \/ op.at = "first?" /\ op'.at = "second?" /\ flow' = flow
              \/ op.at = "second?" /\ op'.at = "states?" /\ flow' = flow /\ flow # "orphan" /\ ~entry
              \/ op.at = "states?" /\ op'.at = "start" /\ flow' = flow
  <1>0. op \in Ops
    BY DEF TypeOK
  <1>1. {"schedule", "stopped?", "shutdown", "await", "restoring", "uninstall", "uncron", "stopTimer", "resumed?",
         "first?", "started?", "rollback"} \subseteq Places
    BY DEF Places
  <1>2. CASE Questions
    BY <1>0, <1>2, QuestionStep DEF Known, Acting, vms
  <1>3. CASE Shutdown \/ StartApp \/ Mark \/ Uninstall \/ Restart \/ FenceAgain
    BY <1>0, <1>1, <1>3, GoType DEF Acting, At, Shutdown, StartApp, Mark, Uninstall, Restart, FenceAgain
  <1>4. CASE Arm \/ Schedule
    BY <1>0, <1>1, <1>4, GoType, GiveUpType DEF Acting, Arm, Schedule
  <1>5. CASE Enrolled \/ StopTimer \/ RemoveCron \/ Rollback
    BY <1>0, <1>1, <1>5, GoType, EndType, GiveUpType DEF Acting, Enrolled, StopTimer, RemoveCron, Rollback
  <1>6. CASE SourceStopped
    BY <1>0, <1>6, GiveUpType DEF Acting, SourceStopped, At, Ops, vms
  <1>7. CASE Resume
    BY <1>0, <1>1, <1>7, GoType DEF Acting, Resume, At
  <1>8. CASE RemoveApp
    BY <1>0, <1>1, <1>8, GoType, GiveUpType DEF Acting, RemoveApp, At
  <1> QED
    BY <1>2, <1>3, <1>4, <1>5, <1>6, <1>7, <1>8 DEF OpStep, Questions

LEMMA NextEmergency == TypeOK /\ LockInv /\ FenceInv /\ EmergencyInv /\ [Next]_vars => EmergencyInv'
  <1> SUFFICES ASSUME TypeOK, LockInv, FenceInv, EmergencyInv, [Next]_vars,
                      Guarded', op'.job = "emergency", op'.at \in Acting
               PROVE  /\ source' = "stopped"
                      /\ op'.at \in {"first?", "second?", "states?", "start"} => flow' \in {"orphan", "absent", "ended"}
                      /\ op'.at \in {"states?", "start"} => flow' # "orphan" /\ ~entry'
    BY DEF EmergencyInv, Acting
  <1>0. plan' = plan /\ Guarded
    BY NextKinds, OpStepChanges, RestoreStepChanges, OthersChange DEF Guarded, NoEmergency
  <1>1. CASE OpStep
    BY <1>0, <1>1, EmergencyNext DEF EmergencyInv
  <1>2. CASE RestoreStep
    <2>1. op' = op
      BY <1>2, RestoreStepMoves DEF Acting
    <2> QED
      BY <1>0, <1>2, <2>1, Alone, RestoreStepChanges DEF Acting
  <1>3. CASE Others
    <2>1. op' = op
      BY <1>3, OthersMove DEF Acting
    <2>2. source = "stopped" /\ plan.watchdogs = {}
      BY <1>0, <2>1, Alone DEF Acting, EmergencyInv
    <2>3. source' = source
      BY <1>3, <2>2, OthersChange DEF ShutdownEnds, TimerFires
    <2> QED
      BY <1>0, <1>3, <2>1, <2>2, <2>3, OthersChange DEF EmergencyInv, Acting, FlowEnds
  <1> QED
    BY <1>1, <1>2, <1>3, NextKinds

\* Acceptance goes on only with what it has found, and nobody is restoring then.
LEMMA AcceptNext ==
    ASSUME TypeOK, [Next]_vars, op'.job = "accept", op'.at \in {"owner?", "mark"}
    PROVE  /\ UNCHANGED <<source, target>> \/ op' = op
           /\ \/ op' = op
              \/ op'.at = "owner?" /\ source = "stopped" /\ target = "running"
              \/ op.job = "accept" /\ op.at = "owner?"
  <1>0. op \in Ops
    BY DEF TypeOK
  <1>1. {"schedule", "stopped?", "shutdown", "await", "restoring", "uninstall", "uncron", "stopTimer", "resumed?",
         "first?", "started?", "rollback"} \subseteq Places
    BY DEF Places
  <1>2. CASE Questions
    BY <1>0, <1>2, QuestionStep DEF Known, vms
  <1>3. CASE Shutdown \/ StartApp \/ Mark \/ Uninstall \/ Resume \/ Restart \/ FenceAgain
    BY <1>0, <1>1, <1>3, GoType DEF Shutdown, StartApp, Mark, Uninstall, Resume, Restart, FenceAgain
  <1>4. CASE Arm \/ Schedule \/ RemoveApp
    BY <1>0, <1>1, <1>4, GoType, GiveUpType DEF Arm, Schedule, RemoveApp
  <1>5. CASE Enrolled \/ StopTimer \/ RemoveCron \/ Rollback
    BY <1>0, <1>1, <1>5, GoType, EndType, GiveUpType DEF Enrolled, StopTimer, RemoveCron, Rollback
  <1>6. CASE SourceStopped
    BY <1>0, <1>6, GiveUpType DEF SourceStopped, At, Ops
  <1>7. CASE RestoreStep
    BY <1>7, RestoreStepMoves
  <1>8. CASE Others
    BY <1>8, OthersMove
  <1> QED
    BY <1>2, <1>3, <1>4, <1>5, <1>6, <1>7, <1>8, NextKinds DEF OpStep, Questions

LEMMA NextAccept == TypeOK /\ LockInv /\ FenceInv /\ AcceptInv /\ [Next]_vars => AcceptInv'
  <1> SUFFICES ASSUME TypeOK, LockInv, FenceInv, AcceptInv, [Next]_vars,
                      NoEmergency', "cron" \notin plan'.watchdogs
               PROVE  /\ marker' \/ At("accept", "owner?")' \/ At("accept", "mark")' => source' = "stopped" /\ target' = "running"
                      /\ marker' => rst'.at \in {"idle", "accepted?"}
    BY DEF AcceptInv
  <1>0. plan' = plan /\ NoEmergency /\ Guarded /\ "cron" \notin plan.watchdogs
    BY NextKinds, OpStepChanges, RestoreStepChanges, OthersChange DEF Guarded, NoEmergency
  <1>1. op.job # "emergency" /\ rst.by # "cron"
    BY <1>0 DEF TypeOK, NoEmergency, LockInv
  <1>2. rst.at # "idle" => op.at = "restoring"
    BY <1>1 DEF TypeOK, LockInv, Restorations
  <1>3. ASSUME source = "stopped", target = "running", target' = target
        PROVE  source' = "stopped"
    BY <1>0, <1>1, <1>3, SourceStarts DEF Restart, At
  <1>4. ASSUME marker' # marker
        PROVE  /\ At("accept", "mark") /\ target' = target /\ rst' = rst
               /\ rst.at = "idle"
    BY <1>2, <1>4, NextKinds, OpStepChanges, RestoreStepChanges, OthersChange DEF Mark, At, vms
  <1>5. ASSUME marker \/ At("accept", "owner?") \/ At("accept", "mark")
        PROVE  source' = "stopped" /\ target' = "running"
    <2>1. source = "stopped" /\ target = "running"
      BY <1>0, <1>5 DEF AcceptInv
    <2>2. target' = target
      <3>1. CASE OpStep
        BY <1>1, <2>1, <3>1, OpStepChanges DEF FenceAgain, Resume, At, Status
      <3>2. CASE RestoreStep
        BY <1>0, <1>2, <1>5, <3>2, RestoreStepChanges DEF Suspend, At, AcceptInv
      <3>3. CASE Others
        BY <3>3, OthersChange
      <3> QED
        BY <3>1, <3>2, <3>3, NextKinds
    <2> QED
      BY <1>3, <2>1, <2>2
  <1>6. ASSUME marker' \/ At("accept", "owner?")' \/ At("accept", "mark")'
        PROVE  source' = "stopped" /\ target' = "running"
    <2>1. CASE marker \/ At("accept", "owner?") \/ At("accept", "mark")
      BY <1>5, <2>1
    <2>2. CASE ~(marker \/ At("accept", "owner?") \/ At("accept", "mark"))
      <3>1. ~marker'
        BY <1>4, <2>2 DEF TypeOK
      <3> QED
        BY <1>6, <2>2, <3>1, AcceptNext DEF At
    <2> QED
      BY <2>1, <2>2
  <1>7. ASSUME marker'
        PROVE  rst'.at \in {"idle", "accepted?"}
    <2>1. CASE marker' # marker
      BY <1>4, <2>1
    <2>2. CASE marker' = marker
      <3>1. marker /\ rst.at \in {"idle", "accepted?"} /\ Free.at = "idle"
        BY <1>0, <1>7, <2>2 DEF AcceptInv, Free
      <3>2. CASE OpStep
        BY <3>1, <3>2, OpStepChanges
      <3>3. CASE RestoreStep
        BY <3>1, <3>3, RestoreStepMoves DEF Advances
      <3>4. CASE Others
        BY <3>1, <3>4, OthersMove
      <3> QED
        BY <3>2, <3>3, <3>4, NextKinds
    <2> QED
      BY <2>1, <2>2
  <1> QED
    BY <1>6, <1>7

-----------------------------------------------------------------------------
LEMMA InitInv == Init => IInv
  BY InitType DEF Init, IInv, LockInv, FenceInv, TargetInv, Enrolling, EmergencyInv, AcceptInv, Idle, Free, At

LEMMA NextInv == IInv /\ [Next]_vars => IInv'
  BY NextType, NextLock, NextFence, NextTarget, NextEmergency, NextAccept DEF IInv

\* Every variable keeps its type, whatever workflows and watchdogs run.
THEOREM TypeCorrect == Spec => []TypeOK
  BY InitType, NextType, PTL DEF Spec

\* 906 and 905 never command the hardware together, and acceptance gives it to
\* 905, wherever a call fails or a script dies, however often (the failback,
\* cutover, acceptance and emergency scripts, and Node A's timer).
THEOREM OneOwner == Spec => []OneController
  <1>1. IInv => OneController
    BY DEF IInv, TargetInv, AcceptInv, Enrolling, Guarded, NoEmergency, OneController, NoTwoControllers, AcceptedIsOwner
  <1> QED
    BY InitInv, NextInv, <1>1, PTL DEF Spec

-----------------------------------------------------------------------------
(* The package handler: its invariant.                                     *)

\* What PriorIsKept is promised under.
Kept == "backup" \notin machine.fails /\ machine.late \subseteq Looking \cup {"restart"}

\* No job that has not made its backup has one.
FreshInv == Kept => \A k \in JobIds : (k > job \/ (k = job /\ pc = "backup")) => disk.backup[k] = Absent

\* A job that runs brings a package.
RunInv == pc # "idle" => job \in JobIds /\ content[job] \in Packages

\* What may still take effect was given up.
LateInv == \A c \in handlerLate : c[1] \in machine.late

\* What a job found is in a backup from the time the job in progress has made its own.
KeptInv ==
    Kept => /\ pc \in {"idle", "backup"} =>
                 \A j \in JobIds : before[j] \in {Absent, disk.target} \cup {disk.backup[i] : i \in JobIds}
            /\ pc \notin {"idle", "backup"} =>
                 \A j \in JobIds : before[j] \in {Absent} \cup {disk.backup[i] : i \in JobIds}

\* The running job's backup is what it found, so that the trap puts that back.
RestoredInv ==
    Spared => /\ pc = "backup" => disk.target = before[job]
              /\ pc \notin {"idle", "backup"} => disk.backup[job] = before[job]
              /\ pc = "idle" /\ job > 0 => (outcome[job] = "failed" => disk.target = before[job])

\* What each step has made sure of: written, checked, started.
InstalledInv ==
    Spared => /\ pc \in {"sum", "check", "restart", "info", "verify"} => disk.target = content[job]
              /\ pc \in {"restart", "info", "verify"} => content[job] \in Valid
              /\ pc \in {"info", "verify"} => disk.loaded = content[job]
              /\ disk.loaded \notin Packages \ Valid
              /\ pc = "idle" /\ job > 0 =>
                  (outcome[job] = "ok" => /\ disk.target = content[job] /\ disk.loaded = content[job]
                                          /\ content[job] \in Valid)

HandlerIInv == HandlerTypeOK /\ RunInv /\ FreshInv /\ LateInv /\ KeptInv /\ RestoredInv /\ InstalledInv

\* The commands, and their order.
LEMMA CommandsAre ==
  /\ DOMAIN Follows = {"backup", "write", "sum", "check", "restart", "info", "verify"}
  /\ Commands = {"backup", "write", "sum", "check", "restart", "info", "verify", "rollback"}
BY DEF Follows, Commands

LEMMA FollowsIs ==
  /\ Follows["backup"] = "write" /\ Follows["write"] = "sum" /\ Follows["sum"] = "check"
  /\ Follows["check"] = "restart" /\ Follows["restart"] = "info" /\ Follows["info"] = "verify"
  /\ Follows["verify"] = "idle"
BY DEF Follows

Disks == [target : Contents, backup : [JobIds -> Contents], loaded : Contents]

\* What each command does to the three parts of the disk.
LEMMA EffectIs ==
  ASSUME HandlerTypeOK, NEW j \in JobIds, NEW command
  PROVE
    LET e == Effect(command, j, disk) IN
    /\ e \in Disks
    /\ command = "backup" =>
         /\ e.target = disk.target /\ e.loaded = disk.loaded
         /\ disk.target # Absent => e.backup = [disk.backup EXCEPT ![j] = disk.target]
         /\ disk.target = Absent => e.backup = disk.backup
    /\ command = "write" => e.target = content[j] /\ e.backup = disk.backup /\ e.loaded = disk.loaded
    /\ command = "restart" => e.target = disk.target /\ e.backup = disk.backup /\ e.loaded = disk.target
    /\ command = "rollback" =>
         /\ e.target = disk.backup[j] /\ e.backup = [disk.backup EXCEPT ![j] = Absent]
         /\ e.loaded = disk.loaded
    /\ command \notin {"backup", "write", "restart", "rollback"} => e = disk
<1> DEFINE e == Effect(command, j, disk)
<1>1. /\ disk \in Disks /\ disk.target \in Contents /\ disk.backup \in [JobIds -> Contents]
      /\ disk.loaded \in Contents /\ content[j] \in Contents /\ Absent \in Contents
  BY DEF HandlerTypeOK, Disks, Contents
<1>2. CASE command = "backup" /\ disk.target # Absent
  <2>1. e = [disk EXCEPT !.backup = [disk.backup EXCEPT ![j] = disk.target]]
    BY <1>1, <1>2 DEF Effect, Disks
  <2> QED
    BY <1>1, <1>2, <2>1 DEF Disks
<1>3. CASE command = "write"
  <2>1. e = [disk EXCEPT !.target = content[j]]
    BY <1>1, <1>3 DEF Effect, Disks
  <2> QED
    BY <1>1, <1>3, <2>1 DEF Disks
<1>4. CASE command = "restart"
  <2>1. e = [disk EXCEPT !.loaded = disk.target]
    BY <1>1, <1>4 DEF Effect, Disks
  <2> QED
    BY <1>1, <1>4, <2>1 DEF Disks
<1>5. CASE command = "rollback"
  <2>1. e = [disk EXCEPT !.target = disk.backup[j], !.backup = [disk.backup EXCEPT ![j] = Absent]]
    BY <1>1, <1>5 DEF Effect, Disks
  <2> QED
    BY <1>1, <1>5, <2>1 DEF Disks
<1>6. CASE ~(command = "backup" /\ disk.target # Absent) /\ command \notin {"write", "restart", "rollback"}
  <2>1. e = disk
    BY <1>6 DEF Effect
  <2> QED
    BY <1>1, <1>6, <2>1
<1> QED
  BY <1>2, <1>3, <1>4, <1>5, <1>6

\* The initial state satisfies the invariant.
LEMMA HandlerInitInv == HandlerInit => HandlerIInv
BY ContentAssumption, MachineAssumption DEF HandlerInit, HandlerIInv, HandlerTypeOK, RunInv,
   FreshInv, LateInv, KeptInv, RestoredInv, InstalledInv, Contents, JobIds, Commands

\* The types, spelled out.
LEMMA Shape ==
  ASSUME HandlerIInv
  PROVE  /\ MaxJobs \in Nat /\ JobIds = 1..MaxJobs /\ machine \in Mishaps
         /\ job \in 0..MaxJobs /\ pc \in Commands \cup {"idle"}
         /\ disk \in Disks /\ disk.target \in Contents /\ disk.backup \in [JobIds -> Contents]
         /\ disk.loaded \in Contents
         /\ content \in [JobIds -> Packages \cup {Absent}] /\ before \in [JobIds -> Contents]
         /\ outcome \in [JobIds -> {"none", "ok", "failed", "killed"}]
         /\ handlerLate \subseteq Commands \X JobIds
         /\ Absent \in Contents /\ Torn \in Contents /\ Packages \subseteq Contents
         /\ Absent \notin Packages /\ Torn \notin Packages /\ Valid \subseteq Packages
         /\ Prior \notin Packages
  BY MachineAssumption, ContentAssumption DEF HandlerIInv, HandlerTypeOK, JobIds, Contents, Disks

\* The job that begins.
LEMMA NextJob ==
  ASSUME HandlerIInv, job < MaxJobs, job' = job + 1, before' = [before EXCEPT ![job'] = disk.target]
  PROVE  /\ job' \in JobIds /\ job' # job /\ job' \in 0..MaxJobs
         /\ before' \in [JobIds -> Contents] /\ before'[job'] = disk.target
         /\ \A j \in JobIds \ {job'} : before'[j] = before[j]
  BY Shape

\* Every action keeps the invariant.
LEMMA BeginJobInv ==
  ASSUME HandlerIInv, BeginJob
  PROVE  HandlerIInv'
<1>1. PICK c \in Packages : content' = [content EXCEPT ![job'] = c]
  BY DEF BeginJob
<1>2. /\ job' \in JobIds /\ job' # job /\ job' \in 0..MaxJobs /\ job' > job
      /\ before' \in [JobIds -> Contents] /\ before'[job'] = disk.target
      /\ \A j \in JobIds \ {job'} : before'[j] = before[j]
  BY NextJob, Shape DEF BeginJob
<1>3. content' \in [JobIds -> Packages \cup {Absent}] /\ content'[job'] = c
  BY <1>1, <1>2, Shape
<1>4. HandlerTypeOK'
  BY <1>2, <1>3, CommandsAre DEF HandlerIInv, HandlerTypeOK, BeginJob
<1>5. RunInv' /\ LateInv'
  BY <1>2, <1>3 DEF HandlerIInv, RunInv, LateInv, BeginJob
<1>6. FreshInv'
  BY <1>2, Shape DEF HandlerIInv, FreshInv, BeginJob, Kept
<1>7. KeptInv'
  BY <1>2 DEF HandlerIInv, KeptInv, BeginJob, Kept
<1>8. RestoredInv' /\ InstalledInv'
  BY <1>2 DEF HandlerIInv, RestoredInv, InstalledInv, BeginJob, Spared
<1> QED
  BY <1>4, <1>5, <1>6, <1>7, <1>8 DEF HandlerIInv

LEMMA NotRunningInv ==
  ASSUME HandlerIInv, NotRunning
  PROVE  HandlerIInv'
<1>2. /\ job' \in JobIds /\ job' # job /\ job' \in 0..MaxJobs /\ job' > job
      /\ before' \in [JobIds -> Contents] /\ before'[job'] = disk.target
      /\ \A j \in JobIds \ {job'} : before'[j] = before[j]
  BY NextJob, Shape DEF NotRunning
<1>3. outcome' \in [JobIds -> {"none", "ok", "failed", "killed"}] /\ outcome'[job'] = "failed"
  BY <1>2, Shape DEF NotRunning
<1>4. HandlerTypeOK'
  BY <1>2, <1>3 DEF HandlerIInv, HandlerTypeOK, NotRunning
<1>5. RunInv' /\ LateInv'
  BY DEF HandlerIInv, RunInv, LateInv, NotRunning
<1>6. FreshInv'
  BY <1>2, Shape DEF HandlerIInv, FreshInv, NotRunning, Kept
<1>7. KeptInv'
  BY <1>2 DEF HandlerIInv, KeptInv, NotRunning, Kept
<1>8. RestoredInv' /\ InstalledInv'
  BY <1>2, <1>3 DEF HandlerIInv, RestoredInv, InstalledInv, NotRunning, Spared
<1> QED
  BY <1>4, <1>5, <1>6, <1>7, <1>8 DEF HandlerIInv

\* What ending a job does.
LEMMA HandlerEndType ==
  ASSUME HandlerIInv, job \in JobIds, NEW result \in {"ok", "failed", "killed"}, EndJob(result)
  PROVE  /\ outcome' \in [JobIds -> {"none", "ok", "failed", "killed"}]
         /\ outcome'[job] = result /\ pc' = "idle"
  BY Shape DEF EndJob

\* A command that is run and looked at, by the command.
LEMMA AnsweredInv ==
  ASSUME HandlerIInv, Answered
  PROVE  HandlerIInv'
<1>1. /\ pc \in {"backup", "write", "sum", "check", "restart", "info", "verify"} /\ job \in JobIds
      /\ content[job] \in Packages /\ disk' = Effect(pc, job, disk)
      /\ UNCHANGED <<machine, job, content, handlerLate, before>>
  BY Shape, CommandsAre DEF HandlerIInv, RunInv, Answered, Running
<1>2. /\ disk' \in Disks
      /\ pc \in Looking => disk' = disk
  BY <1>1, EffectIs DEF HandlerIInv, Looking
<1>3. /\ ~Accepts(pc) => pc' = "rollback" /\ outcome' = outcome
      /\ Accepts(pc) /\ pc # "verify" => pc' = Follows[pc] /\ outcome' = outcome
      /\ Accepts(pc) /\ pc = "verify" => EndJob("ok")
  BY <1>1, FollowsIs DEF Answered
<1>4. /\ outcome' \in [JobIds -> {"none", "ok", "failed", "killed"}]
      /\ pc = "verify" /\ Accepts(pc) => outcome'[job] = "ok" /\ pc' = "idle"
      /\ pc' \in Commands \cup {"idle"}
      /\ pc' = "idle" => pc = "verify" /\ Accepts(pc)
      /\ pc' # "backup"
  BY <1>1, <1>3, FollowsIs, CommandsAre, HandlerEndType, Shape
<1>5. HandlerTypeOK'
  BY <1>1, <1>2, <1>4 DEF HandlerIInv, HandlerTypeOK, Disks
<1>6. RunInv' /\ LateInv'
  BY <1>1 DEF HandlerIInv, RunInv, LateInv
<1>7. FreshInv'
  <2> SUFFICES ASSUME Kept, NEW k \in JobIds, k > job PROVE disk'.backup[k] = Absent
    BY <1>1, <1>4 DEF FreshInv, Kept
  <2>1. disk.backup[k] = Absent /\ k # job
    BY <1>1, Shape DEF HandlerIInv, FreshInv, Kept
  <2>2. disk'.backup \in {disk.backup, [disk.backup EXCEPT ![job] = disk.target]}
    BY <1>1, EffectIs DEF HandlerIInv
  <2>3. disk'.backup[k] = disk.backup[k]
    BY <1>1, <2>1, <2>2, Shape
  <2> QED
    BY <2>1, <2>3
<1>8. KeptInv'
  <2> SUFFICES ASSUME Kept, NEW j \in JobIds
               PROVE  before[j] \in {Absent} \cup {disk'.backup[i] : i \in JobIds}
    BY <1>1, <1>4 DEF KeptInv, Kept
  <2>1. CASE pc = "backup"
    <3>1. before[j] \in {Absent, disk.target} \cup {disk.backup[i] : i \in JobIds}
          /\ disk.backup[job] = Absent
      BY <1>1, <2>1 DEF HandlerIInv, KeptInv, FreshInv
    <3>2. disk.target # Absent => disk'.backup = [disk.backup EXCEPT ![job] = disk.target]
      BY <1>1, <2>1, EffectIs, Shape DEF HandlerIInv, Disks
    <3>3. disk.target = Absent => disk'.backup = disk.backup
      BY <1>1, <2>1, EffectIs DEF HandlerIInv
    <3> QED
      BY <1>1, <3>1, <3>2, <3>3, Shape
  <2>2. CASE pc # "backup"
    <3>1. disk'.backup = disk.backup
      BY <1>1, <2>2, EffectIs, Shape DEF HandlerIInv, Disks, Looking
    <3> QED
      BY <1>1, <2>2, <3>1 DEF HandlerIInv, KeptInv
  <2> QED
    BY <2>1, <2>2
<1>9. RestoredInv'
  <2> SUFFICES ASSUME Spared PROVE disk'.backup[job] = before[job]
    BY <1>1, <1>4 DEF RestoredInv, Spared
  <2>1. CASE pc = "backup"
    <3>1. disk.target = before[job] /\ disk.backup[job] = Absent
      BY <1>1, <2>1 DEF HandlerIInv, RestoredInv, FreshInv, Spared, Kept
    <3>2. /\ disk.target # Absent => disk'.backup = [disk.backup EXCEPT ![job] = disk.target]
          /\ disk.target = Absent => disk'.backup = disk.backup
      BY <1>1, <2>1, EffectIs DEF HandlerIInv
    <3> QED
      BY <1>1, <3>1, <3>2, Shape
  <2>2. CASE pc # "backup"
    <3>1. disk'.backup = disk.backup
      BY <1>1, <2>2, EffectIs, Shape DEF HandlerIInv, Disks, Looking
    <3> QED
      BY <1>1, <2>2, <3>1 DEF HandlerIInv, RestoredInv
  <2> QED
    BY <2>1, <2>2
<1>10. InstalledInv'
  <2> SUFFICES ASSUME Spared
               PROVE  /\ pc' \in {"sum", "check", "restart", "info", "verify", "idle"} => disk'.target = content[job]
                      /\ pc' \in {"restart", "info", "verify", "idle"} => content[job] \in Valid
                      /\ pc' \in {"info", "verify", "idle"} => disk'.loaded = content[job]
                      /\ disk'.loaded \notin Packages \ Valid
    BY <1>1 DEF InstalledInv, Spared
  <2>1. CASE pc = "backup"
    <3>1. disk'.loaded = disk.loaded /\ pc' \in {"write", "rollback"}
      BY <1>1, <1>3, <2>1, EffectIs, FollowsIs, Shape DEF HandlerIInv, Disks
    <3> QED
      BY <3>1 DEF HandlerIInv, InstalledInv
  <2>2. CASE pc = "write"
    <3>1. disk'.loaded = disk.loaded /\ disk'.target = content[job] /\ pc' \in {"sum", "rollback"}
      BY <1>1, <1>3, <2>2, EffectIs, FollowsIs, Shape DEF HandlerIInv, Disks
    <3> QED
      BY <3>1 DEF HandlerIInv, InstalledInv
  <2>3. CASE pc = "sum"
    <3>1. disk' = disk /\ pc' \in {"check", "rollback"}
      BY <1>2, <1>3, <2>3, FollowsIs DEF Looking
    <3> QED
      BY <2>3, <3>1 DEF HandlerIInv, InstalledInv
  <2>4. CASE pc = "check"
    <3>1. disk' = disk /\ pc' \in {"restart", "rollback"}
      BY <1>2, <1>3, <2>4, FollowsIs DEF Looking
    <3>2. pc' = "restart" => disk.target \notin Packages \ Valid
      BY <1>3, <2>4 DEF Accepts
    <3> QED
      BY <1>1, <2>4, <3>1, <3>2 DEF HandlerIInv, InstalledInv
  <2>5. CASE pc = "restart"
    <3>1. disk'.target = disk.target /\ disk'.loaded = disk.target /\ pc' \in {"info", "rollback"}
      BY <1>1, <1>3, <2>5, EffectIs, FollowsIs, Shape DEF HandlerIInv, Disks
    <3> QED
      BY <1>1, <2>5, <3>1 DEF HandlerIInv, InstalledInv
  <2>6. CASE pc = "info"
    <3>1. disk' = disk /\ pc' \in {"verify", "rollback"}
      BY <1>2, <1>3, <2>6, FollowsIs DEF Looking
    <3> QED
      BY <2>6, <3>1 DEF HandlerIInv, InstalledInv
  <2>7. CASE pc = "verify"
    <3>1. disk' = disk /\ pc' \in {"idle", "rollback"}
      BY <1>2, <1>3, <1>4, <2>7 DEF Looking
    <3> QED
      BY <2>7, <3>1 DEF HandlerIInv, InstalledInv
  <2> QED
    BY <1>1, <2>1, <2>2, <2>3, <2>4, <2>5, <2>6, <2>7
<1> QED
  BY <1>5, <1>6, <1>7, <1>8, <1>9, <1>10 DEF HandlerIInv

LEMMA FailedInv ==
  ASSUME HandlerIInv, Failed
  PROVE  HandlerIInv'
<1>1. /\ pc \in Commands /\ pc \notin {"idle", "rollback"} /\ pc \in machine.fails /\ pc' = "rollback"
      /\ UNCHANGED <<machine, job, content, handlerLate, outcome, before>>
      /\ job \in JobIds
  BY Shape DEF HandlerIInv, RunInv, Failed, Running
<1>2. disk' \in Disks /\ (pc # "backup" => disk' = disk)
  <2>1. disk' \in {disk, [disk EXCEPT !.backup = [disk.backup EXCEPT ![job] = Torn]]}
        /\ (pc # "backup" => disk' = disk)
    BY Shape DEF Failed, Disks
  <2>2. [disk.backup EXCEPT ![job] = Torn] \in [JobIds -> Contents]
    BY Shape
  <2> QED
    BY <2>1, <2>2, Shape DEF Disks
<1>3. HandlerTypeOK' /\ RunInv' /\ LateInv'
  BY <1>1, <1>2, CommandsAre DEF HandlerIInv, HandlerTypeOK, RunInv, LateInv, Disks
<1>4. FreshInv' /\ KeptInv'
  BY <1>1, <1>2 DEF HandlerIInv, FreshInv, KeptInv, Kept
<1>5. RestoredInv' /\ InstalledInv'
  BY <1>1, <1>2 DEF HandlerIInv, RestoredInv, InstalledInv, Spared
<1> QED
  BY <1>3, <1>4, <1>5 DEF HandlerIInv

LEMMA GaveUpInv ==
  ASSUME HandlerIInv, GaveUp
  PROVE  HandlerIInv'
<1>1. /\ pc \in Commands /\ pc \notin {"idle", "rollback"} /\ pc \in machine.late /\ pc' = "rollback"
      /\ UNCHANGED <<machine, disk, job, content, outcome, before>>
      /\ job \in JobIds /\ handlerLate' = handlerLate \cup {<<pc, job>>}
  BY Shape DEF HandlerIInv, RunInv, GaveUp, Running
<1>2. \A c \in handlerLate' : c \in Commands \X JobIds /\ c[1] \in machine.late
  BY <1>1, Shape DEF HandlerIInv, LateInv
<1>3. HandlerTypeOK' /\ RunInv' /\ LateInv'
  BY <1>1, <1>2, CommandsAre DEF HandlerIInv, HandlerTypeOK, RunInv, LateInv
<1>4. FreshInv' /\ KeptInv'
  BY <1>1 DEF HandlerIInv, FreshInv, KeptInv, Kept, Looking
<1>5. RestoredInv' /\ InstalledInv'
  BY <1>1 DEF HandlerIInv, RestoredInv, InstalledInv, Spared, Looking
<1> QED
  BY <1>3, <1>4, <1>5 DEF HandlerIInv

LEMMA LaterInv ==
  ASSUME HandlerIInv, Later
  PROVE  HandlerIInv'
<1>1. /\ UNCHANGED <<machine, job, pc, content, outcome, before>>
      /\ handlerLate' \subseteq handlerLate
  BY DEF Later
<1>2. PICK c \in handlerLate : disk' = Effect(c[1], c[2], disk)
  BY DEF Later
<1>3. c[1] \in machine.late /\ c[2] \in JobIds
  BY <1>2, Shape DEF HandlerIInv, LateInv
<1>4. /\ disk' \in Disks
      /\ Kept => disk'.target = disk.target /\ disk'.backup = disk.backup
      /\ Spared => disk' = disk
  BY <1>2, <1>3, EffectIs, Shape DEF HandlerIInv, Kept, Spared, Disks, Looking
<1>5. HandlerTypeOK' /\ RunInv' /\ LateInv'
  BY <1>1, <1>4, Shape DEF HandlerIInv, HandlerTypeOK, RunInv, LateInv, Disks
<1>6. FreshInv' /\ KeptInv'
  BY <1>1, <1>4 DEF HandlerIInv, FreshInv, KeptInv, Kept
<1>7. RestoredInv' /\ InstalledInv'
  BY <1>1, <1>4 DEF HandlerIInv, RestoredInv, InstalledInv, Spared
<1> QED
  BY <1>5, <1>6, <1>7 DEF HandlerIInv

LEMMA RollBackInv ==
  ASSUME HandlerIInv, RollBack
  PROVE  HandlerIInv'
<1>1. /\ pc = "rollback" /\ pc' = "idle" /\ UNCHANGED <<machine, job, content, before>>
      /\ job \in JobIds /\ outcome'[job] = "failed"
      /\ outcome' \in [JobIds -> {"none", "ok", "failed", "killed"}]
  BY HandlerEndType, Shape DEF HandlerIInv, RunInv, RollBack
<1>2. /\ disk' \in {disk, Effect("rollback", job, disk)}
      /\ Spared => disk' = Effect("rollback", job, disk)
      /\ \A c \in handlerLate' : c \in Commands \X JobIds /\ c[1] \in machine.late
  <2>1. disk' \in {disk, Effect("rollback", job, disk)}
    BY DEF RollBack
  <2>2. Spared => "rollback" \notin machine.fails /\ "rollback" \notin machine.late
    BY DEF Spared, Looking
  <2>3. Spared => disk' = Effect("rollback", job, disk)
    BY <2>2 DEF RollBack
  <2>4. \A c \in handlerLate : c \in Commands \X JobIds /\ c[1] \in machine.late
    BY Shape DEF HandlerIInv, LateInv
  <2>5. <<"rollback", job>> \in Commands \X JobIds /\ <<"rollback", job>>[1] = "rollback"
    BY <1>1, CommandsAre
  <2>6. \/ handlerLate' = handlerLate
        \/ handlerLate' = handlerLate \cup {<<"rollback", job>>} /\ "rollback" \in machine.late
    BY DEF RollBack
  <2>7. \A c \in handlerLate' : c \in Commands \X JobIds /\ c[1] \in machine.late
    BY <2>4, <2>5, <2>6
  <2> QED
    BY <2>1, <2>3, <2>7
<1>4. /\ disk' \in Disks /\ disk'.loaded = disk.loaded
      /\ \/ disk'.target = disk.target /\ disk'.backup = disk.backup
         \/ disk'.target = disk.backup[job] /\ disk'.backup = [disk.backup EXCEPT ![job] = Absent]
      /\ Spared => disk'.target = disk.backup[job]
  <2>1. /\ Effect("rollback", job, disk) \in Disks
        /\ Effect("rollback", job, disk).target = disk.backup[job]
        /\ Effect("rollback", job, disk).backup = [disk.backup EXCEPT ![job] = Absent]
        /\ Effect("rollback", job, disk).loaded = disk.loaded
    BY <1>1, EffectIs DEF HandlerIInv
  <2> QED
    BY <1>2, <2>1, Shape
<1>5. HandlerTypeOK'
  BY <1>1, <1>2, <1>4 DEF HandlerIInv, HandlerTypeOK, Disks
<1>6. RunInv' /\ LateInv'
  BY <1>1, <1>2 DEF RunInv, LateInv
<1>7. FreshInv'
  BY <1>1, <1>4, Shape DEF HandlerIInv, FreshInv, Kept
<1>8. KeptInv'
  <2> SUFFICES ASSUME Kept, NEW j \in JobIds
               PROVE  before[j] \in {Absent, disk'.target} \cup {disk'.backup[i] : i \in JobIds}
    BY <1>1 DEF KeptInv, Kept
  <2>1. before[j] = Absent \/ \E i \in JobIds : before[j] = disk.backup[i]
    BY <1>1 DEF HandlerIInv, KeptInv
  <2>2. \A i \in JobIds : disk.backup[i] \in {disk'.target} \cup {disk'.backup[k] : k \in JobIds}
    BY <1>1, <1>4, Shape
  <2> QED
    BY <2>1, <2>2
<1>9. RestoredInv' /\ InstalledInv'
  BY <1>1, <1>4 DEF HandlerIInv, RestoredInv, InstalledInv, Spared
<1> QED
  BY <1>5, <1>6, <1>7, <1>8, <1>9 DEF HandlerIInv

LEMMA KilledInv ==
  ASSUME HandlerIInv, Killed
  PROVE  HandlerIInv'
<1>1. /\ pc # "idle" /\ pc' = "idle" /\ UNCHANGED <<machine, disk, job, content, before>>
      /\ job \in JobIds /\ outcome'[job] = "killed"
      /\ outcome' \in [JobIds -> {"none", "ok", "failed", "killed"}]
      /\ machine.dies
  BY HandlerEndType, Shape DEF HandlerIInv, RunInv, Killed
<1>2. \A c \in handlerLate' : c \in Commands \X JobIds /\ c[1] \in machine.late
  BY <1>1, Shape DEF HandlerIInv, Killed, LateInv
<1>3. HandlerTypeOK' /\ RunInv' /\ LateInv'
  BY <1>1, <1>2 DEF HandlerIInv, HandlerTypeOK, RunInv, LateInv
<1>4. FreshInv' /\ KeptInv'
  BY <1>1 DEF HandlerIInv, FreshInv, KeptInv, Kept
<1>5. RestoredInv' /\ InstalledInv'
  BY <1>1 DEF HandlerIInv, RestoredInv, InstalledInv, Spared
<1> QED
  BY <1>3, <1>4, <1>5 DEF HandlerIInv

\* The invariant holds always.
THEOREM HandlerInvariance == HandlerSpec => []HandlerIInv
<1>1. HandlerIInv /\ [HandlerNext]_handlerVars => HandlerIInv'
  <2> SUFFICES ASSUME HandlerIInv, [HandlerNext]_handlerVars PROVE HandlerIInv'
    OBVIOUS
  <2>1. CASE UNCHANGED handlerVars
    BY <2>1 DEF handlerVars, HandlerIInv, HandlerTypeOK, RunInv, FreshInv, LateInv, KeptInv,
                RestoredInv, InstalledInv, Kept, Spared
  <2> QED
    BY <2>1, BeginJobInv, NotRunningInv, AnsweredInv, FailedInv, GaveUpInv, LaterInv,
       RollBackInv, KilledInv DEF HandlerNext
<1> QED
  BY HandlerInitInv, <1>1, PTL DEF HandlerSpec

\* Whatever fails, comes late or dies in whichever order, a package job of the handler
\* (ha-package-install-handler-v1.sh) did what it says, and no file it found is lost.
THEOREM Honest == HandlerSpec => []HandlerIsHonest
<1>1. HandlerIInv => HandlerIsHonest
  BY DEF HandlerIInv, HandlerIsHonest, PriorIsKept, FailedIsRestored, SuccessIsInstalled,
         LoadedIsValid, KeptInv, RestoredInv, InstalledInv, Kept
<1> QED
  BY HandlerInvariance, <1>1, PTL

-----------------------------------------------------------------------------
(* The import of bindings: its invariant.                                  *)

\* The pairs to be served name each name once.
WantsInv(i) ==
    dnsPc[i] \in {"list", "apply"} => \A p, q \in records[i] : p[1] = q[1] => p[2] = q[2]

\* What the loop knows: of a name it has not come to, its listing still tells the
\* answers; the name it is at is the only one it may have left without an answer;
\* every other one has its one address.
LoopInv(i) ==
    dnsPc[i] = "apply" =>
        /\ left[i] \subseteq {p[1] : p \in records[i]}
        /\ \A n \in left[i] : AnswersIn(existing[i], n) = Answers(n)
        /\ \A n \in answered[i] : Answers(n) = {} => n \in left[i] /\ n = NextName(i)
        /\ \A p \in records[i] : p[1] \notin left[i] => Answers(p[1]) = {p[2]}

\* A failure leaves at most that name without an answer.
GapInv(i) == \A m, n \in answered[i] : Answers(m) = {} /\ Answers(n) = {} => m = n

DnsInv == DnsTypeOK /\ (OneImporter => \A i \in Importers : WantsInv(i) /\ LoopInv(i) /\ GapInv(i))

-----------------------------------------------------------------------------
(* The answers of a set of rewrites.                                       *)

Rewrites == SUBSET (Names \X Addresses)

LEMMA NamesAreNumbers == Names \subseteq Nat
  BY NameAssumption DEF Names

LEMMA AnswersAre ==
    ASSUME NEW list \in Rewrites, NEW n
    PROVE  \A a : a \in AnswersIn(list, n) <=> <<n, a>> \in list
  BY DEF AnswersIn, Rewrites

\* What a deletion leaves and an addition makes.
Less(list, n, a) == list \ {<<n, a>>}
NewOf(n, wanted) == {<<n, a>> : a \in AnswersIn(wanted, n)}
More(list, n, wanted) == list \cup NewOf(n, wanted)

LEMMA AnswersLess ==
    \A list \in Rewrites : \A n, a :
        /\ Less(list, n, a) \in Rewrites
        /\ AnswersIn(Less(list, n, a), n) = AnswersIn(list, n) \ {a}
        /\ \A m : m # n => AnswersIn(Less(list, n, a), m) = AnswersIn(list, m)
  <1> SUFFICES ASSUME NEW list \in Rewrites, NEW n, NEW a
               PROVE  /\ Less(list, n, a) \in Rewrites
                      /\ AnswersIn(Less(list, n, a), n) = AnswersIn(list, n) \ {a}
                      /\ \A m : m # n => AnswersIn(Less(list, n, a), m) = AnswersIn(list, m)
    OBVIOUS
  <1>1. Less(list, n, a) \in Rewrites
    BY DEF Rewrites, Less
  <1>2. \A m, b : b \in AnswersIn(Less(list, n, a), m) <=> <<m, b>> \in Less(list, n, a)
    BY <1>1, AnswersAre
  <1>3. \A m, b : b \in AnswersIn(list, m) <=> <<m, b>> \in list
    BY AnswersAre
  <1>4. \A m, b : <<m, b>> \in Less(list, n, a) <=> <<m, b>> \in list /\ ~(m = n /\ b = a)
    BY DEF Less
  <1>5. \A m, b : b \in AnswersIn(Less(list, n, a), m) <=> b \in AnswersIn(list, m) /\ ~(m = n /\ b = a)
    BY <1>2, <1>3, <1>4
  <1>6. AnswersIn(Less(list, n, a), n) = AnswersIn(list, n) \ {a}
    BY <1>5
  <1>7. ASSUME NEW m, m # n PROVE AnswersIn(Less(list, n, a), m) = AnswersIn(list, m)
    <2>1. \A b : b \in AnswersIn(Less(list, n, a), m) <=> b \in AnswersIn(list, m)
      BY <1>5, <1>7
    <2> QED
      BY <2>1, Zenon
  <1> QED
    BY <1>1, <1>6, <1>7

LEMMA AnswersMore ==
    \A list, wanted \in Rewrites : \A n :
        /\ More(list, n, wanted) \in Rewrites
        /\ AnswersIn(More(list, n, wanted), n) = AnswersIn(list, n) \cup AnswersIn(wanted, n)
        /\ \A m : m # n => AnswersIn(More(list, n, wanted), m) = AnswersIn(list, m)
  <1> SUFFICES ASSUME NEW list \in Rewrites, NEW wanted \in Rewrites, NEW n
               PROVE  /\ More(list, n, wanted) \in Rewrites
                      /\ AnswersIn(More(list, n, wanted), n) = AnswersIn(list, n) \cup AnswersIn(wanted, n)
                      /\ \A m : m # n => AnswersIn(More(list, n, wanted), m) = AnswersIn(list, m)
    OBVIOUS
  <1>1. NewOf(n, wanted) \subseteq wanted
    BY AnswersAre DEF NewOf
  <1>2. More(list, n, wanted) \in Rewrites
    BY <1>1 DEF Rewrites, More
  <1>3. \A m, a : <<m, a>> \in NewOf(n, wanted) <=> m = n /\ a \in AnswersIn(wanted, n)
    BY DEF NewOf
  <1>4. \A m, a : <<m, a>> \in More(list, n, wanted) <=> <<m, a>> \in list \/ (m = n /\ a \in AnswersIn(wanted, n))
    BY <1>3 DEF More
  <1>5. \A m, a : a \in AnswersIn(More(list, n, wanted), m) <=> <<m, a>> \in More(list, n, wanted)
    BY <1>2, AnswersAre
  <1>6. \A m, a : a \in AnswersIn(list, m) <=> <<m, a>> \in list
    BY AnswersAre
  <1>7. \A m, a : a \in AnswersIn(More(list, n, wanted), m)
                      <=> a \in AnswersIn(list, m) \/ (m = n /\ a \in AnswersIn(wanted, n))
    BY <1>4, <1>5, <1>6
  <1>8. AnswersIn(More(list, n, wanted), n) = AnswersIn(list, n) \cup AnswersIn(wanted, n)
    BY <1>7
  <1>9. ASSUME NEW m, m # n PROVE AnswersIn(More(list, n, wanted), m) = AnswersIn(list, m)
    <2>1. \A b : b \in AnswersIn(More(list, n, wanted), m) <=> b \in AnswersIn(list, m)
      BY <1>7, <1>9
    <2> QED
      BY <2>1, Zenon
  <1> QED
    BY <1>2, <1>8, <1>9

\* What is wanted of a name is its one address.
LEMMA WantedIs ==
    ASSUME NEW wanted \in Rewrites, \A p, q \in wanted : p[1] = q[1] => p[2] = q[2],
           NEW p \in wanted
    PROVE  AnswersIn(wanted, p[1]) = {p[2]}
  <1>1. p = <<p[1], p[2]>>
    BY DEF Rewrites
  <1>2. \A a : a \in AnswersIn(wanted, p[1]) <=> <<p[1], a>> \in wanted
    BY AnswersAre
  <1>3. ASSUME NEW a, <<p[1], a>> \in wanted
        PROVE  a = p[2]
    <2>1. <<p[1], a>>[1] = p[1] /\ <<p[1], a>>[2] = a
      OBVIOUS
    <2> QED
      BY <1>3, <2>1
  <1> QED
    BY <1>1, <1>2, <1>3

-----------------------------------------------------------------------------
(* The next name, and the counting of the gap.                             *)

LEMMA LeastNumber ==
    ASSUME NEW S \in SUBSET Nat, S # {}
    PROVE  \E n \in S : \A m \in S : n <= m
  <1> DEFINE R == OpToRel(<, Nat)
  <1>1. IsWellFoundedOn(R, Nat)
    BY NatLessThanWellFounded, Zenon
  <1> HIDE DEF R
  <1>2. PICK n \in S : \A m \in S : <<m, n>> \notin R
    BY <1>1, WFMin
  <1>3. \A m \in S : ~(m < n)
    BY <1>2 DEF R, OpToRel
  <1> QED
    BY <1>3

LEMMA NextNameIs ==
    ASSUME NEW i, left[i] \subseteq Names, left[i] # {}
    PROVE  NextName(i) \in left[i]
  <1>1. left[i] \in SUBSET Nat
    BY NamesAreNumbers
  <1>2. \E n \in left[i] : \A m \in left[i] : n <= m
    BY <1>1, LeastNumber
  <1> QED
    BY <1>2 DEF NextName, Min

LEMMA OneAtMost ==
    \A S : (\A m, n \in S : m = n) => Cardinality(S) <= 1
  <1> SUFFICES ASSUME NEW S, \A m, n \in S : m = n
               PROVE  Cardinality(S) <= 1
    OBVIOUS
  <1>1. CASE S = {}
    BY <1>1, FS_EmptySet
  <1>2. ASSUME NEW g \in S PROVE Cardinality(S) <= 1
    <2>1. S = {g}
      BY <1>2
    <2> QED
      BY <2>1, FS_Singleton
  <1> QED
    BY <1>1, <1>2

-----------------------------------------------------------------------------
(* The steps.                                                              *)

\* A program counter moves.
LEMMA GoOnIs ==
    ASSUME DnsTypeOK, NEW i \in Importers, NEW step \in {"idle", "parse", "list", "apply"}, GoOn(i, step)
    PROVE  dnsPc' \in [Importers -> {"idle", "parse", "list", "apply"}] /\ dnsPc'[i] = step
  BY DEF DnsTypeOK, GoOn

\* What a request that fails may have done.
LEMMA FailsIs ==
    ASSUME DnsTypeOK, NEW i \in Importers, NEW effect \in Rewrites, Fails(i, effect)
    PROVE  /\ DnsTypeOK' /\ dnsPc'[i] = "idle" /\ status' = "error"
           /\ rewrites' \in {rewrites, effect} /\ answered' = answered
  <1>1. failures' \in 0..Failures
    BY ImportAssumption DEF Fails, DnsTypeOK
  <1>2. dnsPc' \in [Importers -> {"idle", "parse", "list", "apply"}] /\ dnsPc'[i] = "idle"
    BY GoOnIs DEF Fails, Error
  <1> QED
    BY <1>1, <1>2 DEF Fails, Error, DnsTypeOK, dnsLocal, Rewrites

\* A request that fails while the loop is at a name, and had an effect on that
\* name only.
LEMMA FailsInv ==
    ASSUME DnsInv, OneImporter, NEW i \in Importers, NEW effect \in Rewrites, Fails(i, effect),
           \A m, n \in answered[i] : AnswersIn(effect, m) = {} /\ AnswersIn(effect, n) = {} => m = n
    PROVE  WantsInv(i)' /\ LoopInv(i)' /\ GapInv(i)'
  <1>1. dnsPc'[i] = "idle" /\ rewrites' \in {rewrites, effect} /\ answered' = answered
    BY FailsIs DEF DnsInv
  <1>2. GapInv(i)'
    BY <1>1 DEF DnsInv, GapInv, Answers
  <1> QED
    BY <1>1, <1>2 DEF WantsInv, LoopInv

LEMMA BeginInv ==
    ASSUME DnsTypeOK, NEW i \in Importers, BeginImport(i)
    PROVE  /\ DnsTypeOK'
           /\ WantsInv(i)' /\ LoopInv(i)' /\ (GapInv(i) => GapInv(i)')
  <1>1. dnsPc' \in [Importers -> {"idle", "parse", "list", "apply"}] /\ dnsPc'[i] = "parse"
    BY GoOnIs DEF BeginImport
  <1>2. upload' \in [Importers -> SUBSET Lines]
    <2>1. PICK u \in Uploads : upload' = [upload EXCEPT ![i] = u]
      BY DEF BeginImport
    <2>2. u \in SUBSET Lines
      BY UploadAssumption
    <2> QED
      BY <2>1, <2>2 DEF DnsTypeOK
  <1>3. imports' \in 0..Imports
    BY ImportAssumption DEF BeginImport, DnsTypeOK
  <1> QED
    BY <1>1, <1>2, <1>3 DEF BeginImport, DnsTypeOK, WantsInv, LoopInv, GapInv, Answers

LEMMA PairsAre ==
    ASSUME NEW u \in SUBSET Lines
    PROVE  /\ Pairs(u) \in Rewrites
           /\ Acceptable(u) => \A p, q \in Pairs(u) : p[1] = q[1] => p[2] = q[2]
  <1>1. \A l \in u : l[1] \in Macs /\ l[2] \in Addresses
    BY DEF Lines
  <1>2. \A l \in u : NameOf[l[1]] \in Names
    BY <1>1 DEF Names
  <1> QED
    BY <1>1, <1>2 DEF Pairs, Rewrites, Acceptable, Contradict

LEMMA ParseInv ==
    ASSUME DnsTypeOK, NEW i \in Importers, Parse(i)
    PROVE  DnsTypeOK' /\ WantsInv(i)' /\ LoopInv(i)' /\ (GapInv(i) => GapInv(i)')
  <1>1. upload[i] \in SUBSET Lines
    BY DEF DnsTypeOK
  <1>2. CASE Acceptable(upload[i]) /\ records' = [records EXCEPT ![i] = Pairs(upload[i])] /\ GoOn(i, "list")
             /\ UNCHANGED status
    <2>1. dnsPc' \in [Importers -> {"idle", "parse", "list", "apply"}] /\ dnsPc'[i] = "list"
      BY <1>2, GoOnIs
    <2>2. Pairs(upload[i]) \in SUBSET (Names \X Addresses)
      BY <1>1, PairsAre DEF Rewrites
    <2>3. records' \in [Importers -> SUBSET (Names \X Addresses)] /\ records'[i] = Pairs(upload[i])
      BY <1>2, <2>2 DEF DnsTypeOK
    <2>4. \A p, q \in records'[i] : p[1] = q[1] => p[2] = q[2]
      BY <1>1, <1>2, <2>3, PairsAre
    <2> QED
      BY <1>2, <2>1, <2>3, <2>4 DEF Parse, DnsTypeOK, WantsInv, LoopInv, GapInv, Answers
  <1>3. CASE Error(i) /\ UNCHANGED records
    <2>1. dnsPc' \in [Importers -> {"idle", "parse", "list", "apply"}] /\ dnsPc'[i] = "idle"
      BY <1>3, GoOnIs DEF Error
    <2> QED
      BY <1>3, <2>1 DEF Parse, Error, DnsTypeOK, WantsInv, LoopInv, GapInv, Answers
  <1> QED
    BY <1>2, <1>3 DEF Parse

\* The names to be changed are names of the pairs; of the others the answer is
\* the one wanted.
LEMMA ToChangeIs ==
    ASSUME NEW list \in Rewrites, NEW served
    PROVE  /\ ToChange(list, served) \subseteq {p[1] : p \in list}
           /\ ToChange(list, served) \subseteq Names
           /\ \A p \in list : p[1] \notin ToChange(list, served) => AnswersIn(served, p[1]) = {p[2]}
  BY DEF ToChange, Rewrites

LEMMA ListInv ==
    ASSUME DnsInv, NEW i \in Importers, List(i)
    PROVE  DnsTypeOK' /\ (OneImporter => WantsInv(i)' /\ LoopInv(i)' /\ GapInv(i)')
  <1>1. DnsTypeOK /\ rewrites \in Rewrites /\ records[i] \in Rewrites
    BY DEF DnsInv, DnsTypeOK, Rewrites
  <1>2. CASE Fails(i, rewrites)
    <2>1. OneImporter => GapInv(i)
      BY DEF DnsInv
    <2> QED
      BY <1>1, <1>2, <2>1, FailsIs, FailsInv DEF GapInv, Answers
  <1>3. CASE /\ existing' = [existing EXCEPT ![i] = rewrites]
             /\ left' = [left EXCEPT ![i] = ToChange(records[i], rewrites)]
             /\ answered' = [answered EXCEPT ![i] = {r[1] : r \in rewrites}]
             /\ GoOn(i, "apply")
             /\ UNCHANGED <<rewrites, status, upload, records, imports, failures>>
    <2>1. dnsPc' \in [Importers -> {"idle", "parse", "list", "apply"}] /\ dnsPc'[i] = "apply"
      BY <1>1, <1>3, GoOnIs
    <2>2. /\ existing' \in [Importers -> SUBSET (Names \X Addresses)] /\ existing'[i] = rewrites
          /\ left' \in [Importers -> SUBSET Names] /\ left'[i] = ToChange(records[i], rewrites)
          /\ answered' \in [Importers -> SUBSET Names] /\ answered'[i] = {r[1] : r \in rewrites}
      <3>1. {r[1] : r \in rewrites} \subseteq Names
        BY <1>1 DEF Rewrites
      <3> QED
        BY <1>1, <1>3, <3>1, ToChangeIs DEF DnsTypeOK
    <2>3. DnsTypeOK'
      BY <1>1, <1>3, <2>1, <2>2 DEF DnsTypeOK
    <2>4. \A n \in answered'[i] : Answers(n)' # {}
      BY <1>1, <1>3, <2>2, AnswersAre DEF Answers, Rewrites
    <2>5. OneImporter => WantsInv(i)'
      BY <1>3, <2>1 DEF DnsInv, List, WantsInv
    <2>6. LoopInv(i)'
      <3>1. records'[i] = records[i] /\ rewrites' = rewrites
        BY <1>3
      <3>2. left'[i] \subseteq {p[1] : p \in records'[i]}
        BY <1>1, <2>2, <3>1, ToChangeIs
      <3>3. \A n : AnswersIn(existing'[i], n) = Answers(n)'
        BY <2>2, <3>1 DEF Answers
      <3>4. \A p \in records'[i] : p[1] \notin left'[i] => Answers(p[1])' = {p[2]}
        <4>1. \A p \in records[i] : p[1] \notin ToChange(records[i], rewrites) => AnswersIn(rewrites, p[1]) = {p[2]}
          BY <1>1, ToChangeIs, Zenon
        <4> QED
          BY <2>2, <3>1, <4>1 DEF Answers
      <3> QED
        BY <2>4, <3>2, <3>3, <3>4 DEF LoopInv
    <2> QED
      BY <2>3, <2>4, <2>5, <2>6 DEF GapInv
  <1> QED
    BY <1>2, <1>3 DEF List

\* What the two loops know when they are at a name.
LEMMA AtName ==
    ASSUME DnsInv, OneImporter, NEW i \in Importers, dnsPc[i] = "apply", left[i] # {}
    PROVE  /\ NextName(i) \in left[i] /\ NextName(i) \in Nat
           /\ AnswersIn(existing[i], NextName(i)) = Answers(NextName(i))
           /\ \A n \in answered[i] : Answers(n) = {} => n = NextName(i)
           /\ \E p \in records[i] : NextName(i) = p[1] /\ AnswersIn(records[i], NextName(i)) = {p[2]}
  <1>1. left[i] \subseteq Names /\ records[i] \in Rewrites
    BY DEF DnsInv, DnsTypeOK, Rewrites
  <1>2. NextName(i) \in left[i] /\ NextName(i) \in Nat
    BY <1>1, NextNameIs, NamesAreNumbers
  <1>3. LoopInv(i) /\ WantsInv(i)
    BY DEF DnsInv
  <1>4. PICK p \in records[i] : NextName(i) = p[1]
    BY <1>2, <1>3 DEF LoopInv
  <1>5. AnswersIn(records[i], p[1]) = {p[2]}
    BY <1>1, <1>3, WantedIs DEF WantsInv
  <1> QED
    BY <1>2, <1>3, <1>4, <1>5 DEF LoopInv

LEMMA DeleteInv ==
    ASSUME DnsInv, NEW i \in Importers, Delete(i)
    PROVE  DnsTypeOK' /\ (OneImporter => WantsInv(i)' /\ LoopInv(i)' /\ GapInv(i)')
  <1> DEFINE n == NextName(i)
  <1>1. DnsTypeOK /\ rewrites \in Rewrites /\ existing[i] \in Rewrites /\ dnsPc[i] = "apply" /\ left[i] # {}
    BY DEF DnsInv, DnsTypeOK, Rewrites, Delete
  <1>2. PICK old \in AnswersIn(existing[i], n) :
           \/ /\ rewrites' = Less(rewrites, n, old)
              /\ existing' = [existing EXCEPT ![i] = Less(existing[i], n, old)]
              /\ UNCHANGED <<status, dnsPc, upload, records, left, imports, failures, answered>>
           \/ Fails(i, Less(rewrites, n, old))
    BY DEF Delete, Less
  <1> HIDE DEF n
  <1>3. Less(rewrites, n, old) \in Rewrites
    BY <1>1, AnswersLess
  <1>4. \A m : m # n => /\ AnswersIn(Less(rewrites, n, old), m) = Answers(m)
                        /\ AnswersIn(Less(existing[i], n, old), m) = AnswersIn(existing[i], m)
    BY <1>1, AnswersLess DEF Answers
  <1>5. AnswersIn(existing[i], n) = Answers(n) =>
            AnswersIn(Less(rewrites, n, old), n) = AnswersIn(Less(existing[i], n, old), n)
    <2>1. AnswersIn(Less(rewrites, n, old), n) = AnswersIn(rewrites, n) \ {old}
      BY <1>1, AnswersLess
    <2>2. AnswersIn(Less(existing[i], n, old), n) = AnswersIn(existing[i], n) \ {old}
      BY <1>1, AnswersLess
    <2> QED
      BY <2>1, <2>2 DEF Answers
  <1>6. OneImporter => /\ n \in left[i] /\ n \in Nat /\ AnswersIn(existing[i], n) = Answers(n)
                       /\ \A m \in answered[i] : Answers(m) = {} => m = n
    BY <1>1, AtName DEF n
  <1>7. CASE Fails(i, Less(rewrites, n, old))
    <2>1. OneImporter => \A m \in answered[i] : AnswersIn(Less(rewrites, n, old), m) = {} => m = n
      BY <1>4, <1>6
    <2> QED
      BY <1>1, <1>3, <1>7, <2>1, FailsIs, FailsInv
  <1>8. CASE /\ rewrites' = Less(rewrites, n, old)
             /\ existing' = [existing EXCEPT ![i] = Less(existing[i], n, old)]
             /\ UNCHANGED <<status, dnsPc, upload, records, left, imports, failures, answered>>
    <2>1. existing' \in [Importers -> SUBSET (Names \X Addresses)] /\ existing'[i] = Less(existing[i], n, old)
      <3>1. Less(existing[i], n, old) \in SUBSET (Names \X Addresses)
        BY <1>1, AnswersLess DEF Rewrites
      <3> QED
        BY <1>1, <1>8, <3>1 DEF DnsTypeOK
    <2>2. DnsTypeOK'
      BY <1>1, <1>3, <1>8, <2>1 DEF DnsTypeOK, Rewrites
    <2>3. \A m : Answers(m)' = AnswersIn(Less(rewrites, n, old), m)
      BY <1>8 DEF Answers
    <2>4. NextName(i)' = n
      BY <1>8 DEF NextName, n
    <2>5. OneImporter => WantsInv(i)'
      BY <1>8 DEF DnsInv, WantsInv
    <2>6. OneImporter => LoopInv(i)'
      <3> SUFFICES ASSUME OneImporter PROVE LoopInv(i)'
        OBVIOUS
      <3>1. LoopInv(i)
        BY DEF DnsInv
      <3>2. ASSUME NEW m \in left[i] PROVE AnswersIn(Less(existing[i], n, old), m) = AnswersIn(Less(rewrites, n, old), m)
        BY <1>1, <1>4, <1>5, <1>6, <3>1 DEF LoopInv
      <3>3. ASSUME NEW m \in answered[i], AnswersIn(Less(rewrites, n, old), m) = {} PROVE m = n
        BY <1>4, <1>6, <3>3
      <3>4. ASSUME NEW p \in records[i], p[1] \notin left[i] PROVE AnswersIn(Less(rewrites, n, old), p[1]) = {p[2]}
        BY <1>1, <1>4, <1>6, <3>1, <3>4 DEF LoopInv
      <3>5. left'[i] = left[i] /\ records'[i] = records[i] /\ answered'[i] = answered[i]
        BY <1>8
      <3>6. left[i] \subseteq {p[1] : p \in records[i]}
        BY <1>1, <3>1 DEF LoopInv
      <3> QED
        BY <1>6, <2>1, <2>3, <2>4, <3>2, <3>3, <3>4, <3>5, <3>6 DEF LoopInv
    <2>7. OneImporter => GapInv(i)'
      BY <1>4, <1>6, <1>8, <2>3 DEF GapInv
    <2> QED
      BY <2>2, <2>5, <2>6, <2>7
  <1> QED
    BY <1>2, <1>7, <1>8

LEMMA AddInv ==
    ASSUME DnsInv, NEW i \in Importers, Add(i)
    PROVE  DnsTypeOK' /\ (OneImporter => WantsInv(i)' /\ LoopInv(i)' /\ GapInv(i)')
  <1> DEFINE n == NextName(i)
             more == More(rewrites, n, records[i])
  <1>1. DnsTypeOK /\ rewrites \in Rewrites /\ records[i] \in Rewrites /\ dnsPc[i] = "apply" /\ left[i] # {}
    BY DEF DnsInv, DnsTypeOK, Rewrites, Add
  <1>2. /\ AnswersIn(existing[i], n) = {}
        /\ \/ /\ rewrites' = more /\ left' = [left EXCEPT ![i] = @ \ {n}]
              /\ UNCHANGED <<status, dnsPc, upload, records, existing, imports, failures, answered>>
           \/ Fails(i, more)
    BY DEF Add, More, NewOf
  <1>3. more \in Rewrites /\ AnswersIn(more, n) = Answers(n) \cup AnswersIn(records[i], n)
        /\ \A m : m # n => AnswersIn(more, m) = Answers(m)
    <2> HIDE DEF n
    <2>0. more \in Rewrites
      BY <1>1, AnswersMore
    <2>1. AnswersIn(more, n) = AnswersIn(rewrites, n) \cup AnswersIn(records[i], n)
      BY <1>1, AnswersMore
    <2>2. \A m : m # n => AnswersIn(more, m) = AnswersIn(rewrites, m)
      BY <1>1, AnswersMore
    <2> QED
      BY <2>0, <2>1, <2>2 DEF Answers
  <1>4. OneImporter => /\ n \in left[i] /\ n \in Nat /\ Answers(n) = {}
                       /\ \A m \in answered[i] : Answers(m) = {} => m = n
                       /\ \E p \in records[i] : n = p[1] /\ AnswersIn(records[i], n) = {p[2]}
    BY <1>1, <1>2, AtName
  <1> HIDE DEF n, more
  <1>5. OneImporter => \A m \in answered[i] : AnswersIn(more, m) # {}
    BY <1>3, <1>4
  <1>6. CASE Fails(i, more)
    BY <1>1, <1>3, <1>5, <1>4, <1>6, FailsIs, FailsInv
  <1>7. CASE /\ rewrites' = more /\ left' = [left EXCEPT ![i] = @ \ {n}]
             /\ UNCHANGED <<status, dnsPc, upload, records, existing, imports, failures, answered>>
    <2>1. left' \in [Importers -> SUBSET Names] /\ left'[i] = left[i] \ {n}
      BY <1>1, <1>7 DEF DnsTypeOK
    <2>2. DnsTypeOK'
      BY <1>1, <1>3, <1>7, <2>1 DEF DnsTypeOK, Rewrites
    <2>3. \A m : Answers(m)' = AnswersIn(more, m)
      BY <1>7 DEF Answers
    <2>4. OneImporter => WantsInv(i)'
      BY <1>7 DEF DnsInv, WantsInv
    <2>5. OneImporter => LoopInv(i)'
      <3> SUFFICES ASSUME OneImporter PROVE LoopInv(i)'
        OBVIOUS
      <3>1. LoopInv(i) /\ WantsInv(i)
        BY DEF DnsInv
      <3>2. ASSUME NEW m \in left[i] \ {n} PROVE AnswersIn(existing[i], m) = AnswersIn(more, m)
        BY <1>1, <1>3, <3>1, <3>2 DEF LoopInv
      <3>3. ASSUME NEW p \in records[i], p[1] \notin left[i] \ {n} PROVE AnswersIn(more, p[1]) = {p[2]}
        <4>1. CASE p[1] = n
          BY <1>1, <1>3, <1>4, <3>1, <4>1, WantedIs DEF WantsInv
        <4>2. CASE p[1] # n
          BY <1>1, <1>3, <3>1, <3>3, <4>2 DEF LoopInv
        <4> QED
          BY <4>1, <4>2
      <3>4. records'[i] = records[i] /\ answered'[i] = answered[i] /\ existing'[i] = existing[i]
        BY <1>7
      <3>5. left[i] \ {n} \subseteq {p[1] : p \in records[i]}
        BY <1>1, <3>1 DEF LoopInv
      <3> QED
        BY <1>5, <2>1, <2>3, <3>2, <3>3, <3>4, <3>5 DEF LoopInv
    <2>6. OneImporter => GapInv(i)'
      BY <1>4, <1>5, <1>7, <2>3 DEF GapInv
    <2> QED
      BY <2>2, <2>4, <2>5, <2>6
  <1> QED
    BY <1>2, <1>6, <1>7

LEMMA VerifyInv ==
    ASSUME DnsInv, NEW i \in Importers, Verify(i)
    PROVE  DnsTypeOK' /\ (OneImporter => WantsInv(i)' /\ LoopInv(i)' /\ GapInv(i)')
  <1>1. DnsTypeOK /\ rewrites \in Rewrites
    BY DEF DnsInv, DnsTypeOK, Rewrites
  <1>2. CASE Fails(i, rewrites)
    <2>1. OneImporter => GapInv(i)
      BY DEF DnsInv
    <2> QED
      BY <1>1, <1>2, <2>1, FailsIs, FailsInv DEF GapInv, Answers
  <1>3. CASE /\ GoOn(i, "idle") /\ status' \in {"ok", "error"}
             /\ UNCHANGED <<rewrites, dnsLocal, imports, failures, answered>>
    <2>1. dnsPc' \in [Importers -> {"idle", "parse", "list", "apply"}] /\ dnsPc'[i] = "idle"
      BY <1>1, <1>3, GoOnIs
    <2> QED
      BY <1>1, <1>3, <2>1 DEF DnsInv, DnsTypeOK, dnsLocal, WantsInv, LoopInv, GapInv, Answers
  <1> QED
    BY <1>2, <1>3 DEF Verify, Error

-----------------------------------------------------------------------------

LEMMA DnsInitInv == DnsInit => DnsInv
  <1> SUFFICES ASSUME DnsInit PROVE DnsInv
    OBVIOUS
  <1>1. PICK ns \in SUBSET Names, as \in SUBSET Addresses : rewrites = ns \X as
    BY DEF DnsInit
  <1>2. rewrites \subseteq Names \X Addresses
    BY <1>1
  <1>3. DnsTypeOK
    BY <1>2, ImportAssumption DEF DnsInit, DnsTypeOK
  <1>4. \A i \in Importers : dnsPc[i] = "idle" /\ answered[i] = {}
    BY DEF DnsInit
  <1> QED
    BY <1>3, <1>4 DEF DnsInv, WantsInv, LoopInv, GapInv

LEMMA DnsNextInv ==
    ASSUME DnsInv, [DnsNext]_dnsVars
    PROVE  DnsInv'
  <1>1. CASE UNCHANGED dnsVars
    BY <1>1 DEF dnsVars, dnsLocal, DnsInv, DnsTypeOK, WantsInv, LoopInv, GapInv, Answers, NextName, OneImporter
  <1>2. ASSUME NEW i \in Importers, BeginImport(i) \/ ImportStep(i)
        PROVE  DnsInv'
    <2>1. DnsTypeOK' /\ (OneImporter => WantsInv(i)' /\ LoopInv(i)' /\ GapInv(i)')
      BY <1>2, BeginInv, ParseInv, ListInv, DeleteInv, AddInv, VerifyInv DEF DnsInv, ImportStep
    <2>2. OneImporter => \A j \in Importers : j = i
      BY DEF OneImporter
    <2> QED
      BY <2>1, <2>2 DEF DnsInv, OneImporter
  <1> QED
    BY <1>1, <1>2 DEF DnsNext

\* The invariant is one.
THEOREM DnsInvariance == DnsSpec => []DnsInv
  BY DnsInitInv, DnsNextInv, PTL DEF DnsSpec

\* At most one name is without its answer while an import runs.
LEMMA GapFollows ==
    ASSUME DnsInv', OneImporter
    PROVE  GapIsOne'
  <1>1. ASSUME NEW i \in Importers PROVE Cardinality({n \in answered'[i] : Answers(n)' = {}}) <= 1
    <2>1. \A m, n \in {n \in answered'[i] : Answers(n)' = {}} : m = n
      BY DEF DnsInv, GapInv, OneImporter
    <2> QED
      BY <2>1, OneAtMost
  <1> QED
    BY <1>1 DEF GapIsOne

\* An import succeeds only when its loop has come to the end.
LEMMA SuccessFollows ==
    ASSUME DnsInv, OneImporter, [DnsNext]_dnsVars
    PROVE  OkMeansServed
  <1> SUFFICES ASSUME NEW i \in Importers, Succeeds(i), NEW p \in records[i]
               PROVE  Answers(p[1])' = {p[2]}
    BY DEF OkMeansServed
  <1>1. dnsPc[i] = "apply" /\ dnsPc'[i] = "idle" /\ status' = "ok" /\ DnsTypeOK /\ rewrites \in Rewrites
    BY DEF Succeeds, DnsInv, DnsTypeOK, Rewrites
  <1>2. BeginImport(i) \/ ImportStep(i)
    BY <1>1 DEF DnsNext, OneImporter, dnsVars
  <1>3. \A effect : ~Fails(i, effect)
    BY <1>1 DEF Fails, Error
  <1>4. Verify(i)
    BY <1>1, <1>2, <1>3 DEF BeginImport, ImportStep, Parse, List, Delete, Add
  <1>5. left[i] = {} /\ rewrites' = rewrites
    BY <1>3, <1>4 DEF Verify
  <1> QED
    BY <1>1, <1>5 DEF DnsInv, LoopInv, Answers

\* An import that reports success has served its names, and leaves no two names
\* without an answer, for any bindings and any number of requests that fail.
THEOREM Served == DnsSpec => NamesAreServed
  <1>1. DnsInv /\ DnsInv' /\ [DnsNext]_dnsVars
            => [DnsTypeOK' /\ (OneImporter => GapIsOne' /\ OkMeansServed)]_dnsVars
    <2> SUFFICES ASSUME DnsInv, DnsInv', [DnsNext]_dnsVars
                 PROVE  DnsTypeOK' /\ (OneImporter => GapIsOne' /\ OkMeansServed)
      OBVIOUS
    <2> QED
      BY GapFollows, SuccessFollows DEF DnsInv
  <1> QED
    BY <1>1, DnsInvariance, PTL DEF DnsSpec, NamesAreServed

-----------------------------------------------------------------------------
(* The exterior lights: their invariant.                                   *)

\* A timer that finished runs no more until its release is run, a running one has
\* the light on, and what a timer's flag says of a light the user put on.
DueInv == \A t \in due : lightTimer[t] = 0
FlagInv ==
    owner = "user" =>
        light /\ \A t \in Timed : Active(t) \/ t \in due => preexisting[t]
LightsInv == LightsTypeOK /\ DueInv /\ DemandIsKept /\ FlagInv

\* A request starts its timer, keeps the light on and notes what was on before.
LEMMA RequestIs ==
    ASSUME LightsTypeOK, NEW t \in Timed, Request(t)
    PROVE  /\ lightTimer' \in [Timed -> Nat] /\ preexisting' \in [Timed -> BOOLEAN]
           /\ lightTimer'[t] = Duration[t] /\ light' = TRUE
           /\ owner' = IF light THEN owner ELSE "demand"
           /\ preexisting'[t] = IF Active(t) THEN preexisting[t] ELSE light
           /\ \A s \in Timed \ {t} : lightTimer'[s] = lightTimer[s] /\ preexisting'[s] = preexisting[s]
  <1>1. Duration[t] \in Nat
    BY DemandAssumption
  <1> QED
    BY <1>1 DEF Request, SwitchOn, LightsTypeOK

LEMMA RequestInv ==
    ASSUME LightsInv, NEW t \in Timed, Request(t), due = {}, due' = {}
    PROVE  /\ light' \in BOOLEAN /\ lightTimer' \in [Timed -> Nat] /\ preexisting' \in [Timed -> BOOLEAN]
           /\ \A s \in Timed : lightTimer'[s] <= Duration[s]
           /\ owner' \in {"user", "demand", "none"}
           /\ DueInv' /\ DemandIsKept' /\ FlagInv'
  <1>0. /\ LightsTypeOK /\ lightTimer' \in [Timed -> Nat] /\ preexisting' \in [Timed -> BOOLEAN]
        /\ lightTimer'[t] = Duration[t] /\ light' = TRUE
        /\ owner' = IF light THEN owner ELSE "demand"
        /\ preexisting'[t] = IF Active(t) THEN preexisting[t] ELSE light
        /\ \A s \in Timed \ {t} : lightTimer'[s] = lightTimer[s] /\ preexisting'[s] = preexisting[s]
    BY RequestIs DEF LightsInv
  <1>1. \A s \in Timed : lightTimer'[s] <= Duration[s]
    <2>1. Duration[t] \in Nat /\ Duration[t] <= Duration[t]
      BY DemandAssumption
    <2>2. \A s \in Timed : lightTimer[s] <= Duration[s]
      BY <1>0 DEF LightsTypeOK
    <2> QED
      BY <1>0, <2>1, <2>2
  <1>2. ASSUME owner' = "user" PROVE light' /\ \A s \in Timed : preexisting'[s] \/ ~(lightTimer'[s] > 0)
    <2>1. owner = "user" /\ light
      BY <1>0, <1>2
    <2>2. \A s \in Timed : preexisting[s] \/ ~(lightTimer[s] > 0)
      BY <2>1 DEF FlagInv, Active, LightsInv
    <2>3. ASSUME NEW s \in Timed PROVE preexisting'[s] \/ ~(lightTimer'[s] > 0)
      <3>1. CASE s = t
        BY <1>0, <2>1, <2>2, <3>1 DEF Active
      <3>2. CASE s # t
        BY <1>0, <2>2, <3>2
      <3> QED
        BY <3>1, <3>2
    <2> QED
      BY <1>0, <2>3
  <1>3. FlagInv'
    BY <1>2 DEF FlagInv, Active
  <1> QED
    BY <1>0, <1>1, <1>3 DEF LightsTypeOK, DueInv, DemandIsKept

LEMMA DepartInv ==
    ASSUME LightsInv, NEW s \in Sources, Depart(s)
    PROVE  LightsInv'
  <1>1. 1 \in 0..MinimumAway + 1
    BY PresenceAssumption
  <1>2. events' \in 0..Events
    BY PresenceAssumption DEF Depart, Happens, LightsInv, LightsTypeOK
  <1> QED
    BY <1>1, <1>2 DEF Depart, Happens, Leave, LightsInv, LightsTypeOK, DueInv, DemandIsKept, FlagInv, Active

LEMMA ArriveInv ==
    ASSUME LightsInv, NEW s \in Sources, Arrive(s)
    PROVE  LightsInv'
  <1>1. 0 \in 0..MinimumAway + 1 /\ away' \in [Sources -> 0..MinimumAway + 1]
    BY PresenceAssumption DEF Arrive, LightsInv, LightsTypeOK
  <1>2. CASE Request("welcome")
    <2>1. "welcome" \in Timed /\ due = {} /\ due' = {}
      BY DEF Timed, Arrive
    <2> QED
      BY <1>1, <1>2, <2>1, RequestInv DEF Arrive, LightsInv, LightsTypeOK
  <1>3. CASE Leave /\ UNCHANGED <<lightTimer, preexisting>>
    BY <1>1, <1>3 DEF Arrive, Leave, LightsInv, LightsTypeOK, DueInv, DemandIsKept, FlagInv, Active
  <1> QED
    BY <1>2, <1>3 DEF Arrive

\* An event is counted up to its bound.
LEMMA HappensIs == LightsTypeOK /\ Happens => events' \in 0..Events /\ due = {} /\ use' = use
  BY PresenceAssumption DEF Happens, LightsTypeOK

LEMMA DemandInv ==
    ASSUME LightsInv, OpenDoor \/ Ring
    PROVE  LightsInv'
  <1> USE HappensIs DEF LightsInv
  <1>1. CASE OpenDoor
    <2>1. "door" \in Timed /\ due = {} /\ due' = {}
      BY <1>1 DEF Timed, OpenDoor
    <2> QED
      BY <1>1, <2>1, RequestInv DEF OpenDoor, LightsTypeOK
  <1>2. CASE Ring
    <2>1. "bell" \in Timed /\ due = {} /\ due' = {}
      BY <1>2 DEF Timed, Ring
    <2> QED
      BY <1>2, <2>1, RequestInv DEF Ring, LightsTypeOK
  <1> QED
    BY <1>1, <1>2

LEMMA MotionInv ==
    ASSUME LightsInv, MotionBegins \/ MotionEnds \/ UseSwitch
    PROVE  LightsInv'
  <1> USE HappensIs DEF LightsInv, LightsTypeOK, DueInv, DemandIsKept, FlagInv, Active
  <1>1. CASE MotionBegins
    BY <1>1 DEF MotionBegins, SwitchOn
  <1>2. CASE MotionEnds
    BY <1>2 DEF MotionEnds, SwitchOff, Leave
  <1>3. CASE UseSwitch
    <2>1. UNCHANGED <<use, lightTimer, preexisting, due, occupancy, away>> /\ events' \in 0..Events /\ due = {}
      BY <1>3 DEF UseSwitch, Happens
    <2>2. light' \in BOOLEAN /\ owner' \in {"user", "demand", "none"} /\ (owner' = "user" => light')
      BY <1>3 DEF UseSwitch
    <2>3. \A t \in Timed : ~(lightTimer[t] > 0)
      BY <1>3 DEF UseSwitch
    <2> QED
      BY <2>1, <2>2, <2>3
  <1> QED
    BY <1>1, <1>2, <1>3

LEMMA TickInv ==
    ASSUME LightsInv, Tick
    PROVE  LightsInv'
  <1> USE DEF LightsInv, LightsTypeOK
  <1>1. away' \in [Sources -> 0..MinimumAway + 1]
    <2>1. \A s \in Sources : (IF away[s] \in 1..MinimumAway THEN away[s] + 1 ELSE away[s]) \in 0..MinimumAway + 1
      BY PresenceAssumption
    <2> QED
      BY <2>1 DEF Tick
  <1>2. lightTimer' \in [Timed -> Nat] /\ due' \subseteq Timed
        /\ \A t \in Timed : /\ lightTimer'[t] <= Duration[t]
                            /\ Active(t)' \/ t \in due' => Active(t)
                            /\ t \in due' => lightTimer'[t] = 0
    BY DemandAssumption DEF Tick, Active
  <1>3. DemandIsKept' /\ DueInv' /\ FlagInv'
    <2>1. UNCHANGED <<light, owner, preexisting>>
      BY DEF Tick, Leave
    <2> QED
      BY <1>2, <2>1 DEF DemandIsKept, DueInv, FlagInv
  <1> QED
    BY <1>1, <1>2, <1>3 DEF Tick, Leave

\* Each release looks at the two other timers.
LEMMA ReleaseInv ==
    ASSUME LightsInv, Releases
    PROVE  LightsInv' /\ UserLightIsKept
  <1>1. PICK t \in Timed, condition \in BOOLEAN :
            Release(t, condition) /\ (condition => \A s \in Timed : s = t \/ ~Active(s))
    BY DEF Releases, ReleaseDoor, ReleaseWelcome, ReleaseBell, Timed
  <1>2. ~Active(t)
    BY <1>1 DEF Release, LightsInv, DueInv, Active
  <1>3. CASE SwitchOff /\ ~preexisting[t] /\ condition
    <2>1. light' = FALSE /\ owner' = "none" /\ owner # "user" /\ \A s \in Timed : ~Active(s)
      BY <1>1, <1>2, <1>3 DEF Release, SwitchOff, LightsInv, FlagInv
    <2>2. UNCHANGED <<use, lightTimer, preexisting, occupancy, away, events>> /\ due' \subseteq due
      BY <1>1 DEF Release
    <2> QED
      BY <2>1, <2>2 DEF LightsInv, LightsTypeOK, DueInv, DemandIsKept, FlagInv, Active, UserLightIsKept
  <1>4. CASE Leave
    BY <1>1, <1>4 DEF Release, Leave, LightsInv, LightsTypeOK, DueInv, DemandIsKept, FlagInv, Active, UserLightIsKept
  <1> QED
    BY <1>1, <1>3, <1>4 DEF Release

LEMMA LightsInitInv == LightsInit => LightsInv
  <1> SUFFICES ASSUME LightsInit PROVE LightsInv
    OBVIOUS
  <1>1. 0 \in 0..MinimumAway + 1 /\ 0 \in 0..Events
    BY PresenceAssumption
  <1>2. \A t \in Timed : Duration[t] \in Nat /\ 0 <= Duration[t]
    BY DemandAssumption
  <1>3. \A t \in Timed : lightTimer[t] = 0
    BY DEF LightsInit
  <1>4. LightsTypeOK
    BY <1>1, <1>2, <1>3 DEF LightsInit, LightsTypeOK
  <1> QED
    BY <1>3, <1>4 DEF LightsInit, LightsInv, DueInv, DemandIsKept, FlagInv, Active

LEMMA LightsNextInv ==
    ASSUME LightsInv, [LightsNext]_lightsVars
    PROVE  LightsInv'
  <1>1. CASE UNCHANGED lightsVars
    BY <1>1 DEF lightsVars, LightsInv, LightsTypeOK, DueInv, DemandIsKept, FlagInv, Active
  <1> QED
    BY <1>1, DepartInv, ArriveInv, DemandInv, MotionInv, TickInv, ReleaseInv DEF LightsNext

\* The invariant is one.
THEOREM LightsInvariance == LightsSpec => []LightsInv
  BY LightsInitInv, LightsNextInv, PTL DEF LightsSpec

\* No timer's release takes the light from another timer or from the user,
\* whichever automations there are, for any durations.
THEOREM LightKept == LightsSpec => LightIsKept
  <1>1. LightsInv /\ LightsInv' /\ [LightsNext]_lightsVars
            => [LightsTypeOK' /\ UserLightIsKept /\ DemandIsKept']_lightsVars
    <2> SUFFICES ASSUME LightsInv, LightsInv', [LightsNext]_lightsVars
                 PROVE  LightsTypeOK' /\ DemandIsKept' /\ (Releases => UserLightIsKept)
      BY DEF UserLightIsKept
    <2> QED
      BY ReleaseInv DEF LightsInv
  <1> QED
    BY <1>1, LightsInvariance, PTL DEF LightsSpec, LightIsKept

-----------------------------------------------------------------------------
(* The router's power: its invariant.                                      *)

\* A reboot is under way, or its cool-down lasts, unless the last cut is long past.
PaceInv ==
    /\ ~cooldown => sinceCut = Cooldown
    /\ run["reboot"].step \in {"lease", "cut"} => sinceCut = Cooldown
    /\ run["reboot"].step = "cut" => cooldown
    /\ run["reboot"].step = "cooled" => sinceCut + run["reboot"].left >= Cooldown

\* Without a restart the stale-arm automation counts as long as the arm lasts.
ArmInv ==
    NoRestart =>
        /\ up /\ powerBudget["restart"] = 0
        /\ rebootArmed => stale + armedFor = ArmTimeout
        /\ ~rebootArmed => stale = Never /\ armedFor = 0

\* A socket that is off is about to be switched on by the guard, or by the forced
\* restoration in time.
OffInv ==
    NoRestart /\ GuardsWork =>
        /\ off <= ForceDelay
        /\ ~power => \/ run["guard"] = Now("on")
                     \/ run["force"].step = "on" /\ off + run["force"].left <= ForceDelay

PowerInv == PowerTypeOK /\ PaceInv /\ ArmInv /\ OffInv

-----------------------------------------------------------------------------

Steps == {"none", "disarm", "lease", "cut", "restore", "release", "cooled", "on"}
RunStates == [step : Steps, left : Nat]

\* The numbers.
LEMMA Delays ==
    /\ OffDelay \in Nat /\ ForceDelay \in Nat /\ ArmDelay \in Nat /\ ArmTimeout \in Nat /\ Cooldown \in Nat
    /\ Cooldown > 0 /\ ArmTimeout > 0 /\ ArmTimeout < Never /\ Never \in Nat
  BY DelayAssumption DEF Never

\* The states of a run.
LEMMA RunStatesAre ==
    /\ NoRun \in RunStates /\ NoRun.step = "none" /\ NoRun.left = 0
    /\ \A s \in Steps : Now(s) \in RunStates /\ Now(s).step = s /\ Now(s).left = 0
    /\ \A s \in Steps, d \in Nat : After(d, s) \in RunStates /\ After(d, s).step = s /\ After(d, s).left = d
  BY DEF NoRun, Now, After, RunStates, Steps

LEMMA StepsAre ==
    {"none", "disarm", "lease", "cut", "restore", "release", "cooled", "on"} \subseteq Steps
    /\ {"arm", "reboot", "guard", "force", "startup"} \subseteq Runs
  BY DEF Steps, Runs

\* One run moves on.
OtherRuns(r) == \A s \in Runs : s # r => run'[s] = run[s]

LEMMA SetRunIs ==
    ASSUME run \in [Runs -> RunStates], NEW r \in Runs, NEW next \in RunStates, SetRun(r, next)
    PROVE  run' \in [Runs -> RunStates] /\ run'[r] = next /\ OtherRuns(r)
  BY DEF SetRun, OtherRuns

\* What the change to "off" starts.
LEMMA PoweredOffIs ==
    ASSUME NEW runs \in [Runs -> RunStates]
    PROVE  /\ PoweredOff(runs) \in [Runs -> RunStates]
           /\ \A s \in Runs : s \notin {"guard", "force"} => PoweredOff(runs)[s] = runs[s]
           /\ \/ PoweredOff(runs)["guard"] = Now("on")
              \/ PoweredOff(runs)["force"].step = "on" /\ PoweredOff(runs)["force"].left = ForceDelay
  <1>1. CASE lease
    <2>1. PoweredOff(runs) = [runs EXCEPT !["force"] = After(ForceDelay, "on")]
      BY <1>1 DEF PoweredOff
    <2>2. After(ForceDelay, "on") \in RunStates /\ "force" \in Runs
          /\ After(ForceDelay, "on").step = "on" /\ After(ForceDelay, "on").left = ForceDelay
      BY RunStatesAre, StepsAre, Delays
    <2> QED
      BY <2>1, <2>2
  <1>2. CASE ~lease
    <2>1. PoweredOff(runs) = [runs EXCEPT !["guard"] = Now("on")]
      BY <1>2 DEF PoweredOff
    <2>2. Now("on") \in RunStates /\ "guard" \in Runs
      BY RunStatesAre, StepsAre
    <2> QED
      BY <2>1, <2>2
  <1> QED
    BY <1>1, <1>2

\* A disturbance is spent.
LEMMA DisturbIs ==
    ASSUME powerBudget \in [Disturbances -> Nat], NEW m \in Disturbances, Disturb(m)
    PROVE  /\ powerBudget' \in [Disturbances -> Nat] /\ powerBudget[m] > 0
           /\ m # "restart" => powerBudget'["restart"] = powerBudget["restart"]
  BY DEF Disturb, Disturbances

LEMMA SumBounds == ASSUME NEW m \in Nat, NEW n \in Nat PROVE n <= m + n
  OBVIOUS

\* The types in the words of this module.
LEMMA TypesAre ==
    PowerTypeOK => run \in [Runs -> RunStates] /\ powerBudget \in [Disturbances -> Nat] /\ stale \in Nat
                   /\ off \in Nat /\ sinceCut \in Nat /\ armedFor \in Nat
  BY Delays DEF PowerTypeOK, RunStates, Steps

\* Switching the arm.
LEMMA SetArmedIs ==
    ASSUME PowerTypeOK, ArmInv, NEW value \in BOOLEAN, SetArmed(value)
    PROVE  /\ rebootArmed' = value /\ stale' \in 0..ArmTimeout \cup {Never} /\ armedFor' \in 0..ArmTimeout + 1
           /\ NoRestart => /\ rebootArmed' => stale' + armedFor' = ArmTimeout
                           /\ ~rebootArmed' => stale' = Never /\ armedFor' = 0
  BY Delays DEF SetArmed, PowerTypeOK, ArmInv

-----------------------------------------------------------------------------
(* The steps.                                                              *)

\* A step that leaves the socket, the arm and the clocks.
Quiet == UNCHANGED <<setting, power, rebootArmed, stale, up, powerBudget, off, sinceCut, armedFor>>

\* A run that neither guards nor reboots moves on.
LEMMA ArmRunInv ==
    ASSUME PowerInv, PressArm \/ Disarm \/ ClearStaleArm
    PROVE  PowerInv'
  <1> USE DEF PowerInv
  <1>1. PICK value \in BOOLEAN : SetArmed(value)
    BY DEF PressArm, Disarm, ClearStaleArm
  <1>2. run' \in [Runs -> RunStates] /\ OtherRuns("arm")
    <2>1. "arm" \in Runs /\ NoRun \in RunStates /\ After(ArmDelay, "disarm") \in RunStates
      BY RunStatesAre, StepsAre, Delays
    <2>2. CASE PressArm
      BY <2>1, <2>2, SetRunIs, TypesAre DEF PressArm
    <2>3. CASE Disarm
      BY <2>1, <2>3, SetRunIs, TypesAre DEF Disarm
    <2>4. CASE ClearStaleArm
      BY <2>4, TypesAre DEF ClearStaleArm, OtherRuns
    <2> QED
      BY <2>2, <2>3, <2>4
  <1>3. /\ UNCHANGED <<setting, power, lease, cooldown, up, off, sinceCut>>
        /\ powerBudget' \in [Disturbances -> Nat] /\ powerBudget'["restart"] = powerBudget["restart"]
    <2>1. "press" \in Disturbances /\ "press" # "restart"
      BY DEF Disturbances
    <2> QED
      BY <2>1, DisturbIs, TypesAre DEF PressArm, Disarm, ClearStaleArm
  <1>4. run'["reboot"] = run["reboot"] /\ run'["guard"] = run["guard"] /\ run'["force"] = run["force"]
    BY <1>2, StepsAre DEF OtherRuns
  <1>5. PowerTypeOK'
    BY <1>1, <1>2, <1>3, SetArmedIs DEF PowerTypeOK, RunStates, Steps
  <1>6. PaceInv'
    BY <1>3, <1>4 DEF PaceInv
  <1>7. ArmInv'
    BY <1>1, <1>3, SetArmedIs DEF ArmInv, NoRestart
  <1>8. OffInv'
    BY <1>3, <1>4 DEF OffInv, NoRestart, GuardsWork
  <1> QED
    BY <1>5, <1>6, <1>7, <1>8

\* The controlled reboot takes its arm.
LEMMA PressRebootInv ==
    ASSUME PowerInv, PressReboot
    PROVE  PowerInv'
  <1> USE DEF PowerInv
  <1>1. SetArmed(FALSE) /\ FALSE \in BOOLEAN
    BY DEF PressReboot
  <1>2. run' \in [Runs -> RunStates] /\ OtherRuns("reboot") /\ run'["reboot"].step = "lease"
    BY SetRunIs, TypesAre, RunStatesAre, StepsAre DEF PressReboot
  <1>3. UNCHANGED <<setting, power, lease, cooldown, up, powerBudget, off, sinceCut>> /\ ~cooldown
    BY DEF PressReboot
  <1>4. run'["guard"] = run["guard"] /\ run'["force"] = run["force"]
    BY <1>2, StepsAre DEF OtherRuns
  <1>5. PowerTypeOK'
    BY <1>1, <1>2, <1>3, SetArmedIs DEF PowerTypeOK, RunStates, Steps
  <1>6. PaceInv'
    BY <1>2, <1>3 DEF PaceInv
  <1>7. ArmInv'
    BY <1>1, <1>3, SetArmedIs DEF ArmInv, NoRestart
  <1>8. OffInv'
    BY <1>3, <1>4 DEF OffInv, NoRestart, GuardsWork
  <1> QED
    BY <1>5, <1>6, <1>7, <1>8

\* The steps of the reboot beside its calls to the socket.
LEMMA RebootInv ==
    ASSUME PowerInv, TakeLease \/ ReleaseLease \/ Cooled
    PROVE  PowerInv'
  <1> USE DEF PowerInv
  <1>1. Quiet /\ lease' \in BOOLEAN /\ cooldown' \in BOOLEAN
    BY DEF TakeLease, ReleaseLease, Cooled, Quiet, ghosts, PowerTypeOK
  <1>2. /\ run' \in [Runs -> RunStates] /\ OtherRuns("reboot")
        /\ \/ run["reboot"].step = "lease" /\ cooldown' /\ run'["reboot"].step = "cut"
           \/ cooldown' = cooldown /\ run'["reboot"].step = "cooled" /\ run'["reboot"].left = Cooldown
           \/ run["reboot"].step = "cooled" /\ run["reboot"].left = 0 /\ run'["reboot"].step = "none"
    <2>1. /\ "reboot" \in Runs /\ NoRun \in RunStates /\ Now("cut") \in RunStates
          /\ After(Cooldown, "cooled") \in RunStates
      BY RunStatesAre, StepsAre, Delays
    <2>2. CASE TakeLease
      BY <2>1, <2>2, SetRunIs, TypesAre, RunStatesAre, StepsAre DEF TakeLease, Due
    <2>3. CASE ReleaseLease
      BY <2>1, <2>3, SetRunIs, TypesAre, RunStatesAre, StepsAre, Delays DEF ReleaseLease, Due
    <2>4. CASE Cooled
      BY <2>1, <2>4, SetRunIs, TypesAre, RunStatesAre, StepsAre DEF Cooled, Due
    <2> QED
      BY <2>2, <2>3, <2>4
  <1>3. run'["guard"] = run["guard"] /\ run'["force"] = run["force"]
    BY <1>2, StepsAre DEF OtherRuns
  <1>4. PowerTypeOK'
    BY <1>1, <1>2 DEF PowerTypeOK, RunStates, Steps, Quiet
  <1>5. PaceInv'
    <2>1. sinceCut' = sinceCut /\ sinceCut \in Nat /\ sinceCut <= Cooldown /\ Cooldown \in Nat
      BY <1>1, Delays DEF Quiet, PowerTypeOK
    <2>2. CASE run["reboot"].step = "lease" /\ cooldown' /\ run'["reboot"].step = "cut"
      BY <2>1, <2>2 DEF PaceInv
    <2>3. CASE cooldown' = cooldown /\ run'["reboot"].step = "cooled" /\ run'["reboot"].left = Cooldown
      BY <2>1, <2>3 DEF PaceInv
    <2>4. CASE run["reboot"].step = "cooled" /\ run["reboot"].left = 0 /\ run'["reboot"].step = "none"
      BY <2>1, <2>4 DEF PaceInv
    <2> QED
      BY <1>2, <2>2, <2>3, <2>4
  <1>6. ArmInv'
    BY <1>1 DEF ArmInv, NoRestart, Quiet
  <1>7. OffInv'
    BY <1>1, <1>3 DEF OffInv, NoRestart, GuardsWork, Quiet
  <1> QED
    BY <1>4, <1>5, <1>6, <1>7

\* A lease is released by an automation.
LEMMA ReleasedInv ==
    ASSUME PowerInv, ForceRelease \/ StartupRelease
    PROVE  PowerInv'
  <1> USE DEF PowerInv
  <1>1. Quiet /\ lease' \in BOOLEAN /\ cooldown' = cooldown
    BY DEF ForceRelease, StartupRelease, Quiet, ghosts
  <1>2. PICK r \in {"force", "startup"} : Due(r, "release") /\ SetRun(r, NoRun)
    BY DEF ForceRelease, StartupRelease
  <1>3. run' \in [Runs -> RunStates] /\ OtherRuns(r) /\ run[r].step = "release"
    <2>1. r \in Runs /\ NoRun \in RunStates
      BY <1>2, RunStatesAre, StepsAre
    <2> QED
      BY <1>2, <2>1, SetRunIs, TypesAre, RunStatesAre, StepsAre DEF Due
  <1>4. /\ run'["reboot"] = run["reboot"] /\ run'["guard"] = run["guard"]
        /\ run["force"].step = "on" => run'["force"] = run["force"]
    BY <1>2, <1>3, StepsAre DEF OtherRuns
  <1>5. PowerTypeOK'
    BY <1>1, <1>3 DEF PowerTypeOK, RunStates, Steps, Quiet
  <1>6. PaceInv' /\ ArmInv'
    BY <1>1, <1>4 DEF PaceInv, ArmInv, NoRestart, Quiet
  <1>7. OffInv'
    BY <1>1, <1>4 DEF OffInv, NoRestart, GuardsWork, Quiet
  <1> QED
    BY <1>5, <1>6, <1>7

\* A call to switch the socket on.
LEMMA TurnOnIs ==
    ASSUME PowerInv, NEW r \in Runs, NEW name, NEW next \in RunStates, TurnOn(r, name, next)
    PROVE  /\ run' \in [Runs -> RunStates] /\ OtherRuns(r) /\ run'[r] \in {next, NoRun}
           /\ powerBudget' \in [Disturbances -> Nat] /\ powerBudget'["restart"] = powerBudget["restart"]
           /\ power' \in BOOLEAN /\ (power' \/ (power' = power /\ name \in setting.fails))
  <1>0. PowerTypeOK /\ NoRun \in RunStates /\ "fail" \in Disturbances /\ "fail" # "restart"
    BY RunStatesAre DEF PowerInv, Disturbances
  <1>1. CASE power' = TRUE /\ SetRun(r, next) /\ UNCHANGED powerBudget
    BY <1>0, <1>1, SetRunIs, TypesAre
  <1>2. CASE name \in setting.fails /\ Disturb("fail") /\ SetRun(r, NoRun) /\ UNCHANGED power
    BY <1>0, <1>2, SetRunIs, TypesAre, DisturbIs DEF PowerTypeOK
  <1> QED
    BY <1>1, <1>2 DEF TurnOn

LEMMA TurnOnInv ==
    ASSUME PowerInv, Restore \/ Guard \/ ForceOn \/ StartupOn
    PROVE  PowerInv'
  <1> USE DEF PowerInv
  <1>1. UNCHANGED <<setting, rebootArmed, lease, cooldown, stale, up, off, sinceCut, armedFor>>
    BY DEF Restore, Guard, ForceOn, StartupOn, helpers, ghosts
  <1>2. PICK r \in Runs, name \in {"restore", "guard", "force", "startup"}, next \in {NoRun, Now("release")} :
           /\ TurnOn(r, name, next)
           /\ <<r, name>> \in {<<"reboot", "restore">>, <<"guard", "guard">>, <<"force", "force">>,
                               <<"startup", "startup">>}
    BY StepsAre DEF Restore, Guard, ForceOn, StartupOn
  <1>3. next \in RunStates /\ next.step \in {"none", "release"}
    BY <1>2, RunStatesAre, StepsAre
  <1>4. /\ run' \in [Runs -> RunStates] /\ OtherRuns(r) /\ run'[r] \in {next, NoRun}
        /\ powerBudget' \in [Disturbances -> Nat] /\ powerBudget'["restart"] = powerBudget["restart"]
        /\ power' \in BOOLEAN /\ (power' \/ (power' = power /\ name \in setting.fails))
    BY <1>2, <1>3, TurnOnIs
  <1>5. PowerTypeOK'
    BY <1>1, <1>4 DEF PowerTypeOK, RunStates, Steps
  <1>6. PaceInv'
    <2>1. run'["reboot"] = run["reboot"] \/ run'["reboot"].step \in {"none", "release"}
      BY <1>3, <1>4, RunStatesAre, StepsAre DEF OtherRuns
    <2> QED
      BY <1>1, <2>1 DEF PaceInv
  <1>7. ArmInv'
    BY <1>1, <1>4 DEF ArmInv, NoRestart
  <1>8. OffInv'
    <2>1. ASSUME GuardsWork, ~power' PROVE run'["guard"] = run["guard"] /\ run'["force"] = run["force"] /\ power' = power
      <3>1. r \notin {"guard", "force"}
        BY <1>2, <1>4, <2>1 DEF GuardsWork
      <3> QED
        BY <1>4, <2>1, <3>1, StepsAre DEF OtherRuns
    <2> QED
      BY <1>1, <2>1 DEF OffInv, NoRestart, GuardsWork
  <1> QED
    BY <1>5, <1>6, <1>7, <1>8

\* The socket is switched off, by the reboot or by hand.
LEMMA RawOffInv ==
    ASSUME PowerInv, RawOff
    PROVE  PowerInv'
  <1> USE DEF PowerInv
  <1>1. /\ UNCHANGED <<setting, rebootArmed, lease, cooldown, stale, up, sinceCut, armedFor>>
        /\ ~power' /\ power' \in BOOLEAN /\ off' = 0 /\ run' = PoweredOff(run)
    BY DEF RawOff, helpers
  <1>2. powerBudget' \in [Disturbances -> Nat] /\ powerBudget'["restart"] = powerBudget["restart"]
    <2>1. "raw" \in Disturbances /\ "raw" # "restart"
      BY DEF Disturbances
    <2> QED
      BY <2>1, DisturbIs, TypesAre DEF RawOff
  <1>3. /\ run' \in [Runs -> RunStates] /\ run'["reboot"] = run["reboot"]
        /\ run'["guard"] = Now("on") \/ (run'["force"].step = "on" /\ run'["force"].left = ForceDelay)
    BY <1>1, PoweredOffIs, TypesAre, StepsAre
  <1>4. PowerTypeOK'
    <2>1. 0 \in 0..ForceDelay + 1
      BY Delays
    <2> QED
      BY <1>1, <1>2, <1>3, <2>1 DEF PowerTypeOK, RunStates, Steps
  <1>5. PaceInv' /\ ArmInv'
    BY <1>1, <1>2, <1>3 DEF PaceInv, ArmInv, NoRestart
  <1>6. OffInv'
    BY <1>1, <1>3, Delays DEF OffInv
  <1> QED
    BY <1>4, <1>5, <1>6

LEMMA CutInv ==
    ASSUME PowerInv, Cut
    PROVE  PowerInv' /\ (sinceCut' = 0 /\ sinceCut # 0 => sinceCut = Cooldown)
  <1> USE DEF PowerInv
  <1>1. UNCHANGED <<setting, rebootArmed, lease, cooldown, stale, up, armedFor>>
    BY DEF Cut, helpers, ghosts
  <1>2. run["reboot"].step = "cut" /\ sinceCut = Cooldown /\ cooldown
    BY RunStatesAre, StepsAre DEF Cut, Due, PaceInv
  <1>3. CASE Disturb("fail") /\ SetRun("reboot", NoRun) /\ UNCHANGED <<power, ghosts>>
    <2>1. /\ run' \in [Runs -> RunStates] /\ OtherRuns("reboot") /\ run'["reboot"].step = "none"
          /\ UNCHANGED <<power, off, sinceCut>>
      BY <1>3, SetRunIs, TypesAre, RunStatesAre, StepsAre DEF ghosts
    <2>2. powerBudget' \in [Disturbances -> Nat] /\ powerBudget'["restart"] = powerBudget["restart"]
      <3>1. "fail" \in Disturbances /\ "fail" # "restart"
        BY DEF Disturbances
      <3> QED
        BY <1>3, <3>1, DisturbIs, TypesAre
    <2>3. run'["guard"] = run["guard"] /\ run'["force"] = run["force"]
      BY <2>1, StepsAre DEF OtherRuns
    <2>4. PowerTypeOK'
      BY <1>1, <2>1, <2>2 DEF PowerTypeOK, RunStates, Steps
    <2>5. PaceInv' /\ ArmInv' /\ OffInv'
      BY <1>1, <2>1, <2>2, <2>3 DEF PaceInv, ArmInv, OffInv, NoRestart, GuardsWork
    <2> QED
      BY <1>2, <2>4, <2>5
  <1>4. CASE /\ power' = FALSE /\ sinceCut' = 0 /\ off' = IF power THEN 0 ELSE off
             /\ LET next == [run EXCEPT !["reboot"] = After(OffDelay, "restore")]
                IN  run' = IF power THEN PoweredOff(next) ELSE next
             /\ UNCHANGED powerBudget
    <2>1. PICK next : next = [run EXCEPT !["reboot"] = After(OffDelay, "restore")]
      OBVIOUS
    <2>2. /\ next \in [Runs -> RunStates] /\ next["reboot"].step = "restore"
          /\ next["guard"] = run["guard"] /\ next["force"] = run["force"]
      <3>1. After(OffDelay, "restore") \in RunStates /\ After(OffDelay, "restore").step = "restore"
        BY RunStatesAre, StepsAre, Delays
      <3> QED
        BY <2>1, <3>1, TypesAre, StepsAre
    <2>3. run' = IF power THEN PoweredOff(next) ELSE next
      BY <1>4, <2>1
    <2>4. run' \in [Runs -> RunStates] /\ run'["reboot"].step = "restore"
      BY <2>2, <2>3, PoweredOffIs, StepsAre
    <2>5. PowerTypeOK'
      <3>1. 0 \in 0..ForceDelay + 1 /\ 0 \in 0..Cooldown /\ FALSE \in BOOLEAN
        BY Delays
      <3> QED
        BY <1>1, <1>4, <2>4, <3>1 DEF PowerTypeOK, RunStates, Steps
    <2>6. PaceInv'
      BY <1>1, <1>2, <2>4 DEF PaceInv
    <2>7. ArmInv'
      BY <1>1, <1>4 DEF ArmInv, NoRestart
    <2>8. OffInv'
      <3>1. CASE power
        <4>1. run'["guard"] = Now("on") \/ (run'["force"].step = "on" /\ run'["force"].left = ForceDelay)
          BY <2>2, <2>3, <3>1, PoweredOffIs
        <4> QED
          BY <1>4, <3>1, <4>1, Delays DEF OffInv
      <3>2. CASE ~power
        BY <1>1, <1>4, <2>2, <2>3, <3>2 DEF OffInv, NoRestart, GuardsWork
      <3> QED
        BY <3>1, <3>2
    <2> QED
      BY <1>2, <2>5, <2>6, <2>7, <2>8
  <1> QED
    BY <1>3, <1>4 DEF Cut

\* Home Assistant stops and is started again.
LEMMA HaltInv ==
    ASSUME PowerInv, HomeAssistantHalts
    PROVE  PowerInv'
  <1> USE DEF PowerInv
  <1>1. ~NoRestart /\ UNCHANGED <<setting, power, rebootArmed, lease, cooldown, off, sinceCut, armedFor>>
    <2>1. "restart" \in Disturbances
      BY DEF Disturbances
    <2> QED
      BY <2>1, DisturbIs, TypesAre DEF HomeAssistantHalts, ArmInv, ghosts
  <1>2. run' \in [Runs -> RunStates] /\ run'["reboot"].step = "none"
    BY RunStatesAre, StepsAre DEF HomeAssistantHalts
  <1>3. PowerTypeOK'
    <2>1. "restart" \in Disturbances
      BY DEF Disturbances
    <2>2. powerBudget' \in [Disturbances -> Nat]
      BY <2>1, DisturbIs, TypesAre DEF HomeAssistantHalts
    <2> QED
      BY <1>1, <1>2, <2>2 DEF HomeAssistantHalts, PowerTypeOK, RunStates, Steps
  <1> QED
    BY <1>1, <1>2, <1>3 DEF PaceInv, ArmInv, OffInv, NoRestart

LEMMA StartInv ==
    ASSUME PowerInv, HomeAssistantStarts
    PROVE  PowerInv'
  <1> USE DEF PowerInv
  <1>1. ~NoRestart /\ UNCHANGED <<setting, power, rebootArmed, lease, cooldown, stale, powerBudget, sinceCut, armedFor>>
    BY DEF HomeAssistantStarts, ArmInv, helpers
  <1>2. PICK begun : begun = IF lease THEN [run EXCEPT !["startup"] = Now("on")] ELSE run
    OBVIOUS
  <1>3. run' \in {begun, PoweredOff(begun)}
    BY <1>2 DEF HomeAssistantStarts
  <1>4. begun \in [Runs -> RunStates] /\ begun["reboot"] = run["reboot"]
    <2>1. Now("on") \in RunStates
      BY RunStatesAre, StepsAre
    <2> QED
      BY <1>2, <2>1, TypesAre, StepsAre
  <1>5. run' \in [Runs -> RunStates] /\ run'["reboot"] = run["reboot"]
    BY <1>3, <1>4, PoweredOffIs, StepsAre
  <1>6. PowerTypeOK'
    <2>1. 0 \in 0..ForceDelay + 1
      BY Delays
    <2> QED
      BY <1>1, <1>5, <2>1 DEF HomeAssistantStarts, PowerTypeOK, RunStates, Steps
  <1> QED
    BY <1>1, <1>5, <1>6 DEF PaceInv, ArmInv, OffInv, NoRestart

\* Time passes for every run that waits.
LEMMA PassesIs ==
    ASSUME run \in [Runs -> RunStates], TimePasses
    PROVE  /\ run' \in [Runs -> RunStates]
           /\ \A r \in Runs : /\ run'[r].step = run[r].step
                              /\ run[r] = NoRun \/ (run[r].left > 0 /\ run'[r].left = run[r].left - 1)
  <1>1. \A r \in Runs : Waiting(r) /\ run[r] \in RunStates
    BY DEF TimePasses
  <1>2. ASSUME NEW r \in Runs
        PROVE  /\ run'[r] \in RunStates /\ run'[r].step = run[r].step
               /\ run[r] = NoRun \/ (run[r].left > 0 /\ run'[r].left = run[r].left - 1)
    <2>1. CASE run[r] = NoRun
      BY <1>1, <2>1 DEF TimePasses
    <2>2. CASE run[r] # NoRun
      <3>1. run'[r] = [run[r] EXCEPT !.left = @ - 1] /\ run[r].left > 0
        BY <1>1, <2>2 DEF TimePasses, Waiting
      <3> QED
        BY <1>1, <3>1 DEF RunStates
    <2> QED
      BY <2>1, <2>2
  <1>3. run' \in [Runs -> RunStates]
    <2>1. run' = [r \in Runs |-> run'[r]]
      BY DEF TimePasses
    <2> QED
      BY <1>2, <2>1
  <1> QED
    BY <1>2, <1>3

LEMMA TimeInv ==
    ASSUME PowerInv, TimePasses
    PROVE  PowerInv' /\ ~(sinceCut' = 0 /\ sinceCut # 0)
  <1> USE DEF PowerInv
  <1>1. /\ UNCHANGED <<setting, power, rebootArmed, lease, cooldown, up, powerBudget>>
        /\ stale > 0
        /\ stale' = IF stale = Never THEN Never ELSE stale - 1
        /\ off' = IF power THEN 0 ELSE IF off > ForceDelay THEN off ELSE off + 1
        /\ sinceCut' = IF sinceCut = Cooldown THEN Cooldown ELSE sinceCut + 1
        /\ armedFor' = IF rebootArmed /\ armedFor <= ArmTimeout THEN armedFor + 1 ELSE armedFor
    BY DEF TimePasses
  <1>2. /\ run' \in [Runs -> RunStates]
        /\ \A r \in Runs : /\ run'[r].step = run[r].step
                           /\ run[r] = NoRun \/ (run[r].left > 0 /\ run'[r].left = run[r].left - 1)
    BY PassesIs, TypesAre
  <1>3. /\ stale' \in 0..ArmTimeout \cup {Never} /\ off' \in 0..ForceDelay + 1
        /\ sinceCut' \in 0..Cooldown /\ armedFor' \in 0..ArmTimeout + 1
    BY <1>1, Delays DEF PowerTypeOK
  <1>4. PowerTypeOK'
    BY <1>1, <1>2, <1>3 DEF PowerTypeOK, RunStates, Steps
  <1>5. PaceInv'
    <2>1. /\ run["reboot"] \in RunStates /\ run'["reboot"].step = run["reboot"].step
          /\ run["reboot"].step = "cooled" => run'["reboot"].left = run["reboot"].left - 1 /\ run["reboot"].left > 0
      BY <1>2, TypesAre, RunStatesAre, StepsAre
    <2>2. run["reboot"].left \in Nat /\ sinceCut \in Nat /\ Cooldown \in Nat /\ sinceCut <= Cooldown
      BY <2>1, Delays DEF RunStates, PowerTypeOK
    <2>3. run["reboot"].step = "cooled" => sinceCut' + run'["reboot"].left >= Cooldown
      BY <1>1, <2>1, <2>2 DEF PaceInv
    <2> QED
      BY <1>1, <2>1, <2>3 DEF PaceInv
  <1>6. ArmInv'
    <2>1. stale \in Nat /\ armedFor \in Nat /\ ArmTimeout \in Nat /\ ArmTimeout < Never /\ Never \in Nat
      BY TypesAre, Delays
    <2> QED
      BY <1>1, <2>1 DEF ArmInv, NoRestart
  <1>7. OffInv'
    <2> SUFFICES ASSUME NoRestart, GuardsWork
                 PROVE  /\ off' <= ForceDelay
                        /\ ~power => run'["force"].step = "on" /\ off' + run'["force"].left <= ForceDelay
      BY <1>1 DEF OffInv, NoRestart, GuardsWork
    <2>1. off \in Nat /\ ForceDelay \in Nat /\ run["force"] \in RunStates /\ off <= ForceDelay
      BY TypesAre, Delays, StepsAre DEF OffInv
    <2>2. CASE power
      BY <1>1, <2>1, <2>2
    <2>3. CASE ~power
      <3>1. run["guard"] # Now("on")
        BY <1>2, StepsAre, RunStatesAre
      <3>2. run["force"].step = "on" /\ off + run["force"].left <= ForceDelay
        BY <2>3, <3>1 DEF OffInv
      <3>3. run'["force"].step = "on" /\ run["force"].left > 0 /\ run'["force"].left = run["force"].left - 1
        BY <1>2, <3>2, StepsAre, RunStatesAre
      <3>4. run["force"].left \in Nat
        BY <2>1 DEF RunStates
      <3> QED
        BY <1>1, <2>1, <2>3, <3>2, <3>3, <3>4
    <2> QED
      BY <2>2, <2>3
  <1>8. ~(sinceCut' = 0 /\ sinceCut # 0)
    BY <1>1, TypesAre, Delays
  <1> QED
    BY <1>4, <1>5, <1>6, <1>7, <1>8

-----------------------------------------------------------------------------

LEMMA PowerInitInv == PowerInit => PowerInv
  <1> SUFFICES ASSUME PowerInit PROVE PowerInv
    OBVIOUS
  <1>1. run \in [Runs -> RunStates] /\ run["reboot"].step = "none"
    BY RunStatesAre, StepsAre DEF PowerInit
  <1>2. powerBudget \in [Disturbances -> Nat] /\ powerBudget["restart"] = setting.times["restart"]
    BY SettingAssumption DEF PowerInit
  <1>3. 0 \in 0..ForceDelay + 1 /\ Cooldown \in 0..Cooldown /\ 0 \in 0..ArmTimeout + 1 /\ 0 <= ForceDelay
    BY Delays
  <1>4. PowerTypeOK
    BY <1>1, <1>2, <1>3 DEF PowerInit, PowerTypeOK, RunStates, Steps
  <1> QED
    BY <1>1, <1>2, <1>3, <1>4 DEF PowerInit, PowerInv, PaceInv, ArmInv, OffInv, NoRestart

LEMMA PowerNextInv ==
    ASSUME PowerInv, [PowerNext]_powerVars
    PROVE  PowerInv' /\ RebootsArePaced
  <1>1. CASE UNCHANGED powerVars
    BY <1>1 DEF powerVars, helpers, ghosts, PowerInv, PowerTypeOK, PaceInv, ArmInv, OffInv, NoRestart, GuardsWork,
                RebootsArePaced
  <1>2. CASE Cut \/ TimePasses
    BY <1>2, CutInv, TimeInv DEF RebootsArePaced
  <1>3. CASE PowerNext /\ ~Cut /\ ~TimePasses
    <2>1. PowerInv'
      BY <1>3, ArmRunInv, PressRebootInv, RebootInv, ReleasedInv, TurnOnInv, RawOffInv, HaltInv, StartInv
         DEF PowerNext, Reboot, Automations
    <2>2. sinceCut' = sinceCut
      BY <1>3 DEF PowerNext, Reboot, Automations, PressArm, PressReboot, Disarm, TakeLease, Restore, ReleaseLease,
                  Cooled, Guard, ForceOn, ForceRelease, StartupOn, StartupRelease, ClearStaleArm, RawOff,
                  HomeAssistantHalts, HomeAssistantStarts, ghosts
    <2> QED
      BY <2>1, <2>2 DEF RebootsArePaced
  <1> QED
    BY <1>1, <1>2, <1>3

\* The invariant is one.
THEOREM PowerInvariance == PowerSpec => []PowerInv
  BY PowerInitInv, PowerNextInv, PTL DEF PowerSpec

\* The router's reboots are bounded, for any delays, any calls that may fail and
\* any number of disturbances.
THEOREM RebootsBounded == PowerSpec => RebootsAreBounded
  <1>1. PowerInv /\ PowerInv' /\ [PowerNext]_powerVars
            => [/\ PowerTypeOK' /\ RebootsArePaced
                /\ NoRestart => ArmIsShort'
                /\ NoRestart /\ GuardsWork => OffIsBrief']_powerVars
    <2> SUFFICES ASSUME PowerInv, PowerInv', PowerNext
                 PROVE  /\ PowerTypeOK' /\ RebootsArePaced
                        /\ NoRestart => ArmIsShort'
                        /\ NoRestart /\ GuardsWork => OffIsBrief'
      OBVIOUS
    <2>1. setting' = setting
      BY DEF PowerNext, Reboot, Automations, PressArm, PressReboot, Disarm, TakeLease, Cut, Restore, ReleaseLease,
             Cooled, Guard, ForceOn, ForceRelease, StartupOn, StartupRelease, ClearStaleArm, RawOff,
             HomeAssistantHalts, HomeAssistantStarts, TimePasses
    <2>2. NoRestart => ArmIsShort'
      <3> SUFFICES ASSUME NoRestart PROVE armedFor' <= ArmTimeout
        BY DEF ArmIsShort
      <3>1. stale' \in Nat /\ armedFor' \in Nat /\ ArmTimeout \in Nat /\ 0 <= ArmTimeout
        BY Delays DEF PowerInv, PowerTypeOK
      <3>2. stale' + armedFor' = ArmTimeout \/ armedFor' = 0
        BY <2>1 DEF PowerInv, ArmInv, NoRestart
      <3>3. CASE stale' + armedFor' = ArmTimeout
        BY <3>1, <3>3, SumBounds
      <3>4. CASE armedFor' = 0
        BY <3>1, <3>4
      <3> QED
        BY <3>2, <3>3, <3>4
    <2>3. NoRestart /\ GuardsWork => OffIsBrief'
      BY <2>1 DEF PowerInv, OffInv, NoRestart, GuardsWork, OffIsBrief
    <2> QED
      BY <2>2, <2>3, PowerNextInv DEF PowerInv
  <1> QED
    BY <1>1, PowerInvariance, PTL DEF PowerSpec, RebootsAreBounded

-----------------------------------------------------------------------------
(* The cover: its invariant.                                               *)

\* The record is of a player that has been; while the cover is being put up there is
\* none of the present player; and a record of the present player is right.
RecordInv ==
    /\ file.pid <= player /\ player > 0
    /\ AdBudget["nonzero"] = 0 =>
        /\ adBudget["nonzero"] = 0
        /\ ctl \in {"show", "record"} => file.pid # player
        /\ file.pid = player => file.was = wantedMute
        /\ muted = wantedMute \/ file.pid = player

CoverInv == CoverTypeOK /\ RecordInv

-----------------------------------------------------------------------------

LEMMA SpendCoverIs ==
    ASSUME adBudget \in [CoverMishaps -> Nat], NEW m \in CoverMishaps, SpendCover(m)
    PROVE  /\ adBudget' \in [CoverMishaps -> Nat] /\ adBudget[m] > 0
           /\ adBudget["nonzero"] = 0 => adBudget'["nonzero"] = 0 /\ m # "nonzero"
  BY DEF SpendCover, CoverMishaps

\* The budget after a step: spent on a mishap, or as it was.
BudgetKept ==
    /\ adBudget' \in [CoverMishaps -> Nat]
    /\ adBudget["nonzero"] = 0 => adBudget'["nonzero"] = 0

LEMMA BudgetSteps == CoverTypeOK /\ CoverNext => BudgetKept
  <1> SUFFICES ASSUME CoverTypeOK, CoverNext PROVE BudgetKept
    OBVIOUS
  <1>1. (\E m \in CoverMishaps : SpendCover(m)) \/ UNCHANGED adBudget
    <2>1. {"break", "late", "refuse", "nonzero", "raise", "crash", "visionstop", "sampling", "mode", "manual",
           "die", "player"} \subseteq CoverMishaps
      BY DEF CoverMishaps
    <2> QED
      BY <2>1 DEF CoverNext, BreakBegins, BreakEnds, BumperGoes, Recogniser, SeeIn, SeeOut, Controller, Take, Keep,
             StopCover, RestoreAudio, RestoreRaises, Show, Record, Mute, CoverDies, Troubles, SamplingLost,
             GivesUp, SelectMode, VisionStops, Manual, RefuseRequest, Crash, PlayerRestarts
  <1> QED
    BY <1>1, SpendCoverIs DEF BudgetKept, CoverTypeOK

LEMMA AnswerIs ==
    ASSUME CoverTypeOK, NEW ok, Answer(ok)
    PROVE  /\ ctl' = "idle" /\ serving' = "none" /\ call' \in {"none", "start", "end"}
           /\ phase' \in {"programme", "ad-break"}
  BY DEF Answer, NotAcknowledged, CoverTypeOK

LEMMA SendIs ==
    ASSUME CoverTypeOK, NEW kind \in {"start", "end"}, Send(kind)
    PROVE  call' \in {"none", "start", "end"} /\ pending' \subseteq Kinds
  BY DEF Send, CoverTypeOK, Kinds

\* Steps that leave the record, the player and the controller.
LEMMA BesideInv ==
    ASSUME CoverInv, CoverNext, UNCHANGED <<control, audio>>
    PROVE  CoverInv'
  <1>1. CoverTypeOK
    BY DEF CoverInv
  <1>2. BudgetKept
    BY <1>1, BudgetSteps
  <1>3. UNCHANGED <<ctl, serving, cover, keeper, file, player, muted, wantedMute>>
    BY DEF control, audio
  <1>4. /\ tv' \in {"programme", "advert"} /\ bumper' \in {"none", "in", "out"}
        /\ mode' \in {"observe", "armed"} /\ phase' \in {"programme", "ad-break"}
        /\ call' \in {"none", "start", "end"} /\ pending' \subseteq Kinds
    <2>1. CASE BreakBegins \/ BreakEnds \/ BumperGoes
      BY <1>1, <2>1 DEF BreakBegins, BreakEnds, BumperGoes, CoverTypeOK, vision
    <2>2. CASE Recogniser
      BY <1>1, <2>2, SendIs DEF Recogniser, SeeIn, SeeOut, CoverTypeOK
    <2>3. CASE Controller
      <3>1. CASE Take \/ Keep \/ StopCover
        BY <1>1, <3>1 DEF Take, Keep, StopCover, CoverTypeOK, vision
      <3>2. CASE RestoreAudio \/ RestoreRaises
        BY <1>1, <3>2, AnswerIs DEF RestoreAudio, RestoreRaises, AfterRestore, CoverTypeOK
      <3>3. CASE Show \/ Record \/ Mute
        BY <1>1, <3>3, AnswerIs DEF Show, Record, Mute, CoverTypeOK
      <3> QED
        BY <2>3, <3>1, <3>2, <3>3 DEF Controller
    <2>4. CASE CoverDies \/ PlayerRestarts \/ Crash
      BY <1>1, <2>4 DEF CoverDies, PlayerRestarts, Crash, NotAcknowledged, CoverTypeOK, vision
    <2>5. CASE SamplingLost \/ GivesUp \/ SelectMode
      BY <1>1, <2>5, SendIs DEF SamplingLost, GivesUp, SelectMode, NotAcknowledged, CoverTypeOK
    <2>6. CASE VisionStops \/ Manual \/ RefuseRequest
      BY <1>1, <2>6 DEF VisionStops, Manual, RefuseRequest, NotAcknowledged, CoverTypeOK, Kinds, vision
    <2> QED
      BY <2>1, <2>2, <2>3, <2>4, <2>5, <2>6 DEF CoverNext, Troubles
  <1>5. CoverTypeOK'
    BY <1>1, <1>2, <1>3, <1>4 DEF CoverTypeOK, BudgetKept
  <1>6. RecordInv'
    BY <1>2, <1>3 DEF CoverInv, RecordInv, BudgetKept
  <1> QED
    BY <1>5, <1>6 DEF CoverInv

\* The controller and the player, beside the types: what each step leaves and writes.
LEMMA ControlTypes ==
    ASSUME CoverTypeOK, Controller \/ CoverDies \/ Crash \/ PlayerRestarts
    PROVE  CoverTypeOK'
  <1>1. BudgetKept
    BY BudgetSteps DEF CoverNext, Troubles
  <1>2. CASE Take \/ Keep \/ StopCover
    BY <1>1, <1>2 DEF Take, Keep, StopCover, vision, audio, CoverTypeOK, BudgetKept, Kinds
  <1>3. CASE RestoreAudio
    <2>1. NoFile \in [pid : Nat, was : BOOLEAN] /\ file.was \in BOOLEAN
      BY DEF NoFile, CoverTypeOK
    <2>2. /\ ctl' \in {"idle", "show"} /\ serving' \in {serving, "none"} /\ call' \in {"none", "start", "end"}
          /\ phase' \in {"programme", "ad-break"}
      BY <1>3, AnswerIs DEF RestoreAudio, AfterRestore, CoverTypeOK
    <2>3. muted' \in BOOLEAN /\ file' = NoFile /\ UNCHANGED <<tv, bumper, mode, pending, cover, keeper, player, wantedMute>>
      BY <1>3, <2>1 DEF RestoreAudio, CoverTypeOK
    <2> QED
      BY <1>1, <2>1, <2>2, <2>3 DEF CoverTypeOK, BudgetKept
  <1>4. CASE RestoreRaises
    BY <1>1, <1>4, AnswerIs DEF RestoreRaises, audio, CoverTypeOK, BudgetKept
  <1>5. CASE Show
    <2>1. /\ ctl' \in {"idle", "record"} /\ serving' \in {serving, "none"} /\ call' \in {"none", "start", "end"}
          /\ phase' \in {"programme", "ad-break"} /\ cover' \in {"none", "on", "preview", "dead"}
      BY <1>5, AnswerIs DEF Show, CoverTypeOK
    <2> QED
      BY <1>1, <1>5, <2>1 DEF Show, audio, CoverTypeOK, BudgetKept
  <1>6. CASE Record
    <2>1. /\ ctl' \in {"idle", "mute"} /\ serving' \in {serving, "none"} /\ call' \in {"none", "start", "end"}
          /\ phase' \in {"programme", "ad-break"}
      BY <1>6, AnswerIs DEF Record, CoverTypeOK
    <2>2. file' \in [pid : Nat, was : BOOLEAN]
      <3>1. player \in Nat /\ muted \in BOOLEAN /\ file \in [pid : Nat, was : BOOLEAN]
        BY DEF CoverTypeOK
      <3>2. file' = [pid |-> player, was |-> muted] \/ file' = file
        BY <1>6 DEF Record
      <3> QED
        BY <3>1, <3>2
    <2> QED
      BY <1>1, <1>6, <2>1, <2>2 DEF Record, CoverTypeOK, BudgetKept
  <1>7. CASE Mute
    <2>1. muted' \in BOOLEAN
      BY <1>7 DEF Mute, CoverTypeOK
    <2> QED
      BY <1>1, <1>7, <2>1, AnswerIs DEF Mute, CoverTypeOK, BudgetKept
  <1>8. CASE CoverDies
    BY <1>1, <1>8 DEF CoverDies, vision, audio, CoverTypeOK, BudgetKept
  <1>9. CASE Crash
    BY <1>1, <1>9 DEF Crash, NotAcknowledged, audio, CoverTypeOK, BudgetKept
  <1>10. CASE PlayerRestarts
    <2>1. player' \in Nat /\ {keeper', muted', wantedMute'} \subseteq BOOLEAN
      <3>1. player' = player + 1 /\ player \in Nat
        BY <1>10 DEF PlayerRestarts, CoverTypeOK
      <3>2. keeper' \in BOOLEAN /\ muted' \in BOOLEAN /\ wantedMute' \in BOOLEAN
        <4>1. keeper' = keeper /\ muted' = FALSE /\ wantedMute' = FALSE
          BY <1>10 DEF PlayerRestarts, control
        <4>2. keeper \in BOOLEAN
          BY DEF CoverTypeOK
        <4> QED
          BY <4>1, <4>2
      <3> QED
        BY <3>1, <3>2
    <2>2. UNCHANGED <<tv, bumper, mode, phase, call, pending, ctl, serving, cover, file>>
      BY <1>10 DEF PlayerRestarts, vision, control
    <2> QED
      BY <1>1, <2>1, <2>2 DEF CoverTypeOK, BudgetKept
  <1> QED
    BY <1>2, <1>3, <1>4, <1>5, <1>6, <1>7, <1>8, <1>9, <1>10 DEF Controller

LEMMA ControlRecord ==
    ASSUME CoverInv, Controller \/ CoverDies \/ Crash \/ PlayerRestarts
    PROVE  RecordInv'
  <1>0. CoverTypeOK
    BY DEF CoverInv
  <1>1. BudgetKept
    BY <1>0, BudgetSteps DEF CoverNext, Troubles
  <1>2. file.pid \in Nat /\ player \in Nat /\ NoFile.pid = 0 /\ NoFile.was = FALSE
    BY <1>0 DEF CoverTypeOK, NoFile
  <1>3. CASE Take \/ Keep \/ StopCover \/ CoverDies \/ Crash
    BY <1>1, <1>3 DEF Take, Keep, StopCover, CoverDies, Crash, audio, CoverInv, RecordInv, BudgetKept
  <1>4. CASE RestoreAudio
    <2>1. file' = NoFile /\ player' = player /\ wantedMute' = wantedMute
      BY <1>4 DEF RestoreAudio
    <2>2. file'.pid <= player' /\ player' > 0 /\ file'.pid # player'
      BY <1>2, <2>1 DEF CoverInv, RecordInv
    <2>3. ASSUME AdBudget["nonzero"] = 0 PROVE muted' = wantedMute'
      <3>1. ~SpendCover("nonzero")
        BY <1>0, <2>3, SpendCoverIs DEF CoverInv, RecordInv, CoverTypeOK, CoverMishaps
      <3>2. muted' = IF file # NoFile /\ file.pid = player THEN file.was ELSE muted
        BY <1>4, <3>1 DEF RestoreAudio
      <3>3. file.pid = player => file # NoFile
        BY <1>2 DEF CoverInv, RecordInv
      <3> QED
        BY <2>1, <2>3, <3>2, <3>3 DEF CoverInv, RecordInv
    <2> QED
      BY <1>1, <2>2, <2>3 DEF CoverInv, RecordInv, BudgetKept
  <1>5. CASE RestoreRaises
    BY <1>0, <1>1, <1>5, AnswerIs DEF RestoreRaises, audio, CoverInv, RecordInv, BudgetKept
  <1>6. CASE Show
    BY <1>0, <1>1, <1>6, AnswerIs DEF Show, audio, CoverInv, RecordInv, BudgetKept
  <1>7. CASE Record
    <2>1. CASE file' = [pid |-> player, was |-> muted] /\ ctl' = "mute"
      <3>1. file'.pid = player /\ file'.was = muted /\ player' = player /\ wantedMute' = wantedMute /\ muted' = muted
        BY <1>7, <2>1 DEF Record
      <3>2. AdBudget["nonzero"] = 0 => muted = wantedMute
        BY <1>7 DEF Record, CoverInv, RecordInv
      <3> QED
        BY <1>1, <1>2, <2>1, <3>1, <3>2 DEF CoverInv, RecordInv, BudgetKept
    <2>2. CASE Answer(TRUE) /\ UNCHANGED file
      <3>1. ctl' = "idle" /\ UNCHANGED <<file, player, muted, wantedMute>>
        BY <1>0, <1>7, <2>2, AnswerIs DEF Record
      <3> QED
        BY <1>1, <3>1 DEF CoverInv, RecordInv, BudgetKept
    <2> QED
      BY <1>7, <2>1, <2>2 DEF Record
  <1>8. CASE Mute
    <2>1. ctl' = "idle" /\ UNCHANGED <<file, player, wantedMute>> /\ muted' \in {muted, muted \/ file.pid = player}
      BY <1>0, <1>8, AnswerIs DEF Mute
    <2>2. file.pid # player => muted' = muted
      BY <1>0, <2>1 DEF CoverTypeOK
    <2> QED
      BY <1>1, <2>1, <2>2 DEF CoverInv, RecordInv, BudgetKept
  <1>9. CASE PlayerRestarts
    <2>1. player' = player + 1 /\ file' = file /\ muted' = wantedMute' /\ ctl' = ctl
      BY <1>9 DEF PlayerRestarts, control
    <2>2. file'.pid <= player' /\ player' > 0 /\ file'.pid # player'
      BY <1>2, <2>1 DEF CoverInv, RecordInv
    <2> QED
      BY <1>1, <2>1, <2>2 DEF CoverInv, RecordInv, BudgetKept
  <1> QED
    BY <1>3, <1>4, <1>5, <1>6, <1>7, <1>8, <1>9 DEF Controller

LEMMA CoverNextInv == CoverInv /\ [CoverNext]_coverVars => CoverInv'
  <1> SUFFICES ASSUME CoverInv, [CoverNext]_coverVars PROVE CoverInv'
    OBVIOUS
  <1>1. CASE UNCHANGED coverVars
    BY <1>1 DEF coverVars, vision, control, audio, CoverInv, CoverTypeOK, RecordInv
  <1>2. CASE Controller \/ CoverDies \/ Crash \/ PlayerRestarts
    BY <1>2, ControlTypes, ControlRecord DEF CoverInv
  <1>3. CASE CoverNext /\ ~(Controller \/ CoverDies \/ Crash \/ PlayerRestarts)
    <2>1. UNCHANGED <<control, audio>>
      BY <1>3 DEF CoverNext, Troubles, Recogniser, BreakBegins, BreakEnds, BumperGoes, SeeIn, SeeOut, SamplingLost,
             GivesUp, SelectMode, VisionStops, Manual, RefuseRequest
    <2> QED
      BY <1>3, <2>1, BesideInv
  <1> QED
    BY <1>1, <1>2, <1>3

LEMMA CoverInitInv == CoverInit => CoverInv
  BY CoverAssumption DEF CoverInit, CoverInv, CoverTypeOK, RecordInv, NoFile, CoverMishaps

\* A mute against the viewer's will is on record, for any number of mishaps.
THEOREM MuteRecorded == CoverSpec => [](CoverTypeOK /\ MuteIsRecorded)
  <1>1. CoverInv => CoverTypeOK /\ MuteIsRecorded
    BY DEF CoverInv, RecordInv, MuteIsRecorded
  <1> QED
    BY <1>1, CoverInitInv, CoverNextInv, PTL DEF CoverSpec

-----------------------------------------------------------------------------
(* The trials: their invariant.                                            *)

\* What a trial has ready before it stops the process it has found.
ReadyInv ==
    \A t \in Trials :
        /\ trialPc[t] \in {"ready", "armed", "marked"} => found[t] > 0
        /\ trialPc[t] \in {"armed", "marked"} => recTimer[t] = found[t]
        /\ trialPc[t] = "marked" /\ Script[t].checks # "process" => Marker(t) = found[t]
        /\ trialPc[t] = "post" => IsUnit(t)

\* A trial's timer will resume the recorder, and nothing cancels it before the trial
\* has resumed the recorder itself.
TimerAnswers(t) ==
    /\ found[t] = recorder /\ recTimer[t] = recorder
    /\ Script[t].checks # "process" => Marker(t) = recorder
    /\ trialPc[t] # "resumed"

\* A trial that went on without the note it goes by.
WentUnnoted(t) ==
    t \in Unnoted /\ trialPc[t] \in {"cleaning", "resumed", "post", "killed", "ended"}

\* Somebody answers for a recorder that is stopped.
StoppedInv == stopped => \E t \in Trials : TimerAnswers(t) \/ WentUnnoted(t)

TrialsInv == TrialsTypeOK /\ (MarkersApart => ReadyInv /\ StoppedInv)

-----------------------------------------------------------------------------

\* A process, or none.
ProcessesOrNone == 0 .. 1 + Restarts

LEMMA SuiteIs ==
    ASSUME suite \in Suites
    PROVE  /\ Restarts \in Nat /\ Kills \in Nat
           /\ \A t \in Trials : ScriptOK(Script[t])
  BY SuiteAssumption DEF Restarts, Kills, Trials, Script

\* The suite stays.
LEMMA SuiteKept ==
    ASSUME suite' = suite
    PROVE  /\ Trials' = Trials /\ Script' = Script /\ Restarts' = Restarts /\ Kills' = Kills
           /\ MarkerNames' = MarkerNames /\ MarkersApart' = MarkersApart
  BY DEF Trials, Script, Restarts, Kills, MarkerNames, MarkersApart

\* The types in the words of this module.
LEMMA TrialsTypesAre ==
    TrialsTypeOK => /\ suite \in Suites /\ Restarts \in Nat /\ Kills \in Nat
                    /\ recorder \in ProcessesOrNone /\ recorder > 0 /\ recorder \in Nat
                    /\ trialPc \in [Trials -> TrialPlaces]
                    /\ found \in [Trials -> ProcessesOrNone] /\ recTimer \in [Trials -> ProcessesOrNone]
                    /\ recMarker \in [MarkerNames -> ProcessesOrNone] /\ 0 \in ProcessesOrNone
                    /\ noted \subseteq Trials /\ asked \subseteq Trials
  BY SuiteIs DEF TrialsTypeOK, ProcessesOrNone, Processes

LEMMA MarkerNamesAre == \A t \in Trials : Script[t].name \in MarkerNames
  BY DEF MarkerNames

\* One trial moves on, and one timer or marker changes.
LEMMA ToIs ==
    ASSUME TrialsTypeOK, NEW t \in Trials, NEW place \in TrialPlaces, To(t, place)
    PROVE  /\ trialPc' \in [Trials -> TrialPlaces] /\ trialPc'[t] = place
           /\ \A u \in Trials : u # t => trialPc'[u] = trialPc[u]
  BY TrialsTypesAre DEF To

LEMMA FiresIs ==
    ASSUME TrialsTypeOK, NEW t \in Trials, Fires(t)
    PROVE  /\ recTimer' \in [Trials -> ProcessesOrNone]
           /\ \A u \in Trials : u # t => recTimer'[u] = recTimer[u]
  BY TrialsTypesAre DEF Fires

LEMMA BecomesIs ==
    ASSUME TrialsTypeOK, NEW t \in Trials, NEW process \in ProcessesOrNone, Becomes(t, process)
    PROVE  /\ recMarker' \in [MarkerNames -> ProcessesOrNone] /\ recMarker'[Script[t].name] = process
           /\ \A n \in MarkerNames : n # Script[t].name => recMarker'[n] = recMarker[n]
  BY TrialsTypesAre, MarkerNamesAre DEF Becomes

-----------------------------------------------------------------------------
(* What a step of one trial writes.                                        *)

\* What the step of a trial does not write, beside its own entries.
Beside(u) ==
    /\ suite' = suite /\ recorder' = recorder
    /\ \A t \in Trials : t # u =>
        /\ trialPc'[t] = trialPc[t] /\ found'[t] = found[t] /\ recTimer'[t] = recTimer[t]
        /\ t \in noted' <=> t \in noted
    /\ \A n \in MarkerNames : n # Script[u].name => recMarker'[n] = recMarker[n]

Typed ==
    /\ trialPc' \in [Trials -> TrialPlaces] /\ found' \in [Trials -> ProcessesOrNone]
    /\ recTimer' \in [Trials -> ProcessesOrNone] /\ recMarker' \in [MarkerNames -> ProcessesOrNone]
    /\ noted' \subseteq Trials /\ asked' \subseteq Trials /\ kills' \in 0 .. Kills

LEMMA PlacesAre ==
    {"idle", "launched", "ready", "armed", "marked", "halted", "capturing", "cleaning", "resumed", "post",
     "killed", "ended"} = TrialPlaces
  BY DEF TrialPlaces

LEMMA StepsWrite ==
    ASSUME TrialsTypeOK, NEW u \in Trials, Step(u)
    PROVE  Beside(u) /\ Typed /\ stopped' \in BOOLEAN
  <1> USE TrialsTypesAre, PlacesAre
  <1>0. kills \in 0 .. Kills /\ stopped \in BOOLEAN
    BY DEF TrialsTypeOK
  <1>1. CASE Launch(u)
    BY <1>0, <1>1, ToIs DEF Launch, Beside, Typed
  <1>2. CASE Refuse(u)
    <2>1. PICK place \in {"post", "ended"} : To(u, place)
      BY <1>2 DEF Refuse
    <2> QED
      BY <1>0, <1>2, <2>1, ToIs DEF Refuse, Beside, Typed
  <1>3. CASE Preflight(u)
    <2>1. /\ found' \in [Trials -> ProcessesOrNone]
          /\ \A t \in Trials : t # u => found'[t] = found[t]
      BY <1>3 DEF Preflight
    <2> QED
      BY <1>0, <1>3, <2>1, ToIs DEF Preflight, Beside, Typed
  <1>4. CASE ArmResumption(u)
    <2>1. /\ recTimer' \in [Trials -> ProcessesOrNone]
          /\ \A t \in Trials : t # u => recTimer'[t] = recTimer[t]
      BY <1>4 DEF ArmResumption
    <2> QED
      BY <1>0, <1>4, <2>1, ToIs DEF ArmResumption, Beside, Typed
  <1>5. CASE WriteMarker(u)
    <2>1. found[u] \in ProcessesOrNone
      OBVIOUS
    <2>2. /\ recMarker' \in [MarkerNames -> ProcessesOrNone]
          /\ \A n \in MarkerNames : n # Script[u].name => recMarker'[n] = recMarker[n]
      BY <1>5, <2>1, BecomesIs DEF WriteMarker
    <2> QED
      BY <1>0, <1>5, <2>2, ToIs DEF WriteMarker, Beside, Typed
  <1>6. CASE Interrupt(u)
    <2>1. asked' \subseteq Trials
      BY <1>6 DEF Interrupt
    <2> QED
      BY <1>0, <1>6, <2>1, ToIs DEF Interrupt, Beside, Typed
  <1>7. CASE Kill(u)
    <2>1. PICK place \in {"post", "killed"} : To(u, place)
      BY <1>7 DEF Kill
    <2>2. kills' \in 0 .. Kills
      BY <1>0, <1>7 DEF Kill
    <2> QED
      BY <1>0, <1>7, <2>1, <2>2, ToIs DEF Kill, Beside, Typed
  <1>8. CASE Halt(u)
    BY <1>0, <1>8, ToIs DEF Halt, Beside, Typed
  <1>9. CASE HaltFails(u)
    <2>1. /\ recMarker' \in [MarkerNames -> ProcessesOrNone]
          /\ \A n \in MarkerNames : n # Script[u].name => recMarker'[n] = recMarker[n]
      BY <1>9, BecomesIs DEF HaltFails
    <2>2. /\ recTimer' \in [Trials -> ProcessesOrNone]
          /\ \A t \in Trials : t # u => recTimer'[t] = recTimer[t]
      BY <1>9, FiresIs DEF HaltFails
    <2> QED
      BY <1>0, <1>9, <2>1, <2>2, ToIs DEF HaltFails, Beside, Typed
  <1>10. CASE Note(u)
    BY <1>0, <1>10, ToIs DEF Note, Beside, Typed
  <1>11. CASE Finish(u)
    BY <1>0, <1>11, ToIs DEF Finish, Beside, Typed
  <1>12. CASE ResumeRecorder(u)
    <2>1. /\ recMarker' \in [MarkerNames -> ProcessesOrNone]
          /\ \A n \in MarkerNames : n # Script[u].name => recMarker'[n] = recMarker[n]
      BY <1>12, BecomesIs DEF ResumeRecorder
    <2>2. PICK place \in {"resumed", "ended"} : To(u, place)
      BY <1>12 DEF ResumeRecorder
    <2>3. stopped' \in BOOLEAN
      BY <1>0, <1>12 DEF ResumeRecorder
    <2> QED
      BY <1>0, <1>12, <2>1, <2>2, <2>3, ToIs DEF ResumeRecorder, Beside, Typed
  <1>13. CASE Cancel(u)
    <2>1. PICK place \in {"post", "ended"} : To(u, place)
      BY <1>13 DEF Cancel
    <2> QED
      BY <1>0, <1>13, <2>1, ToIs, FiresIs DEF Cancel, Beside, Typed
  <1>14. CASE Recover(u)
    <2>1. /\ recMarker' \in [MarkerNames -> ProcessesOrNone]
          /\ \A n \in MarkerNames : n # Script[u].name => recMarker'[n] = recMarker[n]
      BY <1>14, BecomesIs DEF Recover
    <2>2. stopped' \in BOOLEAN
      BY <1>0, <1>14 DEF Recover
    <2> QED
      BY <1>0, <1>14, <2>1, <2>2, ToIs DEF Recover, Beside, Typed
  <1>15. CASE ResumptionFires(u)
    <2>1. /\ recMarker' \in [MarkerNames -> ProcessesOrNone]
          /\ \A n \in MarkerNames : n # Script[u].name => recMarker'[n] = recMarker[n]
      BY <1>15, BecomesIs DEF ResumptionFires
    <2>2. stopped' \in BOOLEAN
      BY <1>0, <1>15 DEF ResumptionFires
    <2> QED
      BY <1>0, <1>15, <2>1, <2>2, FiresIs DEF ResumptionFires, Beside, Typed
  <1> QED
    BY <1>1, <1>2, <1>3, <1>4, <1>5, <1>6, <1>7, <1>8, <1>9, <1>10, <1>11, <1>12, <1>13, <1>14, <1>15
       DEF Step, Proceed

LEMMA StepTypes ==
    ASSUME TrialsTypeOK, NEW u \in Trials, Step(u)
    PROVE  TrialsTypeOK'
  <1>1. Beside(u) /\ Typed /\ stopped' \in BOOLEAN
    BY StepsWrite
  <1>2. suite' = suite /\ recorder' = recorder
    BY <1>1 DEF Beside
  <1> QED
    BY <1>1, <1>2, SuiteKept DEF TrialsTypeOK, Typed, ProcessesOrNone, Processes, TrialPlaces

-----------------------------------------------------------------------------
(* The invariant.                                                          *)

\* Another trial's marker is its own.
LEMMA MarkerKept ==
    ASSUME TrialsTypeOK, MarkersApart, NEW u \in Trials, Beside(u), NEW t \in Trials, t # u,
           Script[t].checks # "process"
    PROVE  Marker(t)' = Marker(t)
  <1>1. Script[t].name \in MarkerNames /\ Script[t].name # Script[u].name
    BY MarkerNamesAre DEF MarkersApart
  <1>2. recMarker'[Script[t].name] = recMarker[Script[t].name] /\ Script' = Script
    BY <1>1, SuiteKept DEF Beside
  <1> QED
    BY <1>2 DEF Marker

\* What the invariant says of another trial stays.
LEMMA BesideReady ==
    ASSUME TrialsTypeOK, MarkersApart, ReadyInv, NEW u \in Trials, Beside(u), NEW t \in Trials, t # u
    PROVE  /\ trialPc'[t] \in {"ready", "armed", "marked"} => found'[t] > 0
           /\ trialPc'[t] \in {"armed", "marked"} => recTimer'[t] = found'[t]
           /\ trialPc'[t] = "marked" /\ Script[t].checks # "process" => Marker(t)' = found'[t]
           /\ trialPc'[t] = "post" => IsUnit(t)
  BY MarkerKept DEF Beside, ReadyInv

LEMMA BesideAnswers ==
    ASSUME TrialsTypeOK, MarkersApart, NEW u \in Trials, Beside(u), NEW t \in Trials, t # u
    PROVE  /\ TimerAnswers(t) => TimerAnswers(t)'
           /\ WentUnnoted(t) => WentUnnoted(t)'
  <1>1. Script' = Script /\ Trials' = Trials
    BY SuiteKept DEF Beside
  <1> QED
    BY <1>1, MarkerKept DEF Beside, TimerAnswers, WentUnnoted, Unnoted

\* Of the trial that moves.
LEMMA OwnReady ==
    ASSUME TrialsTypeOK, MarkersApart, ReadyInv, NEW u \in Trials, Step(u)
    PROVE  /\ trialPc'[u] \in {"ready", "armed", "marked"} => found'[u] > 0
           /\ trialPc'[u] \in {"armed", "marked"} => recTimer'[u] = found'[u]
           /\ trialPc'[u] = "marked" /\ Script[u].checks # "process" => Marker(u)' = found'[u]
           /\ trialPc'[u] = "post" => IsUnit(u)
  <1> USE TrialsTypesAre, PlacesAre
  <1>1. CASE Launch(u)
    BY <1>1, ToIs DEF Launch
  <1>2. CASE Refuse(u)
    <2>1. PICK place \in {"post", "ended"} : To(u, place) /\ (place = "post" => IsUnit(u))
      BY <1>2 DEF Refuse
    <2> QED
      BY <2>1, ToIs
  <1>3. CASE Preflight(u)
    <2>1. trialPc'[u] = "ready" /\ found'[u] = recorder
      BY <1>3, ToIs DEF Preflight
    <2> QED
      BY <2>1
  <1>4. CASE ArmResumption(u)
    <2>1. trialPc'[u] = "armed" /\ recTimer'[u] = found[u] /\ found' = found /\ found[u] > 0
      BY <1>4, ToIs DEF ArmResumption, ReadyInv
    <2> QED
      BY <2>1
  <1>5. CASE WriteMarker(u)
    <2>1. trialPc'[u] = "marked" /\ recTimer' = recTimer /\ found' = found /\ suite' = suite
      BY <1>5, ToIs DEF WriteMarker
    <2>2. found[u] > 0 /\ recTimer[u] = found[u]
      BY <1>5 DEF WriteMarker, ReadyInv
    <2>3. Script[u].checks # "process" => Marker(u)' = found[u]
      <3>1. Script[u].checks # "process" => Script[u].marks
        BY SuiteIs DEF ScriptOK
      <3>2. found[u] \in ProcessesOrNone
        OBVIOUS
      <3>3. Script[u].marks => recMarker'[Script[u].name] = found[u]
        BY <1>5, <3>2, BecomesIs DEF WriteMarker
      <3> QED
        BY <2>1, <3>1, <3>3, SuiteKept DEF Marker
    <2> QED
      BY <2>1, <2>2, <2>3
  <1>6. CASE Interrupt(u) \/ Halt(u) \/ HaltFails(u) \/ Note(u) \/ Finish(u)
    <2>1. trialPc'[u] \in {"cleaning", "halted", "capturing"}
      BY <1>6, ToIs DEF Interrupt, Halt, HaltFails, Note, Finish
    <2> QED
      BY <2>1
  <1>7. CASE Kill(u) \/ Cancel(u)
    <2>1. PICK place \in {"post", "ended", "killed"} : To(u, place) /\ (place = "post" => IsUnit(u))
      BY <1>7 DEF Kill, Cancel
    <2> QED
      BY <2>1, ToIs
  <1>8. CASE ResumeRecorder(u) \/ Recover(u)
    <2>1. PICK place \in {"resumed", "ended"} : To(u, place)
      BY <1>8 DEF ResumeRecorder, Recover
    <2> QED
      BY <2>1, ToIs
  <1>9. CASE ResumptionFires(u)
    BY <1>9 DEF ResumptionFires, ReadyInv
  <1> QED
    BY <1>1, <1>2, <1>3, <1>4, <1>5, <1>6, <1>7, <1>8, <1>9 DEF Step, Proceed

LEMMA ReadyStep ==
    ASSUME TrialsTypeOK, MarkersApart, ReadyInv, NEW u \in Trials, Step(u)
    PROVE  ReadyInv'
  <1>1. Beside(u)
    BY StepsWrite
  <1>2. Script' = Script /\ Trials' = Trials
    BY <1>1, SuiteKept DEF Beside
  <1> SUFFICES ASSUME NEW t \in Trials
               PROVE  /\ trialPc'[t] \in {"ready", "armed", "marked"} => found'[t] > 0
                      /\ trialPc'[t] \in {"armed", "marked"} => recTimer'[t] = found'[t]
                      /\ trialPc'[t] = "marked" /\ Script[t].checks # "process" => Marker(t)' = found'[t]
                      /\ trialPc'[t] = "post" => IsUnit(t)
    BY <1>2 DEF ReadyInv, IsUnit
  <1>3. CASE t = u
    BY <1>3, OwnReady
  <1>4. CASE t # u
    BY <1>1, <1>4, BesideReady
  <1> QED
    BY <1>3, <1>4

\* A trial that will resume the recorder still will, or has, or goes on unnoted.
LEMMA OwnAnswer ==
    ASSUME TrialsTypeOK, MarkersApart, ReadyInv, NEW u \in Trials, Step(u), stopped', TimerAnswers(u)
    PROVE  TimerAnswers(u)' \/ WentUnnoted(u)'
  <1> USE TrialsTypesAre, PlacesAre
  <1>1. Beside(u)
    BY StepsWrite
  <1>2. suite' = suite /\ recorder' = recorder /\ Script' = Script /\ Trials' = Trials
    BY <1>1, SuiteKept DEF Beside
  <1>3. /\ found[u] = recorder /\ recTimer[u] = recorder /\ recorder > 0
        /\ Script[u].checks # "process" => Marker(u) = recorder
        /\ trialPc[u] # "resumed"
    BY DEF TimerAnswers
  <1>4. ASSUME found'[u] = recorder, recTimer'[u] = recorder,
               Script[u].checks # "process" => Marker(u)' = recorder,
               trialPc'[u] # "resumed"
        PROVE  TimerAnswers(u)'
    BY <1>2, <1>4 DEF TimerAnswers
  <1>5. recMarker' = recMarker => Marker(u)' = Marker(u)
    BY <1>2 DEF Marker
  <1>6. CASE Launch(u) \/ Refuse(u) \/ Interrupt(u) \/ Kill(u) \/ Halt(u) \/ Note(u) \/ Finish(u)
    <2>1. UNCHANGED <<found, recTimer, recMarker>>
      BY <1>6 DEF Launch, Refuse, Interrupt, Kill, Halt, Note, Finish
    <2>2. PICK place \in {"launched", "post", "ended", "cleaning", "killed", "halted", "capturing"} : To(u, place)
      BY <1>6 DEF Launch, Refuse, Interrupt, Kill, Halt, Note, Finish
    <2>3. trialPc'[u] # "resumed"
      BY <2>2, ToIs
    <2> QED
      BY <1>3, <1>4, <1>5, <2>1, <2>3
  <1>7. CASE Preflight(u)
    <2>1. found'[u] = recorder /\ UNCHANGED <<recTimer, recMarker>> /\ trialPc'[u] = "ready"
      BY <1>7, ToIs DEF Preflight
    <2> QED
      BY <1>3, <1>4, <1>5, <2>1
  <1>8. CASE ArmResumption(u)
    <2>1. UNCHANGED <<found, recMarker>> /\ recTimer'[u] = found[u] /\ trialPc'[u] = "armed"
      BY <1>8, ToIs DEF ArmResumption
    <2> QED
      BY <1>3, <1>4, <1>5, <2>1
  <1>9. CASE WriteMarker(u)
    <2>1. UNCHANGED <<found, recTimer>> /\ trialPc'[u] = "marked"
      BY <1>9, ToIs DEF WriteMarker
    <2>2. Script[u].checks # "process" => Marker(u)' = found'[u]
      BY <2>1, <1>9, OwnReady DEF Step
    <2> QED
      BY <1>3, <1>4, <2>1, <2>2
  <1>10. CASE HaltFails(u)
    BY <1>3, <1>10 DEF HaltFails
  <1>11. CASE ResumeRecorder(u)
    <2>1. ~Acts(u) /\ UNCHANGED <<found, noted>>
      BY <1>3, <1>11 DEF ResumeRecorder
    <2>2. Script[u].resumes = "noted" /\ u \notin noted
      <3>1. /\ Script[u].resumes \in {"always", "noted", "marked"}
            /\ Script[u].resumes = "marked" => Script[u].checks # "process"
        BY SuiteIs DEF ScriptOK
      <3>2. Script[u].resumes # "always"
        BY <2>1 DEF Acts
      <3>3. Script[u].resumes # "marked"
        <4>1. Script[u].resumes = "marked" => (Acts(u) <=> Marker(u) # 0)
          BY DEF Acts
        <4> QED
          BY <1>3, <2>1, <3>1, <4>1
      <3>4. Script[u].resumes = "noted" => (Acts(u) <=> u \in noted)
        BY DEF Acts
      <3> QED
        BY <2>1, <3>1, <3>2, <3>3, <3>4
    <2>3. PICK place \in {"resumed", "ended"} : To(u, place)
      BY <1>11 DEF ResumeRecorder
    <2>4. trialPc'[u] \in {"resumed", "ended"}
      BY <2>3, ToIs
    <2> QED
      BY <1>2, <1>3, <2>1, <2>2, <2>4 DEF WentUnnoted, Unnoted
  <1>12. CASE Cancel(u)
    BY <1>3, <1>12 DEF Cancel
  <1>13. CASE Recover(u)
    <2>1. UNCHANGED <<found, recTimer>> /\ trialPc'[u] = "ended"
      BY <1>13, ToIs DEF Recover
    <2>2. Script[u].checks = "process"
      <3>1. IsUnit(u)
        BY <1>13 DEF Recover, ReadyInv
      <3> QED
        BY <3>1, SuiteIs DEF IsUnit, ScriptOK
    <2> QED
      BY <1>3, <1>4, <2>1, <2>2
  <1>14. CASE ResumptionFires(u)
    <2>1. ~Checked(u)
      BY <1>14 DEF ResumptionFires
    <2> QED
      <3>1. Script[u].checks \in {"process", "marker", "identity"}
        BY SuiteIs DEF ScriptOK
      <3>2. CASE Script[u].checks = "process"
        BY <1>3, <2>1, <3>2 DEF Checked
      <3>3. CASE Script[u].checks = "marker"
        BY <1>3, <2>1, <3>3 DEF Checked
      <3>4. CASE Script[u].checks = "identity"
        BY <1>3, <2>1, <3>4 DEF Checked
      <3> QED
        BY <3>1, <3>2, <3>3, <3>4
  <1> QED
    BY <1>6, <1>7, <1>8, <1>9, <1>10, <1>11, <1>12, <1>13, <1>14 DEF Step, Proceed

\* A trial that went on without its note does not take it up.
LEMMA OwnUnnoted ==
    ASSUME TrialsTypeOK, NEW u \in Trials, Step(u), WentUnnoted(u)
    PROVE  WentUnnoted(u)'
  <1> USE TrialsTypesAre, PlacesAre
  <1>1. Beside(u)
    BY StepsWrite
  <1>2. Script' = Script /\ Trials' = Trials
    BY <1>1, SuiteKept DEF Beside
  <1>3. /\ Script[u].resumes = "noted" /\ found[u] # 0 /\ u \notin noted
        /\ trialPc[u] \in {"cleaning", "resumed", "post", "killed", "ended"}
    BY DEF WentUnnoted, Unnoted
  <1>4. CASE ResumptionFires(u)
    BY <1>2, <1>3, <1>4 DEF ResumptionFires, WentUnnoted, Unnoted
  <1>5. CASE Kill(u) \/ ResumeRecorder(u) \/ Cancel(u) \/ Recover(u)
    <2>1. PICK place \in {"resumed", "post", "killed", "ended"} : To(u, place)
      BY <1>5 DEF Kill, ResumeRecorder, Cancel, Recover
    <2>2. trialPc'[u] \in {"resumed", "post", "killed", "ended"}
      BY <2>1, ToIs
    <2>3. UNCHANGED <<found, noted>>
      BY <1>5 DEF Kill, ResumeRecorder, Cancel, Recover
    <2> QED
      BY <1>2, <1>3, <2>2, <2>3 DEF WentUnnoted, Unnoted
  <1>6. ~(Launch(u) \/ Refuse(u) \/ Preflight(u) \/ ArmResumption(u) \/ WriteMarker(u) \/ Interrupt(u) \/ Halt(u)
          \/ HaltFails(u) \/ Note(u) \/ Finish(u))
    BY <1>3 DEF Launch, Refuse, Preflight, ArmResumption, WriteMarker, Interrupt, Halt, HaltFails, Note, Finish
  <1> QED
    BY <1>4, <1>5, <1>6 DEF Step, Proceed

LEMMA AnsweredStep ==
    ASSUME TrialsTypeOK, MarkersApart, ReadyInv, StoppedInv, NEW u \in Trials, Step(u)
    PROVE  StoppedInv'
  <1> SUFFICES ASSUME stopped' PROVE \E t \in Trials' : TimerAnswers(t)' \/ WentUnnoted(t)'
    BY DEF StoppedInv
  <1>1. Beside(u)
    BY StepsWrite
  <1>2. Script' = Script /\ Trials' = Trials /\ recorder' = recorder
    BY <1>1, SuiteKept DEF Beside
  <1>3. CASE Halt(u)
    <2>1. trialPc'[u] = "halted" /\ UNCHANGED <<found, recTimer, recMarker>>
      BY <1>3, ToIs, PlacesAre DEF Halt
    <2>2. /\ found[u] = recorder /\ recTimer[u] = found[u]
          /\ Script[u].checks # "process" => Marker(u) = found[u]
      BY <1>3 DEF Halt, ReadyInv
    <2>3. TimerAnswers(u)'
      BY <1>2, <2>1, <2>2 DEF TimerAnswers, Marker
    <2> QED
      BY <1>2, <2>3
  <1>4. CASE ~Halt(u)
    <2>1. stopped
      BY <1>4 DEF Step, Proceed, Launch, Refuse, Preflight, ArmResumption, WriteMarker, Interrupt, Kill, HaltFails,
             Note, Finish, ResumeRecorder, Cancel, Recover, ResumptionFires
    <2>2. PICK t \in Trials : TimerAnswers(t) \/ WentUnnoted(t)
      BY <2>1 DEF StoppedInv
    <2>3. CASE t = u
      BY <1>2, <2>2, <2>3, OwnAnswer, OwnUnnoted
    <2>4. CASE t # u
      BY <1>1, <1>2, <2>2, <2>4, BesideAnswers
    <2> QED
      BY <2>3, <2>4
  <1> QED
    BY <1>3, <1>4

\* The recorder is restarted, and is not stopped.
LEMMA RestartsInv ==
    ASSUME TrialsInv, RecorderRestarts
    PROVE  TrialsInv'
  <1>1. /\ UNCHANGED <<suite, trialPc, found, noted, recMarker, recTimer, asked, kills>>
        /\ stopped' = FALSE /\ recorder' = recorder + 1 /\ recorder <= Restarts
    BY DEF RecorderRestarts
  <1>2. /\ Trials' = Trials /\ Script' = Script /\ Restarts' = Restarts /\ Kills' = Kills
        /\ MarkerNames' = MarkerNames /\ MarkersApart' = MarkersApart
    BY <1>1, SuiteKept
  <1>3. TrialsTypeOK
    BY DEF TrialsInv
  <1>4. recorder' \in Processes'
    BY <1>1, <1>2, <1>3, TrialsTypesAre DEF Processes
  <1>5. TrialsTypeOK'
    BY <1>1, <1>2, <1>3, <1>4 DEF TrialsTypeOK
  <1>6. MarkersApart => ReadyInv'
    BY <1>1, <1>2 DEF TrialsInv, ReadyInv, Marker, IsUnit
  <1> QED
    BY <1>1, <1>2, <1>5, <1>6 DEF TrialsInv, StoppedInv

LEMMA TrialsNextInv == TrialsInv /\ [TrialsNext]_trialVars => TrialsInv'
  <1> SUFFICES ASSUME TrialsInv, [TrialsNext]_trialVars PROVE TrialsInv'
    OBVIOUS
  <1>1. CASE UNCHANGED trialVars
    BY <1>1 DEF trialVars, TrialsInv, TrialsTypeOK, MarkersApart, ReadyInv, StoppedInv, TimerAnswers, WentUnnoted,
           Unnoted, Marker, IsUnit, Trials, Script, Restarts, Kills, Processes, MarkerNames
  <1>2. CASE RecorderRestarts
    BY <1>2, RestartsInv
  <1>3. ASSUME NEW u \in Trials, Step(u) PROVE TrialsInv'
    <2>1. TrialsTypeOK
      BY DEF TrialsInv
    <2>2. MarkersApart' = MarkersApart
      BY <1>3, <2>1, StepsWrite, SuiteKept DEF Beside
    <2> QED
      BY <1>3, <2>1, <2>2, StepTypes, ReadyStep, AnsweredStep DEF TrialsInv
  <1> QED
    BY <1>1, <1>2, <1>3 DEF TrialsNext

LEMMA TrialsInitInv == TrialsInit => TrialsInv
  <1> SUFFICES ASSUME TrialsInit PROVE TrialsInv
    OBVIOUS
  <1>1. Restarts \in Nat /\ Kills \in Nat
    BY SuiteIs DEF TrialsInit
  <1>2. TrialsTypeOK
    <2>1. 1 \in Processes /\ 0 \in 0 .. 1 + Restarts /\ 0 \in 0 .. Kills
      BY <1>1 DEF Processes
    <2>2. "idle" \in TrialPlaces
      BY DEF TrialPlaces
    <2>3. {noted, asked} \subseteq SUBSET Trials
      BY DEF TrialsInit
    <2> QED
      BY <2>1, <2>2, <2>3 DEF TrialsInit, TrialsTypeOK
  <1> QED
    BY <1>2 DEF TrialsInit, TrialsInv, ReadyInv, StoppedInv

\* The recorder records again once all is over, for any scripts, any number of
\* trials, of deaths and of restarts.
THEOREM NoneStopped == TrialsSpec => [](TrialsTypeOK /\ NoneLeftStopped)
  <1>1. TrialsInv => TrialsTypeOK /\ NoneLeftStopped
    <2> SUFFICES ASSUME TrialsInv, MarkersApart, Unnoted = {}, stopped,
                        \A t \in Trials : trialPc[t] \in {"idle", "ended", "killed"} /\ recTimer[t] = 0
                 PROVE  FALSE
      BY DEF TrialsInv, NoneLeftStopped
    <2>1. PICK t \in Trials : TimerAnswers(t) \/ WentUnnoted(t)
      BY DEF TrialsInv, StoppedInv
    <2>2. ~WentUnnoted(t)
      BY DEF WentUnnoted
    <2>3. recTimer[t] = recorder /\ recorder > 0
      BY <2>1, <2>2, TrialsTypesAre DEF TrialsInv, TimerAnswers
    <2> QED
      BY <2>3
  <1> QED
    BY <1>1, TrialsInitInv, TrialsNextInv, PTL DEF TrialsSpec

\* Nothing is left taken of what the cover and the trials take for a while.
THEOREM NothingTaken == TakenSpec => []NothingLeftTaken
  BY MuteRecorded, NoneStopped, PTL DEF TakenSpec, NothingLeftTaken
=============================================================================
