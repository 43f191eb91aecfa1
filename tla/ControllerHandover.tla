------------------------- MODULE ControllerHandover ------------------------
(***************************************************************************)
(* Two virtual machines that can both command the security hardware: 906   *)
(* on Node A, which owns it, and 905 on Node B, which is to own it through *)
(* an ESPHome entry.  Scripts on Node C hand the ownership over            *)
(* (in gateway/solar), a cron job there and a timer on Node A take it back *)
(* when that does not end in time, and another script brings 905 back      *)
(* after such a failback.  Each talks to the nodes by ssh, one             *)
(* question or command at a time; their workflows exclude one another, but *)
(* not the cron job and not the timer.                                     *)
(***************************************************************************)
EXTENDS Naturals

CONSTANTS
    Plans,     \* which workflows are started, each once, and which watchdogs get to run
    MaxFaults  \* bound: calls that fail or get no answer, and killed scripts

Jobs == {"cutover", "accept", "emergency"}
Watchdogs == {"cron", "timer"}

ASSUME ParameterAssumption == Plans \subseteq [jobs : SUBSET Jobs, watchdogs : SUBSET Watchdogs] /\ MaxFaults \in Nat

VARIABLES
    plan,    \* the one of Plans that this behaviour is about
    source,  \* VM 906; while "stopping" its status is "running"
    target,  \* VM 905
    entry,   \* 905's Core has an active ESPHome entry
    flow,    \* the app that enrols it: "ready", its config flow "open" or "ended", "orphan" when the app is gone first
    armed,   \* state.json with the deadline exists on Node C
    late,    \* that deadline has passed
    fence,   \* the attestation on Node A that 905 is fenced
    marker,  \* the acceptance marker on Node A
    timer,   \* the transient timer on Node A
    cron,    \* the cron entry on Node C
    todo,    \* workflows not started yet
    op,      \* the workflow that runs, the call it makes next, and whether it has stopped the source
    rst,     \* restore(), which holds the lock: the call it makes next, who called it
    told,    \* what the workflow reports of its rollback
    faults

vms == <<source, target, entry, flow>>
guards == <<armed, late, fence, marker, timer, cron>>
vars == <<plan, vms, guards, todo, op, rst, told, faults>>

Idle == [job |-> "none", at |-> "idle", stopped |-> FALSE]
Free == [at |-> "idle", by |-> "none"]

Init ==
    /\ source = "running" /\ target = "running" /\ entry = FALSE /\ flow = "ready"
    /\ armed = FALSE /\ late = FALSE /\ fence = FALSE /\ marker = FALSE /\ timer = "none" /\ cron = TRUE
    /\ plan \in Plans /\ todo = plan.jobs /\ op = Idle /\ rst = Free /\ told = "nothing" /\ faults = 0

Status(vm) == IF vm = "stopping" THEN "running" ELSE vm

-----------------------------------------------------------------------------
\* The machines and the clock.

\* A shutdown asked for ends, however long the asker waits, or the guest ignores it.
ShutdownEnds == source = "stopping" /\ source' \in {"stopped", "running"} /\ UNCHANGED <<target, entry, flow, guards, plan, todo, op, rst, told, faults>>

\* The app's config flow makes the entry, or gives up; a paused machine does neither.
FlowEnds ==
    /\ flow \in {"open", "orphan"} /\ target = "running" /\ flow' = "ended" /\ entry' \in BOOLEAN
    /\ UNCHANGED <<source, target, guards, plan, todo, op, rst, told, faults>>

\* 35 minutes after arming.
Deadline == armed /\ ~late /\ late' = TRUE /\ UNCHANGED <<vms, armed, fence, marker, timer, cron, plan, todo, op, rst, told, faults>>

StartSource == source' = IF source = "stopped" THEN "running" ELSE source

\* Node A's timer, 45 minutes after the stop, with its shell condition.
TimerFires ==
    /\ "timer" \in plan.watchdogs /\ timer = "active" /\ late /\ timer' = "fired"
    /\ IF fence /\ ~marker THEN StartSource ELSE UNCHANGED source
    /\ UNCHANGED <<target, entry, flow, armed, late, fence, marker, cron, plan, todo, op, rst, told, faults>>

-----------------------------------------------------------------------------
\* restore() of the failback script, under its lock.

Continue(at) == rst' = [rst EXCEPT !.at = at]
\* It returns; a workflow that called it reports what it is told.
Return(ok) ==
    /\ rst' = Free
    /\ IF rst.by = "cron" THEN UNCHANGED <<op, told>>
       ELSE op' = Idle /\ told' = IF op.job = "emergency" THEN told ELSE IF ok THEN "restored" ELSE "unconfirmed"
Read == UNCHANGED <<vms, guards, plan, todo, faults>>

\* Every minute after the deadline.
CronStarts ==
    /\ "cron" \in plan.watchdogs /\ cron /\ armed /\ late /\ rst = Free /\ rst' = [at |-> "accepted?", by |-> "cron"]
    /\ UNCHANGED <<vms, guards, plan, todo, op, told, faults>>

ReadMarker ==
    /\ rst.at = "accepted?" /\ Read
    /\ IF marker THEN Return(TRUE) ELSE Continue("source?") /\ UNCHANGED <<op, told>>

ReadSource ==
    /\ rst.at = "source?" /\ Read
    /\ IF Status(source) = "running" THEN Return(TRUE) ELSE Continue("target?") /\ UNCHANGED <<op, told>>

\* A running target is fenced whether it has an entry or not.
ReadTarget ==
    /\ rst.at = "target?" /\ Read /\ UNCHANGED <<op, told>>
    /\ Continue(IF target = "running" THEN "suspend" ELSE "still?")

Suspend ==
    /\ rst.at = "suspend" /\ target' = "paused" /\ Continue("fenced?")
    /\ UNCHANGED <<source, entry, flow, guards, plan, todo, op, told, faults>>

ReadFenced ==
    /\ rst.at = "fenced?" /\ Read
    /\ IF target = "paused" THEN Continue("still?") /\ UNCHANGED <<op, told>> ELSE Return(FALSE)

ReadStill ==
    /\ rst.at = "still?" /\ Read
    /\ IF target = "running" /\ entry THEN Return(FALSE) ELSE Continue("acceptedNow?") /\ UNCHANGED <<op, told>>

ReadMarkerAgain ==
    /\ rst.at = "acceptedNow?" /\ Read
    /\ IF marker THEN Return(TRUE) ELSE Continue("attest") /\ UNCHANGED <<op, told>>

Attest ==
    /\ rst.at = "attest" /\ fence' = TRUE /\ Continue("start")
    /\ UNCHANGED <<vms, armed, late, marker, timer, cron, plan, todo, op, told, faults>>

Start ==
    /\ rst.at = "start" /\ StartSource /\ Return(TRUE)
    /\ UNCHANGED <<target, entry, flow, guards, plan, todo, faults>>

RestoreStep == ReadMarker \/ ReadSource \/ ReadTarget \/ Suspend \/ ReadFenced \/ ReadStill \/ ReadMarkerAgain \/ Attest \/ Start

\* A call fails; done or not, restore returns 1.
RestoreFails ==
    /\ rst # Free /\ faults < MaxFaults /\ faults' = faults + 1 /\ Return(FALSE)
    /\ UNCHANGED <<vms, guards, plan, todo>>

-----------------------------------------------------------------------------
\* The workflows on Node C.

Go(at) == op' = [op EXCEPT !.at = at]
End == op' = Idle

\* return 1: the cutover and, once it has stopped the source, the emergency
\* script roll back in their finally clauses.
GiveUp ==
    IF op.job = "cutover" THEN Go("rollback") ELSE IF op.stopped THEN Go("fence") ELSE End

At(job, at) == op.job = job /\ op.at = at

\* A question: go on if the answer is as wanted.
Ask(job, at, wanted, next) ==
    /\ At(job, at) /\ (IF wanted THEN Go(next) ELSE GiveUp)
    /\ UNCHANGED <<vms, guards, plan, todo, rst, told, faults>>

Begin(job) ==
    /\ job \in todo /\ op = Idle /\ todo' = todo \ {job} /\ UNCHANGED plan
    /\ op' = [job |-> job, at |-> "exclusive?", stopped |-> FALSE]
    /\ UNCHANGED <<vms, guards, rst, told, faults>>

Shutdown ==
    /\ op.at = "shutdown" /\ Go("stopped?") /\ source' = (IF source = "running" THEN "stopping" ELSE source)
    /\ UNCHANGED <<target, entry, flow, guards, plan, todo, rst, told, faults>>

\* The cutover: stop the source with both guards set, load, enrol.
CheckBoth == Ask("cutover", "exclusive?", Status(source) = "running" /\ target = "running" /\ flow = "ready", "arm")

Arm ==
    /\ At("cutover", "arm")
    /\ IF Status(source) = "running" /\ target = "running" /\ ~entry /\ ~armed /\ cron
       THEN armed' = TRUE /\ Go("schedule") ELSE UNCHANGED armed /\ GiveUp
    /\ UNCHANGED <<vms, late, fence, marker, timer, cron, plan, todo, rst, told, faults>>

Schedule ==
    /\ At("cutover", "schedule")
    /\ IF Status(source) = "running" /\ ~marker /\ ~fence /\ timer # "active"
       THEN timer' = "active" /\ Go("shutdown") ELSE UNCHANGED timer /\ GiveUp
    /\ UNCHANGED <<vms, armed, late, fence, marker, cron, plan, todo, rst, told, faults>>

VerifyStopped == Ask("cutover", "stopped?", source = "stopped", "load")
Exclusive == source = "stopped" /\ target = "running"
Load == Ask("cutover", "load", Exclusive /\ timer = "active", "enrol")
CheckEnrol == Ask("cutover", "enrol", Exclusive /\ timer = "active" /\ armed /\ ~late /\ flow = "ready", "source?")
CheckSource == Ask("cutover", "source?", source = "stopped", "startApp")

StartApp ==
    /\ At("cutover", "startApp") /\ Go("await")
    /\ flow' = IF target = "running" /\ flow = "ready" THEN "open" ELSE flow
    /\ UNCHANGED <<source, target, entry, guards, plan, todo, rst, told, faults>>

\* The logs and the registry are polled; it may give up while the flow is open.
Enrolled ==
    /\ At("cutover", "await") /\ (IF entry /\ target = "running" THEN End ELSE GiveUp)
    /\ UNCHANGED <<vms, guards, plan, todo, rst, told, faults>>

\* restore() as a subprocess; it says nothing when another one holds the lock.
Rollback ==
    /\ op.at = "rollback"
    /\ IF armed /\ rst = Free THEN rst' = [at |-> "accepted?", by |-> "op"] /\ Go("restoring") /\ UNCHANGED told
       ELSE End /\ UNCHANGED rst /\ told' = IF op.job = "emergency" THEN told ELSE IF armed THEN "restored" ELSE "unconfirmed"
    /\ UNCHANGED <<vms, guards, plan, todo, faults>>

\* Acceptance, after the tests on site.
CheckExclusive == Ask("accept", "exclusive?", Exclusive, "owner?")
CheckOwner == Ask("accept", "owner?", target = "running" /\ entry /\ flow # "absent", "mark")

Mark ==
    /\ At("accept", "mark") /\ marker' = TRUE /\ Go("stopTimer")
    /\ UNCHANGED <<vms, armed, late, fence, timer, cron, plan, todo, rst, told, faults>>

StopTimer ==
    /\ op.at = "stopTimer" /\ timer' = (IF timer = "active" THEN "stopped" ELSE timer)
    /\ IF op.job = "accept" THEN Go("uninstall") ELSE End
    /\ UNCHANGED <<vms, armed, late, fence, marker, cron, plan, todo, rst, told, faults>>

Uninstall ==
    /\ At("accept", "uninstall") /\ Go("uncron") /\ flow' = (IF target = "running" THEN "absent" ELSE flow)
    /\ UNCHANGED <<source, target, entry, guards, plan, todo, rst, told, faults>>

RemoveCron ==
    /\ At("accept", "uncron") /\ cron' = FALSE /\ End
    /\ UNCHANGED <<vms, armed, late, fence, marker, timer, plan, todo, rst, told, faults>>

\* The emergency script: with the source running and the target fenced, stop
\* the one, resume the other, remove the app, start the first again.
CheckFenced == Ask("emergency", "exclusive?", Status(source) = "running" /\ target = "paused" /\ timer = "active" /\ armed, "shutdown")

SourceStopped ==
    /\ At("emergency", "stopped?")
    /\ IF source = "stopped" THEN op' = [op EXCEPT !.at = "resume", !.stopped = TRUE] ELSE GiveUp
    /\ UNCHANGED <<vms, guards, plan, todo, rst, told, faults>>

Resume ==
    /\ At("emergency", "resume") /\ target' = "running" /\ Go("resumed?")
    /\ UNCHANGED <<source, entry, flow, guards, plan, todo, rst, told, faults>>

CheckResumed == Ask("emergency", "resumed?", target = "running", "clean")

\* A request of the app that Core is working on is not undone by removing it.
RemoveApp ==
    /\ At("emergency", "clean")
    /\ IF target = "running" THEN flow' = (IF flow \in {"open", "orphan"} THEN "orphan" ELSE "absent") /\ Go("first?")
       ELSE UNCHANGED flow /\ GiveUp
    /\ UNCHANGED <<source, target, entry, guards, plan, todo, rst, told, faults>>

NoEntry == target = "running" /\ ~entry
CheckFirst == Ask("emergency", "first?", NoEntry, "second?")

\* Mutant: observed once, without the delay.
CheckOnce == Ask("emergency", "second?", NoEntry, "states?")

\* Eight seconds later what Core was working on is done (assumed).
CheckSecond == flow # "orphan" /\ Ask("emergency", "second?", NoEntry, "states?")
CheckStates == Ask("emergency", "states?", Exclusive, "start")

Restart ==
    /\ At("emergency", "start") /\ StartSource /\ Go("started?")
    /\ UNCHANGED <<target, entry, flow, guards, plan, todo, rst, told, faults>>

CheckStarted == Ask("emergency", "started?", Status(source) = "running", "quiet?")
CheckQuiet == Ask("emergency", "quiet?", NoEntry, "stopTimer")

\* Its finally clause: if both run, fence the target before restore().
FenceAgain ==
    /\ op.at = "fence" /\ Go("rollback")
    /\ target' = IF Status(source) = "running" THEN "paused" ELSE target
    /\ UNCHANGED <<source, entry, flow, guards, plan, todo, rst, told, faults>>

OpStep ==
    \/ Shutdown \/ CheckBoth \/ Arm \/ Schedule \/ VerifyStopped \/ Load \/ CheckEnrol \/ CheckSource \/ StartApp \/ Enrolled \/ Rollback
    \/ CheckExclusive \/ CheckOwner \/ Mark \/ StopTimer \/ Uninstall \/ RemoveCron
    \/ CheckFenced \/ SourceStopped \/ Resume \/ CheckResumed \/ RemoveApp \/ CheckFirst \/ CheckSecond \/ CheckStates
    \/ Restart \/ CheckStarted \/ CheckQuiet \/ FenceAgain

\* A call fails.  After its marker acceptance goes on without what failed.
OpFails ==
    /\ op # Idle /\ op.at \notin {"rollback", "restoring"} /\ faults < MaxFaults /\ faults' = faults + 1
    /\ CASE op.at = "fence" -> Go("rollback")
         [] op.at = "stopTimer" -> IF op.job = "accept" THEN Go("uninstall") ELSE End
         [] op.at = "uninstall" -> Go("uncron")
         [] OTHER -> GiveUp
    /\ UNCHANGED <<vms, guards, plan, todo, rst, told>>

\* The workflow is cancelled or times out: no finally clause runs.
OpDies ==
    /\ op # Idle /\ op.at # "restoring" /\ faults < MaxFaults /\ faults' = faults + 1 /\ End
    /\ UNCHANGED <<vms, guards, plan, todo, rst, told>>

Next ==
    \/ ShutdownEnds \/ FlowEnds \/ Deadline \/ TimerFires \/ CronStarts \/ RestoreStep \/ RestoreFails
    \/ OpStep \/ OpFails \/ OpDies \/ \E job \in Jobs : Begin(job)

Spec == Init /\ [][Next]_vars

\* Cron runs every minute, restore() is a process of its own, clocks go on.
Fair == WF_vars(Deadline) /\ WF_vars(CronStarts) /\ WF_vars(RestoreStep)
FairSpec == Spec /\ Fair

-----------------------------------------------------------------------------
Places ==
    {"idle", "exclusive?", "arm", "schedule", "shutdown", "stopped?", "load", "enrol", "source?", "startApp", "await",
     "rollback", "restoring", "owner?", "mark", "stopTimer", "uninstall", "uncron", "resume", "resumed?", "clean",
     "first?", "second?", "states?", "start", "started?", "quiet?", "fence"}
Calls == {"idle", "accepted?", "source?", "target?", "suspend", "fenced?", "still?", "acceptedNow?", "attest", "start"}
Ops == [job : Jobs \cup {"none"}, at : Places, stopped : BOOLEAN]
Restorations == [at : Calls, by : {"none", "cron", "op"}]

TypeOK ==
    /\ source \in {"running", "stopping", "stopped"} /\ target \in {"running", "paused"} /\ entry \in BOOLEAN
    /\ flow \in {"ready", "open", "ended", "orphan", "absent"} /\ timer \in {"none", "active", "fired", "stopped"}
    /\ armed \in BOOLEAN /\ late \in BOOLEAN /\ fence \in BOOLEAN /\ marker \in BOOLEAN /\ cron \in BOOLEAN
    /\ plan \in Plans /\ todo \subseteq plan.jobs
    /\ op \in Ops /\ op.job \in plan.jobs \cup {"none"} /\ rst \in Restorations
    /\ told \in {"nothing", "restored", "unconfirmed"} /\ faults \in 0..MaxFaults

\* "Never revive VM906 while VM905 could also command its ESPHome outputs"
\* (failback script:4): the two never own the hardware together.
NoTwoControllers == ~(source # "stopped" /\ target = "running" /\ entry)

\* "Final acceptance marker takes precedence over the deadline" (accept script
\* :68): once it is written, 905 runs and 906 does not.
AcceptedIsOwner == marker => source = "stopped" /\ target = "running"

\* The house has one controller: the two never own the hardware together while
\* cutover and acceptance run beside whatever watchdogs, or the emergency script
\* beside none; and acceptance means that 905 has it, as long as the timer is the
\* only watchdog.
OneController ==
    /\ "emergency" \notin plan.jobs \/ plan.watchdogs = {} => NoTwoControllers
    /\ "emergency" \notin plan.jobs /\ "cron" \notin plan.watchdogs => AcceptedIsOwner

\* Without acceptance the house does not stay without a controller: 906 comes
\* back, whichever script fails or dies at whichever call.
Ownerless == armed /\ source = "stopped"
Owned == source = "running" \/ marker
OwnerReturns == Ownerless ~> Owned
=============================================================================
