--------------------------- MODULE GuardedRelease ---------------------------
(***************************************************************************)
(* The guarded releases of a Home Assistant (src/gateway): scripts that    *)
(* GitHub Actions runs on Node C, one job at a time, to change the         *)
(* configuration in a virtual machine.  Each has the guest patch its       *)
(* files, has Core check the configuration, has the guest restore the      *)
(* files if the check fails, and has Core restart.  The guest's process is *)
(* not the script's: a script that gives up waiting leaves it running, and *)
(* the next job may begin meanwhile.  To compare a file and to replace it  *)
(* is one step: the few statements in between are not told apart.          *)
(*                                                                         *)
(* A file's content is the set of those who have a part in it: "base", the *)
(* releases and the numbered edits of somebody else; no content, no file.  *)
(***************************************************************************)
EXTENDS Integers, Sequences, Functions, FiniteSets

CONSTANT Plans  \* releases that follow each other, and what may disturb them

ReleasesOf(p) == DOMAIN p.scripts
\* A script, see ReleaseScripts.
IsScript(s) ==
    /\ {s.files, s.restores} \subseteq Seq(Range(s.files)) \ {<<>>} /\ IsInjective(s.files)
    /\ {s.new, s.wholes, s.reloads, Range(s.restores)} \subseteq SUBSET Range(s.files)
    /\ s.compares \in {"each", "first", "never"}
    /\ s.then \in {"restart", "reload", "nothing"} /\ s.verifies \subseteq {"up", "files", "core"}
    /\ {s.undoes, s.attests, s.looks, s.skips, s.tells, s.checks, s.leaves, s.retracts, s.confirms} \subseteq BOOLEAN
ASSUME PlanAssumption == \A p \in Plans :
    /\ \A r \in ReleasesOf(p) : IsScript(p.scripts[r])
    /\ "base" \notin ReleasesOf(p) /\ p.edits \cap (ReleasesOf(p) \cup {"base"}) = {}
    /\ p.faults \in Nat /\ {p.guestSlow, p.checkSlow} \subseteq BOOLEAN

-----------------------------------------------------------------------------

VARIABLES
    plan,    \* the one of Plans this behaviour is about
    file,    \* [Files -> content]
    broken,  \* the releases whose part Core does not accept
    script,  \* [Releases -> where the job is]
    guest,   \* [Releases -> where the job's process in the guest is]
    old,     \* [Releases -> the files as the patch has read them]
    done,    \* [Releases -> files written, or restored]
    note,    \* [Releases -> what a blocked job has told: "", "review", "unknown" or "inspect"]
    ranOut,  \* the jobs whose check was not finished
    core,    \* what Core has loaded
    up,      \* whether it accepted it
    edits,   \* those made
    faults   \* those that happened

vars == <<plan, file, broken, script, guest, old, done, note, ranOut, core, up, edits, faults>>
core_vars == <<core, up>>
env_vars == <<plan, broken, edits, faults>>

Plan == plan.scripts
Releases == DOMAIN Plan
FilesOf(r) == Range(Plan[r].files)
Files == UNION {FilesOf(r) : r \in Releases}
Created == UNION {Plan[r].new : r \in Releases}
Edits == plan.edits          \* edits by somebody else, each made at most once
Faults == plan.faults        \* bound: writes, reloads and verifications that fail
GuestSlow == plan.guestSlow  \* whether the guest may take longer than the script waits
CheckSlow == plan.checkSlow  \* whether the configuration check may

Accepted(content) == \A f \in DOMAIN content : content[f] \cap broken = {}
\* What the patch writes: what it read with its own part, or a whole new file.
With(r, f) == IF f \in Plan[r].wholes THEN {r} ELSE old[r][f] \cup {r}
InAll(r) == \A f \in FilesOf(r) : r \in file[f]
InNone(r) == \A f \in FilesOf(r) : r \notin file[f]
Busy(r) == guest[r] \in {"reading", "writing", "undoing", "comparing", "restoring"}

Init ==
    /\ plan \in Plans
    /\ file = [f \in Files |-> IF f \in Created THEN {} ELSE {"base"}]
    /\ broken \in SUBSET Releases
    /\ script = [r \in Releases |-> "waiting"] /\ guest = [r \in Releases |-> "none"]
    /\ old = [r \in Releases |-> file] /\ done = [r \in Releases |-> 0]
    /\ note = [r \in Releases |-> ""] /\ ranOut = {}
    /\ core = file /\ up = TRUE
    /\ edits = {} /\ faults = 0

GuestTo(r, where) == guest' = [guest EXCEPT ![r] = where]
ScriptTo(r, where) == script' = [script EXCEPT ![r] = where]
Blocked(r, what) == ScriptTo(r, "blocked") /\ note' = [note EXCEPT ![r] = what]
GuestStep == UNCHANGED <<plan, script, note, ranOut, core_vars, broken, edits>>
ScriptStep == UNCHANGED <<file, old, env_vars>>

-----------------------------------------------------------------------------
(* The patch, in the guest.                                                *)

Start(r) ==
    /\ script[r] = "waiting"
    /\ \A s \in Releases : script[s] \in {"waiting", "ok", "blocked"}
    /\ ScriptTo(r, "applying") /\ GuestTo(r, "reading")
    /\ UNCHANGED <<done, note, ranOut, core_vars>> /\ ScriptStep

\* The patch refuses what it does not recognise.
Refuse(r) ==
    /\ guest[r] = "reading" /\ GuestTo(r, "failed")
    /\ UNCHANGED <<file, old, done, faults>> /\ GuestStep

Read(r) ==
    /\ guest[r] = "reading"
    /\ \A f \in FilesOf(r) : file[f] = {} <=> f \in Plan[r].new
    /\ old' = [old EXCEPT ![r] = file] /\ GuestTo(r, "writing")
    /\ UNCHANGED <<file, done, faults>> /\ GuestStep

Fail(r) == GuestTo(r, IF Plan[r].undoes THEN "undoing" ELSE "failed")

\* The files whose content is compared before the next write.
Compared(r) == CASE Plan[r].compares = "each" -> {Plan[r].files[done[r] + 1]}
                 [] Plan[r].compares = "first" /\ done[r] = 0 -> FilesOf(r)
                 [] OTHER -> {}

Write(r) ==
    /\ guest[r] = "writing" /\ done[r] < Len(Plan[r].files)
    /\ IF \E f \in Compared(r) : file[f] # old[r][f]
       THEN Fail(r) /\ UNCHANGED <<file, done>>
       ELSE LET f == Plan[r].files[done[r] + 1]
            IN /\ file' = [file EXCEPT ![f] = With(r, f)]
               /\ done' = [done EXCEPT ![r] = @ + 1]
               /\ UNCHANGED guest
    /\ UNCHANGED <<old, faults>> /\ GuestStep

WriteFails(r) ==
    /\ guest[r] = "writing" /\ done[r] < Len(Plan[r].files)
    /\ faults < Faults /\ faults' = faults + 1
    /\ Fail(r)
    /\ UNCHANGED <<file, old, done>> /\ GuestStep

AsWritten(r) == \A f \in FilesOf(r) : file[f] = With(r, f)

\* The files are read back, or not.
Attest(r) ==
    /\ guest[r] = "writing" /\ done[r] = Len(Plan[r].files)
    /\ IF Plan[r].attests => AsWritten(r) THEN GuestTo(r, "applied") ELSE Fail(r)
    /\ UNCHANGED <<file, old, done, faults>> /\ GuestStep

\* One write is taken back, unless the file has changed since.
Undo(r) ==
    /\ guest[r] = "undoing"
    /\ IF done[r] = 0 THEN GuestTo(r, "failed") /\ UNCHANGED <<file, done>>
       ELSE LET f == Plan[r].files[done[r]]
            IN /\ file' = IF file[f] = With(r, f) THEN [file EXCEPT ![f] = old[r][f]] ELSE file
               /\ done' = [done EXCEPT ![r] = @ - 1]
               /\ UNCHANGED guest
    /\ UNCHANGED <<old, faults>> /\ GuestStep

-----------------------------------------------------------------------------
(* The script.                                                             *)

PatchEnds(r) ==
    /\ script[r] = "applying" /\ GuestTo(r, "none")
    /\ \/ guest[r] = "applied" /\ ScriptTo(r, IF Plan[r].checks THEN "checking" ELSE "valid") /\ UNCHANGED note
       \/ guest[r] = "failed" /\ Blocked(r, "")
    /\ UNCHANGED <<done, ranOut, core_vars>> /\ ScriptStep

\* The script stops waiting; the guest's process goes on.
GiveUp(r) ==
    /\ GuestSlow /\ Busy(r)
    /\ \/ script[r] = "applying" /\ Blocked(r, "unknown")
       \/ script[r] = "restoring" /\ Blocked(r, IF Plan[r].tells THEN "review" ELSE "")
    /\ UNCHANGED <<guest, done, ranOut, core_vars>> /\ ScriptStep

RollBack(r) == ScriptTo(r, "restoring") /\ GuestTo(r, "comparing")

\* Mutant: an answer is a success, whatever it says.
CheckEndsAsValid(r) ==
    /\ script[r] = "checking"
    /\ ScriptTo(r, "valid")
    /\ UNCHANGED <<guest, done, note, ranOut, core_vars>> /\ ScriptStep

CheckEnds(r) ==
    /\ script[r] = "checking"
    /\ IF Accepted(file) THEN ScriptTo(r, "valid") /\ UNCHANGED guest ELSE RollBack(r)
    /\ UNCHANGED <<done, note, ranOut, core_vars>> /\ ScriptStep

\* Not started, not readable or not finished in time: an exception all the same.
CheckRunsOut(r) ==
    /\ CheckSlow /\ script[r] = "checking"
    /\ IF Plan[r].leaves THEN Blocked(r, "") /\ UNCHANGED guest ELSE RollBack(r) /\ UNCHANGED note
    /\ ranOut' = ranOut \cup {r}
    /\ UNCHANGED <<done, core_vars>> /\ ScriptStep

Restored(r, f) == file' = [file EXCEPT ![f] = old[r][f]]   \* or, if new, removed

\* Mutant: a file that has changed since is restored all the same.
CompareNothing(r) ==
    /\ guest[r] = "comparing"
    /\ Restored(r, Plan[r].restores[1]) /\ GuestTo(r, "restoring") /\ done' = [done EXCEPT ![r] = 1]
    /\ UNCHANGED <<old, faults>> /\ GuestStep

\* All files are compared before the first is restored, or none is.
Compare(r) ==
    /\ guest[r] = "comparing"
    /\ IF Plan[r].looks => AsWritten(r)
       THEN Restored(r, Plan[r].restores[1]) /\ GuestTo(r, "restoring") /\ done' = [done EXCEPT ![r] = 1]
       ELSE GuestTo(r, "failed") /\ UNCHANGED <<file, done>>
    /\ UNCHANGED <<old, faults>> /\ GuestStep

Restore(r) ==
    /\ guest[r] = "restoring"
    /\ IF done[r] = Len(Plan[r].restores) THEN GuestTo(r, "restored") /\ UNCHANGED <<file, done>>
       ELSE Restored(r, Plan[r].restores[done[r] + 1]) /\ done' = [done EXCEPT ![r] = @ + 1] /\ UNCHANGED guest
    /\ UNCHANGED <<old, faults>> /\ GuestStep

RestoreFails(r) ==
    /\ ~Plan[r].skips /\ guest[r] \in {"comparing", "restoring"}
    /\ faults < Faults /\ faults' = faults + 1
    /\ GuestTo(r, "failed")
    /\ UNCHANGED <<file, old, done>> /\ GuestStep

\* A file that cannot be restored is told, and the next one restored.
RestoreSkips(r) ==
    /\ Plan[r].skips /\ guest[r] = "restoring" /\ done[r] < Len(Plan[r].restores)
    /\ faults < Faults /\ faults' = faults + 1
    /\ done' = [done EXCEPT ![r] = @ + 1] /\ note' = [note EXCEPT ![r] = "review"]
    /\ UNCHANGED <<plan, file, old, guest, script, ranOut, core_vars, broken, edits>>

\* Mutant: a rollback that fails is not told.
RollbackEndsSilently(r) ==
    /\ script[r] = "restoring" /\ guest[r] \in {"restored", "failed"}
    /\ GuestTo(r, "none") /\ Blocked(r, "")
    /\ UNCHANGED <<done, ranOut, core_vars>> /\ ScriptStep

RollbackEnds(r) ==
    /\ script[r] = "restoring" /\ guest[r] \in {"restored", "failed"}
    /\ GuestTo(r, "none")
    /\ \/ guest[r] = "failed" /\ Blocked(r, IF Plan[r].tells THEN "review" ELSE note[r])
       \/ guest[r] = "restored" /\ UNCHANGED note
          /\ ScriptTo(r, IF Plan[r].retracts THEN "returning" ELSE "blocked")
    /\ UNCHANGED <<done, ranOut, core_vars>> /\ ScriptStep

Restarted == core' = file /\ up' = Accepted(file)
\* A reload is of automations: the dashboards and helpers stay as loaded.
Reloaded(r) == core' = [f \in Files |-> IF f \in Plan[r].reloads THEN file[f] ELSE core[f]] /\ UNCHANGED up

\* Once it may have been loaded, a release that fails is taken back, or left to be inspected.
Fails(r) == IF Plan[r].retracts THEN RollBack(r) /\ UNCHANGED note ELSE Blocked(r, "inspect") /\ UNCHANGED guest

Restart(r) ==
    /\ script[r] = "valid" /\ Plan[r].then = "restart"
    /\ Restarted /\ ScriptTo(r, "verifying")
    /\ UNCHANGED <<guest, done, note, ranOut>> /\ ScriptStep

Reload(r) ==
    /\ script[r] = "valid" /\ Plan[r].then = "reload"
    /\ Reloaded(r) /\ ScriptTo(r, "verifying")
    /\ UNCHANGED <<guest, done, note, ranOut>> /\ ScriptStep

\* Where a reload is not possible Core is restarted, and nothing verified.
RestartInstead(r) ==
    /\ script[r] = "valid" /\ Plan[r].then = "reload" /\ ~Plan[r].retracts
    /\ Restarted /\ ScriptTo(r, "ok")
    /\ UNCHANGED <<guest, done, note, ranOut>> /\ ScriptStep

\* Somebody is left to reload, or Home Assistant reads the file by itself.
Leave(r) ==
    /\ script[r] = "valid" /\ Plan[r].then = "nothing"
    /\ IF "files" \in Plan[r].verifies => InAll(r) THEN ScriptTo(r, "ok") /\ UNCHANGED guest ELSE RollBack(r)
    /\ UNCHANGED <<done, note, ranOut, core_vars>> /\ ScriptStep

\* The restart is not confirmed: it is not tried again.
RestartUnseen(r) ==
    /\ GuestSlow /\ script[r] = "valid" /\ Plan[r].then # "nothing"
    /\ \/ core' = file /\ up' = Accepted(file)
       \/ UNCHANGED core_vars
    /\ Fails(r)
    /\ UNCHANGED <<done, ranOut>> /\ ScriptStep

\* The reload of a release that is taken back when it fails.
ReloadFails(r) ==
    /\ script[r] = "valid" /\ Plan[r].retracts
    /\ faults < Faults /\ faults' = faults + 1
    /\ Fails(r)
    /\ UNCHANGED <<plan, file, old, broken, edits, done, ranOut, core_vars>>

Verified(r) ==
    /\ "up" \in Plan[r].verifies => up
    /\ "files" \in Plan[r].verifies => InAll(r)
    /\ "core" \in Plan[r].verifies => \A f \in FilesOf(r) : f \in Plan[r].reloads \/ Plan[r].reloads = {} => r \in core[f]

Verify(r) ==
    /\ script[r] = "verifying"
    /\ IF Verified(r) THEN ScriptTo(r, "ok") /\ UNCHANGED <<guest, note>> ELSE Fails(r)
    /\ UNCHANGED <<done, ranOut, core_vars>> /\ ScriptStep

\* What was loaded does not show in time.
VerifyFails(r) ==
    /\ script[r] = "verifying" /\ Plan[r].retracts
    /\ faults < Faults /\ faults' = faults + 1
    /\ Fails(r)
    /\ UNCHANGED <<plan, file, old, broken, edits, done, ranOut, core_vars>>

\* After a release has been taken back Core loads the files as they are now:
\* by a restart if it accepts them, or by a reload.
Return(r) ==
    /\ script[r] = "returning" /\ ScriptTo(r, "blocked")
    /\ \/ Plan[r].then = "reload" /\ Reloaded(r)
       \/ Plan[r].then = "restart" /\ IF Accepted(file) THEN Restarted ELSE UNCHANGED core_vars
    /\ UNCHANGED <<guest, done, note, ranOut>> /\ ScriptStep

\* A reload that does not succeed is told only where its answer is looked at.
ReturnFails(r) ==
    /\ script[r] = "returning"
    /\ faults < Faults /\ faults' = faults + 1
    /\ Blocked(r, IF Plan[r].confirms THEN "review" ELSE note[r])
    /\ UNCHANGED <<plan, file, old, broken, edits, guest, done, ranOut, core_vars>>

\* Somebody changes a file: Home Assistant's own editor, or the Steward.
Edit(e, f) ==
    /\ e \notin edits /\ edits' = edits \cup {e}
    /\ file[f] # {} /\ file' = [file EXCEPT ![f] = @ \cup {e}]
    /\ UNCHANGED <<plan, broken, script, guest, old, done, note, ranOut, core_vars, faults>>

-----------------------------------------------------------------------------

\* What goes on by itself: the process in the guest, and the job.
Patching(r) == Refuse(r) \/ Read(r) \/ Write(r) \/ Attest(r) \/ Undo(r)
Restoring(r) == Compare(r) \/ Restore(r)
Job(r) ==
    \/ Start(r) \/ PatchEnds(r) \/ CheckEnds(r) \/ RollbackEnds(r)
    \/ Restart(r) \/ Reload(r) \/ RestartInstead(r) \/ Leave(r) \/ Verify(r) \/ Return(r)

Next ==
    \/ \E r \in Releases :
        \/ Patching(r) \/ Restoring(r) \/ Job(r)
        \/ WriteFails(r) \/ RestoreFails(r) \/ RestoreSkips(r) \/ GiveUp(r)
        \/ CheckRunsOut(r) \/ RestartUnseen(r) \/ ReloadFails(r) \/ VerifyFails(r) \/ ReturnFails(r)
    \/ \E e \in Edits, f \in Files : Edit(e, f)

Spec == Init /\ [][Next]_vars

-----------------------------------------------------------------------------
(* Properties.                                                             *)

Contents == SUBSET ({"base"} \cup Releases \cup Edits)
TypeOK ==
    /\ plan \in Plans /\ file \in [Files -> Contents] /\ core \in [Files -> Contents]
    /\ broken \subseteq Releases /\ ranOut \subseteq Releases /\ up \in BOOLEAN
    /\ script \in [Releases -> {"waiting", "applying", "checking", "restoring", "returning",
                                "valid", "verifying", "ok", "blocked"}]
    /\ guest \in [Releases -> {"none", "reading", "writing", "undoing", "applied", "failed",
                               "comparing", "restoring", "restored"}]
    /\ old \in [Releases -> [Files -> Contents]] /\ done \in [Releases -> Nat]
    /\ note \in [Releases -> {"", "review", "unknown", "inspect"}]
    /\ edits \subseteq Edits /\ faults \in 0..Faults

\* Nobody else changes a file, and no process outlives its job.
Quiet == Edits = {} /\ ~GuestSlow

\* A script that takes back what it has written, all of it, or tells.
TakesBack(r) ==
    /\ Plan[r].undoes \/ Len(Plan[r].files) = 1
    /\ Range(Plan[r].restores) = FilesOf(r) /\ (Plan[r].tells \/ Faults = 0)
\* Another release writes one of its files whatever is in it.
Overwritten(r) == \E s \in Releases \ {r} : FilesOf(r) \cap Plan[s].wholes # {}

\* A release is in all of its files or in none, once its process in the guest
\* has ended, unless the job has asked for a review.
WholeOrNone(r) == Busy(r) \/ script[r] = "restoring" \/ note[r] = "review" \/ InAll(r) \/ InNone(r)

\* A job that is blocked and has nothing else to tell has left nothing behind,
\* unless it ends with a check that is late.
BlockedLeavesNothing(r) ==
    script[r] = "blocked" /\ note[r] = "" /\ ~(Plan[r].leaves /\ CheckSlow) => InNone(r)

\* Nor has it left anything loaded, where the answer to the second reload is
\* looked at and a restart after the rollback finds what the check accepted.
BlockedRunsNothing(r) ==
    script[r] = "blocked" /\ note[r] = "" /\ ~(Plan[r].leaves /\ CheckSlow)
        /\ Plan[r].confirms /\ (Plan[r].retracts => Plan[r].checks /\ Plan[r].wholes = {})
    => \A f \in FilesOf(r) : r \notin core[f]

\* A release of a script that takes back what it has written is whole or gone:
\* in all of its files or in none, and a job that is blocked and has nothing to
\* tell has left nothing behind, nor loaded; whatever the other scripts are like,
\* as long as nobody else changes a file and none writes one of its files whatever
\* is in it.
WholeOrGone ==
    /\ TypeOK
    /\ Quiet => \A r \in Releases : TakesBack(r) /\ ~Overwritten(r) =>
           WholeOrNone(r) /\ BlockedLeavesNothing(r) /\ BlockedRunsNothing(r)

\* A script that looks at each file just before it changes it.
Watches(r) ==
    /\ Plan[r].looks /\ Len(Plan[r].restores) = 1
    /\ \/ Plan[r].compares = "each"
       \/ Plan[r].compares = "first" /\ Len(Plan[r].files) = 1

\* Nothing but a release's own undoing or rollback takes its part out of a
\* file, and nothing takes out anybody else's, in files that are not written as a
\* whole: where nobody else changes a file, or, whatever edits and releases that
\* were given up come in between, where each script looks just before.
KeepsOthers ==
    \A f \in DOMAIN file \ UNION {Plan[r].wholes : r \in Releases} : \A x \in file[f] \ file'[f] :
        x \in Releases /\ guest[x] \in {"undoing", "comparing", "restoring"}
OthersAreKept == [][Quiet \/ (\A r \in Releases : Watches(r)) => KeepsOthers]_vars

\* A job whose patch Core has checked, or that leaves Core alone, ends with a
\* configuration that Core accepts, whatever edits come in between.
StartsAccepted == \A r \in Releases : script[r] = "valid" /\ script'[r] # "valid" => up'
StartedIsAccepted ==
    [][~GuestSlow /\ (\A r \in Releases : Plan[r].checks \/ Plan[r].then = "nothing") => StartsAccepted]_vars

\* What Core does not accept does not stay in the files: Refused(r) ~> InNone(r).
Refused(r) == r \in broken /\ ~InNone(r)
=============================================================================
