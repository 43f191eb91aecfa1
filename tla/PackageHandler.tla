--------------------------- MODULE PackageHandler ---------------------------
(***************************************************************************)
(* The gateway's package handler (ha-package-install-handler-v1.sh): one   *)
(* job after the other puts a package file on the Home Assistant machine   *)
(* by a row of commands run there through its guest agent, and a trap on   *)
(* EXIT that puts the previous file back.                                  *)
(*                                                                         *)
(* guest_exec gives up on a command it cannot start, on one that fails,    *)
(* on one whose status it cannot read, and on one not finished after 180   *)
(* seconds.  The last two may still take effect later.                     *)
(***************************************************************************)
EXTENDS Naturals

CONSTANTS
    Packages, Valid,  \* the contents a job may bring, and those the check accepts
    Prior, Absent, Torn,
    MaxJobs,          \* bound: how many jobs
    Machines          \* what the commands and the handler may suffer, of which a behaviour draws one

\* The step after each one, in the order of the handler.
Follows == [backup |-> "write", write |-> "sum", sum |-> "check", check |-> "restart",
            restart |-> "info", info |-> "verify", verify |-> "idle"]
Commands == DOMAIN Follows \cup {"rollback"}
Contents == Packages \cup {Prior, Absent, Torn}

\* fails: steps whose command may not run, or fail in the guest; late: those whose
\* command may take effect after the handler gave up; dies: whether the handler may
\* die without its trap.
Mishaps == [fails : SUBSET Commands, late : SUBSET Commands, dies : BOOLEAN]

ASSUME ContentAssumption ==
    /\ Valid \subseteq Packages /\ Prior \notin Packages
    /\ {Absent, Torn} \cap (Packages \cup {Prior}) = {} /\ Absent # Torn
ASSUME MachineAssumption == MaxJobs \in Nat /\ Machines \subseteq Mishaps

VARIABLES
    machine,  \* the one of Machines that this behaviour is about
    disk,     \* the package file, each job's backup of it, and what Core runs with
    job, pc,  \* the job and its next step, "idle" between two jobs
    content,  \* [jobs -> what the job brings]
    handlerLate,  \* commands given up that may still take effect
    outcome,  \* [jobs -> "none", "ok", "failed" or "killed"]
    before    \* ghost: [jobs -> the package file when the job began]

handlerVars == <<machine, disk, job, pc, content, handlerLate, outcome, before>>
JobIds == 1..MaxJobs

HandlerInit ==
    /\ machine \in Machines
    /\ disk \in [target : {Prior, Absent}, backup : {[j \in JobIds |-> Absent]}, loaded : {Prior}]
    /\ job = 0 /\ pc = "idle" /\ handlerLate = {}
    /\ content = [j \in JobIds |-> Absent]
    /\ outcome = [j \in JobIds |-> "none"]
    /\ before = [j \in JobIds |-> Absent]

\* What a command does to the machine.
Effect(command, j, d) ==
    CASE command = "backup" /\ d.target # Absent -> [d EXCEPT !.backup[j] = d.target]
      [] command = "write" -> [d EXCEPT !.target = content[j]]
      [] command = "restart" -> [d EXCEPT !.loaded = d.target]
      [] command = "rollback" -> [d EXCEPT !.target = d.backup[j], !.backup[j] = Absent]
      [] OTHER -> d

\* Mutant: the configuration check is not looked at.
AcceptsUnchecked(command) == command = "sum" => disk.target = content[job]

\* Whether the command, run now, ends with status 0 and the answer wanted.
Accepts(command) ==
    /\ command = "sum" => disk.target = content[job]
    /\ command = "check" => disk.target \notin Packages \ Valid

\* The job is over.
EndJob(result) == outcome' = [outcome EXCEPT ![job] = result] /\ pc' = "idle"

-----------------------------------------------------------------------------

BeginJob ==
    /\ pc = "idle" /\ job < MaxJobs
    /\ job' = job + 1
    /\ \E c \in Packages : content' = [content EXCEPT ![job'] = c]
    /\ before' = [before EXCEPT ![job'] = disk.target]
    /\ pc' = "backup"
    /\ UNCHANGED <<machine, disk, handlerLate, outcome>>

\* The machine is not running: the job ends before the trap is set.
NotRunning ==
    /\ pc = "idle" /\ job < MaxJobs
    /\ job' = job + 1
    /\ before' = [before EXCEPT ![job'] = disk.target]
    /\ outcome' = [outcome EXCEPT ![job'] = "failed"]
    /\ UNCHANGED <<machine, disk, pc, content, handlerLate>>

Running == pc # "idle" /\ pc # "rollback"

\* A command runs and its answer is seen.
Answered ==
    /\ Running
    /\ disk' = Effect(pc, job, disk)
    /\ IF ~Accepts(pc) THEN pc' = "rollback" /\ UNCHANGED outcome
       ELSE IF Follows[pc] = "idle" THEN EndJob("ok")
       ELSE pc' = Follows[pc] /\ UNCHANGED outcome
    /\ UNCHANGED <<machine, job, content, handlerLate, before>>

\* A command does not run, or fails in the guest: a failed copy may leave part
\* of the file.
Failed ==
    /\ Running /\ pc \in machine.fails
    /\ disk' \in {disk} \cup (IF pc = "backup" /\ disk.target # Absent
                              THEN {[disk EXCEPT !.backup[job] = Torn]} ELSE {})
    /\ pc' = "rollback"
    /\ UNCHANGED <<machine, job, content, handlerLate, outcome, before>>

\* The handler gives up on a command that goes on in the guest.
GaveUp ==
    /\ Running /\ pc \in machine.late
    /\ handlerLate' = handlerLate \cup {<<pc, job>>}
    /\ pc' = "rollback"
    /\ UNCHANGED <<machine, disk, job, content, outcome, before>>

Later ==
    /\ \E c \in handlerLate : disk' = Effect(c[1], c[2], disk) /\ handlerLate' = handlerLate \ {c}
    /\ UNCHANGED <<machine, job, pc, content, outcome, before>>

\* The trap; its own failure is ignored.
RollBack ==
    /\ pc = "rollback" /\ EndJob("failed")
    /\ \/ disk' = Effect("rollback", job, disk) /\ UNCHANGED handlerLate
       \/ "rollback" \in machine.fails /\ UNCHANGED <<disk, handlerLate>>
       \/ "rollback" \in machine.late /\ handlerLate' = handlerLate \cup {<<"rollback", job>>} /\ UNCHANGED disk
    /\ UNCHANGED <<machine, job, content, before>>

\* The handler or its machine dies; the command it waited for may go on.
Killed ==
    /\ machine.dies /\ pc # "idle" /\ EndJob("killed")
    /\ handlerLate' \in {handlerLate} \cup (IF pc \in machine.late THEN {handlerLate \cup {<<pc, job>>}} ELSE {})
    /\ UNCHANGED <<machine, disk, job, content, before>>

HandlerNext == BeginJob \/ NotRunning \/ Answered \/ Failed \/ GaveUp \/ Later \/ RollBack \/ Killed
HandlerSpec == HandlerInit /\ [][HandlerNext]_handlerVars

-----------------------------------------------------------------------------
(* Properties.                                                             *)

HandlerTypeOK ==
    /\ machine \in Machines
    /\ disk \in [target : Contents, backup : [JobIds -> Contents], loaded : Contents]
    /\ job \in 0..MaxJobs /\ pc \in Commands \cup {"idle"}
    /\ content \in [JobIds -> Packages \cup {Absent}] /\ before \in [JobIds -> Contents]
    /\ outcome \in [JobIds -> {"none", "ok", "failed", "killed"}]
    /\ handlerLate \subseteq Commands \X JobIds

\* The backup can be made, the handler lives, and what it gives up changes nothing.
Looking == {"sum", "check", "info", "verify"}
Spared == machine.fails \cap {"backup", "rollback"} = {} /\ machine.late \subseteq Looking /\ ~machine.dies

\* A job that failed leaves the package file as it found it.
FailedIsRestored ==
    Spared /\ pc = "idle" /\ job > 0 => (outcome[job] = "failed" => disk.target = before[job])

\* A job reports success only when its package is the one in place, is one the
\* check accepts, and is the one Core runs with.
SuccessIsInstalled ==
    Spared /\ pc = "idle" /\ job > 0 =>
        (outcome[job] = "ok" => /\ disk.target = content[job] /\ disk.loaded = content[job]
                                /\ content[job] \in Valid)

\* Core never starts with a package the check refuses.
LoadedIsValid == Spared => disk.loaded \notin Packages \ Valid

\* No package file that a job found is ever lost: it is in place or in a
\* backup, although commands fail, the rollback too, the handler dies, and a
\* restart takes effect late.
PriorIsKept ==
    "backup" \notin machine.fails /\ machine.late \subseteq Looking \cup {"restart"} =>
        \A j \in JobIds : before[j] \in {Absent, disk.target} \cup {disk.backup[i] : i \in JobIds}

\* A package job did what it says: one that failed leaves the file as it found it, one
\* that succeeded has its package in place and loaded, Core never starts with a
\* package the check refuses (all this if the backup can be made and the handler
\* lives); and no file a job found is lost, though handlers die and restarts are late.
HandlerIsHonest ==
    /\ HandlerTypeOK /\ PriorIsKept
    /\ FailedIsRestored /\ SuccessIsInstalled /\ LoadedIsValid
=============================================================================
