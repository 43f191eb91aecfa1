---------------------------- MODULE StewardApply ----------------------------
(***************************************************************************)
(* POST /api/apply-automation of Natural Automation: a stored proposal is  *)
(* re-checked against Home Assistant, a script in the guest backs          *)
(* automations.yaml up and appends the automation, then the configuration  *)
(* is checked, Home Assistant restarted and the entry read back; a failure *)
(* puts the backup back.  The server answers every request in a thread of  *)
(* its own, and a script goes on in the guest when its caller gives up.    *)
(*                                                                         *)
(* External: the guest's commands succeed or fail; the Home Assistant      *)
(* editor changes the same file.  A script's write of its temporary file   *)
(* is one step.                                                            *)
(***************************************************************************)
EXTENDS Naturals, FiniteSets

CONSTANTS
    Requests,     \* requests to apply a proposal; each makes an entry with an id of its own
    Proposals,    \* stored proposals
    Target,       \* the entity each of them controls
    Additions,    \* automations for other entities somebody adds in the editor
    Concurrency,  \* how many requests are served at a time
    Seconds,      \* bound: the seconds in which a request may start
    ApplyLimits   \* bounds: how often each of these may happen, in each of the plans

ApplyMishaps == {"command",  \* a command of the guest fails
            "undo",     \* a command of the restoration fails
            "lost",     \* the answer of the writing script is late or unreadable
            "blind",    \* the automations cannot be read for the re-check
            "record",   \* recording the success fails
            "crash",    \* the service stops; systemd starts it again
            "post"}     \* a request is posted

ASSUME ApplyAssumption ==
    /\ IsFiniteSet(Requests) /\ Requests \cap Additions = {} /\ Proposals # {}
    /\ Concurrency \in Nat /\ Seconds \in Nat \ {0} /\ ApplyLimits \subseteq [ApplyMishaps -> Nat]

Entries == Requests \cup Additions
\* automations.yaml: whether the file is there, and its entries.
YamlFiles == [there : BOOLEAN, entries : SUBSET Entries]
NoFile == [there |-> FALSE, entries |-> {}]
WithEntries(s) == [there |-> TRUE, entries |-> s]

VARIABLES
    present,      \* proposals in the ProposalStore
    automations,  \* automations.yaml
    tmp,          \* automations.yaml.steward.tmp
    backups,      \* .steward-backups, a file for each second
    running,      \* the entries Home Assistant runs
    clock,        \* the second
    applyPc,      \* where the handler of a request is
    wants,        \* the proposal a request names
    stamp,        \* the second its backup is named for
    inGuest,      \* where its script in the guest is
    existed,      \* what the script found
    data,         \* and read
    answer,       \* what the request was told
    prior,        \* ghost: the file the script backed up
    applyBudget,  \* what may still happen
    granted       \* what might at first

yaml == <<automations, tmp, backups>>
inGuestVars == <<inGuest, existed, data, prior>>
grants == <<applyBudget, granted>>
applyVars == <<present, yaml, inGuestVars, running, clock, applyPc, wants, stamp, answer, grants>>

ApplyInit ==
    /\ present = Proposals /\ automations \in {NoFile, WithEntries({})} /\ tmp = NoFile
    /\ backups = [s \in 1..Seconds |-> NoFile] /\ running = {} /\ clock = 1
    /\ applyPc = [r \in Requests |-> "idle"] /\ wants = [r \in Requests |-> CHOOSE p \in Proposals : TRUE]
    /\ stamp = [r \in Requests |-> 1] /\ inGuest = [r \in Requests |-> "off"]
    /\ existed = [r \in Requests |-> FALSE] /\ data = [r \in Requests |-> {}]
    /\ answer = [r \in Requests |-> "none"] /\ prior = [r \in Requests |-> NoFile]
    /\ granted \in ApplyLimits /\ applyBudget = granted

Proceed(r, from, to) == applyPc[r] = from /\ applyPc' = [applyPc EXCEPT ![r] = to]
Say(r, what) == applyPc' = [applyPc EXCEPT ![r] = "done"] /\ answer' = [answer EXCEPT ![r] = what]
ScriptGoes(r, from, to) == inGuest[r] = from /\ inGuest' = [inGuest EXCEPT ![r] = to]
SpendApply(mishap) ==
    /\ applyBudget[mishap] > 0 /\ applyBudget' = [applyBudget EXCEPT ![mishap] = @ - 1]
    /\ UNCHANGED granted
Tick == clock < Seconds /\ clock' = clock + 1

-----------------------------------------------------------------------------
(* The handler up to the script.                                           *)

Served == {r \in Requests : applyPc[r] \notin {"idle", "done", "dead"}}

Post(r, p) ==
    /\ applyPc[r] = "idle" /\ Cardinality(Served) < Concurrency /\ SpendApply("post")
    /\ wants' = [wants EXCEPT ![r] = p]
    /\ IF p \in present THEN applyPc' = [applyPc EXCEPT ![r] = "recheck"] /\ UNCHANGED answer
       ELSE Say(r, "refused")
    /\ UNCHANGED <<present, yaml, inGuestVars, running, clock, stamp>>

Expire(p) ==
    /\ p \in present /\ present' = present \ {p}
    /\ UNCHANGED <<yaml, inGuestVars, running, clock, applyPc, wants, stamp, answer, grants>>

\* An entry of the file controls the proposal's target.
Conflict(r) == \E e \in automations.entries \cap Requests : Target[wants[e]] = Target[wants[r]]

Launch(r) ==
    /\ stamp' = [stamp EXCEPT ![r] = clock]
    /\ inGuest' = [inGuest EXCEPT ![r] = "backup"] /\ applyPc' = [applyPc EXCEPT ![r] = "script"]

Recheck(r) ==
    /\ applyPc[r] = "recheck"
    /\ IF Conflict(r) THEN Say(r, "refused") /\ UNCHANGED <<stamp, inGuest>>
       ELSE Launch(r) /\ UNCHANGED answer
    /\ UNCHANGED <<present, yaml, existed, data, prior, running, clock, wants, grants>>

\* ha_snapshot turns an automation list it cannot read into an empty one.
RecheckBlind(r) ==
    /\ applyPc[r] = "recheck" /\ SpendApply("blind") /\ Launch(r)
    /\ UNCHANGED <<present, yaml, existed, data, prior, running, clock, wants, answer>>

-----------------------------------------------------------------------------
(* The script in the guest.                                                *)

BackUp(r) ==
    /\ ScriptGoes(r, "backup", "read")
    /\ existed' = [existed EXCEPT ![r] = automations.there]
    /\ backups' = [backups EXCEPT ![stamp[r]] = WithEntries(automations.entries)]
    /\ prior' = [prior EXCEPT ![r] = automations]
    /\ UNCHANGED <<present, automations, tmp, data, running, clock, applyPc, wants, stamp, answer, grants>>

Appended(r) == automations.entries \cup {r}

ReadYaml(r) ==
    /\ IF existed[r] /\ ~automations.there THEN ScriptGoes(r, "read", "failed") /\ UNCHANGED data
       ELSE ScriptGoes(r, "read", "write")
            /\ data' = [data EXCEPT ![r] = IF existed[r] THEN Appended(r) ELSE {r}]
    /\ UNCHANGED <<present, yaml, existed, prior, running, clock, applyPc, wants, stamp, answer, grants>>

WriteTmp(r) ==
    /\ ScriptGoes(r, "write", "replace")
    /\ tmp' = WithEntries(data[r])
    /\ UNCHANGED <<present, automations, backups, existed, data, prior, running, clock, applyPc, wants, stamp, answer, grants>>

ReplaceYaml(r) ==
    /\ IF tmp.there THEN ScriptGoes(r, "replace", "done") /\ automations' = tmp /\ tmp' = NoFile
       ELSE ScriptGoes(r, "replace", "failed") /\ UNCHANGED <<automations, tmp>>
    /\ UNCHANGED <<present, backups, existed, data, prior, running, clock, applyPc, wants, stamp, answer, grants>>

-----------------------------------------------------------------------------
(* The handler after the script.                                           *)

Meta(r) ==
    /\ applyPc[r] = "script"
    /\ \/ inGuest[r] = "done" /\ applyPc' = [applyPc EXCEPT ![r] = "check"] /\ UNCHANGED answer
       \/ inGuest[r] = "failed" /\ Say(r, "error")
    /\ UNCHANGED <<present, yaml, inGuestVars, running, clock, wants, stamp, grants>>

\* After 90 s, or without the expected output, the handler answers; the
\* script is not stopped.
Lost(r) ==
    /\ applyPc[r] = "script" /\ SpendApply("lost") /\ Tick /\ Say(r, "error")
    /\ UNCHANGED <<present, yaml, inGuestVars, running, wants, stamp>>

CheckConfig(r) ==
    /\ \/ Proceed(r, "check", "restart") /\ UNCHANGED grants
       \/ Proceed(r, "check", "restore") /\ SpendApply("command")
    /\ UNCHANGED <<present, yaml, inGuestVars, running, clock, wants, stamp, answer>>

RestartCore(r) ==
    /\ \/ Proceed(r, "restart", "verify") /\ running' = automations.entries /\ UNCHANGED grants
       \/ Proceed(r, "restart", "restore") /\ running' \in {running, automations.entries} /\ SpendApply("command")
    /\ UNCHANGED <<present, yaml, inGuestVars, clock, wants, stamp, answer>>

\* Home Assistant is waited for, then the entry looked for in the file.
VerifyEntry(r) ==
    /\ \/ r \in automations.entries /\ Proceed(r, "verify", "record") /\ UNCHANGED grants
       \/ r \notin automations.entries /\ Proceed(r, "verify", "restore") /\ UNCHANGED grants
       \/ Proceed(r, "verify", "restore") /\ SpendApply("command")
    /\ UNCHANGED <<present, yaml, inGuestVars, running, clock, wants, stamp, answer>>

RecordSuccess(r) ==
    /\ applyPc[r] = "record"
    /\ \/ Say(r, "ok") /\ UNCHANGED grants /\ present' = present \ {wants[r]}
       \/ Say(r, "error") /\ SpendApply("record") /\ present' \in {present, present \ {wants[r]}}
    /\ UNCHANGED <<yaml, inGuestVars, running, clock, wants, stamp>>

-----------------------------------------------------------------------------
(* _restore, and the restart after it.                                     *)

FromBackup(r) == IF existed[r] THEN backups[stamp[r]] ELSE NoFile

RestoreBackup(r) ==
    /\ applyPc[r] = "restore"
    /\ \/ automations' = FromBackup(r) /\ Proceed(r, "restore", "restart back") /\ UNCHANGED <<answer, grants>>
       \/ Say(r, "error") /\ SpendApply("undo") /\ UNCHANGED automations
    /\ UNCHANGED <<present, tmp, backups, inGuestVars, running, clock, wants, stamp>>

\* Mutant: Home Assistant is left as it is.
RestartBackNot(r) ==
    /\ applyPc[r] = "restart back" /\ Say(r, "error")
    /\ UNCHANGED <<present, yaml, inGuestVars, running, clock, wants, stamp, grants>>

RestartBack(r) ==
    /\ applyPc[r] = "restart back" /\ Say(r, "error")
    /\ \/ running' = automations.entries /\ UNCHANGED grants
       \/ UNCHANGED running /\ SpendApply("undo")
    /\ UNCHANGED <<present, yaml, inGuestVars, clock, wants, stamp>>

-----------------------------------------------------------------------------
(* The world around.                                                       *)

SecondPasses ==
    /\ Tick
    /\ UNCHANGED <<present, yaml, inGuestVars, running, applyPc, wants, stamp, answer, grants>>

\* The editor saves an automation and has the automations reloaded.
EditYaml(e) ==
    /\ e \notin automations.entries \cup UNION {backups[s].entries : s \in 1..Seconds}
    /\ e \notin UNION {data[r] : r \in Requests}
    /\ automations' = WithEntries(automations.entries \cup {e}) /\ running' = automations'.entries
    /\ UNCHANGED <<present, tmp, backups, inGuestVars, clock, applyPc, wants, stamp, answer, grants>>

\* Proposals are kept in memory only.
ServiceDies ==
    /\ SpendApply("crash") /\ Tick
    /\ present' = {}
    /\ applyPc' = [r \in Requests |-> IF r \in Served THEN "dead" ELSE applyPc[r]]
    /\ UNCHANGED <<yaml, inGuestVars, running, wants, stamp, answer>>

ApplyScriptStep(r) == BackUp(r) \/ ReadYaml(r) \/ WriteTmp(r) \/ ReplaceYaml(r)
ApplyHandlerStep(r) ==
    \/ Recheck(r) \/ Meta(r) \/ CheckConfig(r) \/ RestartCore(r) \/ VerifyEntry(r)
    \/ RecordSuccess(r) \/ RestoreBackup(r) \/ RestartBack(r)

ApplyNext ==
    \/ \E r \in Requests : ApplyHandlerStep(r) \/ ApplyScriptStep(r) \/ RecheckBlind(r) \/ Lost(r)
    \/ \E p \in Proposals : Expire(p) \/ \E r \in Requests : Post(r, p)
    \/ \E e \in Additions : EditYaml(e)
    \/ SecondPasses \/ ServiceDies

ApplySpec == ApplyInit /\ [][ApplyNext]_applyVars
\* The threads of the server and the commands of the guest go on.
ApplyFairSpec == ApplySpec /\ \A r \in Requests : WF_applyVars(ApplyHandlerStep(r)) /\ WF_applyVars(ApplyScriptStep(r))

-----------------------------------------------------------------------------
(* Properties.                                                             *)

ApplyTypeOK ==
    /\ present \subseteq Proposals /\ {automations, tmp} \subseteq YamlFiles
    /\ backups \in [1..Seconds -> YamlFiles] /\ running \subseteq Entries /\ clock \in 1..Seconds
    /\ applyPc \in [Requests -> {"idle", "recheck", "script", "check", "restart", "verify", "record",
                            "restore", "restart back", "done", "dead"}]
    /\ wants \in [Requests -> Proposals] /\ stamp \in [Requests -> 1..Seconds]
    /\ inGuest \in [Requests -> {"off", "backup", "read", "write", "replace", "done", "failed"}]
    /\ existed \in [Requests -> BOOLEAN] /\ data \in [Requests -> SUBSET Entries]
    /\ prior \in [Requests -> YamlFiles] /\ answer \in [Requests -> {"none", "ok", "refused", "error"}]
    /\ {applyBudget, granted} \subseteq [ApplyMishaps -> Nat]

\* With one request at a time, and answers in time, a script ends before its request.
InTime == Concurrency = 1 /\ granted["lost"] = 0 /\ granted["crash"] = 0

\* What was answered as applied is in the file, and Home Assistant runs it,
\* whatever the requests after it met.
AppliedIsKept ==
    InTime => \A r \in Requests : answer[r] = "ok" => r \in automations.entries \cap running

\* A request that was answered with an error has left no entry, neither in the
\* file nor in what Home Assistant runs, unless a command of the restoration or the
\* recording failed.
FailedIsUndone ==
    InTime /\ applyBudget["undo"] = granted["undo"] /\ granted["record"] = 0 =>
        \A r \in Requests : answer[r] = "error" => r \notin automations.entries \cup running

\* A target never gets two automations from this service, if the re-check can read them.
OneController ==
    InTime /\ granted["blind"] = 0 =>
        \A r, s \in automations.entries \cap Requests : Target[wants[r]] = Target[wants[s]] => r = s

\* While a request has changed the file and is not answered, its backup holds
\* what it found; also after the service died.
BackupIsPrior ==
    Concurrency = 1 =>
        \A r \in Requests : inGuest[r] = "done" /\ answer[r] = "none" =>
            backups[stamp[r]].entries = prior[r].entries

\* Applying an automation is transactional, with one request at a time: in time,
\* what was answered as applied stays in the file and runs, an error has left no
\* entry, no entity gets two automations; and whoever has changed the file has a
\* backup of what it found, also after the service died or an answer was lost.
ApplyIsTransactional ==
    ApplyTypeOK /\ AppliedIsKept /\ FailedIsUndone /\ OneController /\ BackupIsPrior

\* Every request that is posted gets an answer, and its restoration ends.
ApplyAccepted(r) == applyPc[r] = "recheck"
ApplyEnded(r) == applyPc[r] \in {"done", "dead"}
ApplyAnswered == \A r \in Requests : ApplyAccepted(r) ~> ApplyEnded(r)
=============================================================================
