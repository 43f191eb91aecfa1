------------------------ MODULE GuardedReleaseProofs ------------------------
(***************************************************************************)
(* What the guarded releases promise (WholeOrGone, OthersAreKept,          *)
(* StartedIsAccepted) for any scripts in any order, any number of faults   *)
(* and any edits, under the conditions that the properties name.           *)
(***************************************************************************)
EXTENDS GuardedRelease, SequenceTheorems, TLAPS

-----------------------------------------------------------------------------
(* The plan stays, and what is defined from it.                            *)

Scripts == {"waiting", "applying", "checking", "restoring", "returning",
            "valid", "verifying", "ok", "blocked"}
Guests == {"none", "reading", "writing", "undoing", "applied", "failed",
           "comparing", "restoring", "restored"}

\* The steps of one release.
Act(r) ==
    \/ Start(r) \/ Refuse(r) \/ Read(r) \/ Write(r) \/ WriteFails(r) \/ Attest(r) \/ Undo(r)
    \/ PatchEnds(r) \/ GiveUp(r) \/ CheckEnds(r) \/ CheckRunsOut(r)
    \/ Compare(r) \/ Restore(r) \/ RestoreFails(r) \/ RestoreSkips(r) \/ RollbackEnds(r)
    \/ Restart(r) \/ Reload(r) \/ RestartInstead(r) \/ Leave(r) \/ RestartUnseen(r) \/ ReloadFails(r)
    \/ Verify(r) \/ VerifyFails(r) \/ Return(r) \/ ReturnFails(r)

LEMMA Steps ==
    ASSUME [Next]_vars
    PROVE  \/ \E r \in Releases : Act(r)
           \/ \E e \in Edits, f \in Files : Edit(e, f)
           \/ UNCHANGED vars
  BY DEF Next, Act, Patching, Restoring, Job

LEMMA PlanStays ==
    ASSUME [Next]_vars
    PROVE  /\ plan' = plan
           /\ \A r \in Releases : Act(r) => broken' = broken /\ edits' = edits
  BY Steps DEF Act, vars, Start, Refuse, Read, Write, WriteFails, Attest, Undo, PatchEnds, GiveUp,
     CheckEnds, CheckRunsOut, Compare, Restore, RestoreFails, RestoreSkips, RollbackEnds, Restart,
     Reload, RestartInstead, Leave, RestartUnseen, ReloadFails, Verify, VerifyFails, Return,
     ReturnFails, Edit, GuestStep, ScriptStep, env_vars

\* What the assumption says of a script.
LEMMA PlanFacts ==
    ASSUME plan \in Plans
    PROVE  /\ \A r \in Releases : IsScript(Plan[r])
           /\ "base" \notin Releases /\ Edits \cap (Releases \cup {"base"}) = {}
           /\ Faults \in Nat /\ GuestSlow \in BOOLEAN /\ CheckSlow \in BOOLEAN
  BY PlanAssumption DEF Plan, Releases, ReleasesOf, Edits, Faults, GuestSlow, CheckSlow

LEMMA FileFacts ==
    ASSUME NEW r \in Releases
    PROVE  /\ FilesOf(r) \subseteq Files
           /\ \A i \in DOMAIN Plan[r].files : Plan[r].files[i] \in FilesOf(r)
           /\ \A f \in FilesOf(r) : \E i \in DOMAIN Plan[r].files : f = Plan[r].files[i]
  BY DEF FilesOf, Files, Range

\* A file is replaced.
LEMMA Put ==
    ASSUME NEW f, NEW c, f \in Files => c \in Contents, file \in [Files -> Contents],
           file' = [file EXCEPT ![f] = c]
    PROVE  /\ file' \in [Files -> Contents]
           /\ \A g \in Files : file'[g] = IF g = f THEN c ELSE file[g]
  OBVIOUS

LEMMA Parts ==
    ASSUME TypeOK, NEW r \in Releases, NEW f \in Files
    PROVE  old[r][f] \in Contents /\ With(r, f) \in Contents
<1>1. old[r][f] \in Contents
  BY DEF TypeOK
<1>2. {r} \in Contents /\ old[r][f] \cup {r} \in Contents
  BY <1>1 DEF Contents
<1> QED
  BY <1>1, <1>2 DEF With

-----------------------------------------------------------------------------
(* Types.                                                                  *)

\* What a release's steps do to the files: nothing, or one is written, or one
\* gets back what the release had read.
Puts(r, f) == file' = [file EXCEPT ![f] = With(r, f)]
PutsBack(r, f) == file' = [file EXCEPT ![f] = old[r][f]]

LEMMA FileSteps ==
    ASSUME NEW r \in Releases, Act(r)
    PROVE  \/ file' = file
           \/ Write(r) /\ \E f : Puts(r, f)
           \/ (Undo(r) \/ Compare(r) \/ Restore(r)) /\ \E f : PutsBack(r, f)
  BY DEF Act, Start, Refuse, Read, Write, WriteFails, Attest, Undo, PatchEnds, GiveUp,
     CheckEnds, CheckRunsOut, Compare, Restore, RestoreFails, RestoreSkips, RollbackEnds, Restart,
     Reload, RestartInstead, Leave, RestartUnseen, ReloadFails, Verify, VerifyFails, Return,
     ReturnFails, GuestStep, ScriptStep, Restored, Puts, PutsBack

LEMMA FileType ==
    ASSUME TypeOK, NEW r \in Releases, Act(r)
    PROVE  file' \in [Files -> Contents]
<1>1. file \in [Files -> Contents]
  BY DEF TypeOK
<1>2. ASSUME NEW f, Puts(r, f)
      PROVE  file' \in [Files -> Contents]
  BY <1>1, <1>2, Parts, Put DEF Puts
<1>3. ASSUME NEW f, PutsBack(r, f)
      PROVE  file' \in [Files -> Contents]
  BY <1>1, <1>3, Parts, Put DEF PutsBack
<1> QED
  BY <1>1, <1>2, <1>3, FileSteps

LEMMA ScriptType ==
    ASSUME TypeOK, NEW r \in Releases, Act(r)
    PROVE  /\ script' \in [Releases -> Scripts]
           /\ guest' \in [Releases -> Guests]
           /\ note' \in [Releases -> {"", "review", "unknown", "inspect"}]
           /\ \A s \in Releases \ {r} : script'[s] = script[s] /\ guest'[s] = guest[s]
                                        /\ note'[s] = note[s]
<1> USE DEF Scripts, Guests, ScriptTo, GuestTo, Blocked, RollBack, Fails, Fail, GuestStep, ScriptStep
<1>1. /\ script \in [Releases -> Scripts] /\ guest \in [Releases -> Guests]
      /\ note \in [Releases -> {"", "review", "unknown", "inspect"}]
  BY DEF TypeOK
<1>2. CASE Start(r) \/ Refuse(r) \/ Read(r) \/ Write(r) \/ WriteFails(r) \/ Attest(r) \/ Undo(r)
  BY <1>1, <1>2 DEF Start, Refuse, Read, Write, WriteFails, Attest, Undo
<1>3. CASE PatchEnds(r) \/ GiveUp(r) \/ CheckEnds(r) \/ CheckRunsOut(r)
  BY <1>1, <1>3 DEF PatchEnds, GiveUp, CheckEnds, CheckRunsOut
<1>4. CASE Compare(r) \/ Restore(r) \/ RestoreFails(r) \/ RestoreSkips(r) \/ RollbackEnds(r)
  BY <1>1, <1>4 DEF Compare, Restore, RestoreFails, RestoreSkips, RollbackEnds
<1>5. CASE Restart(r) \/ Reload(r) \/ RestartInstead(r) \/ Leave(r) \/ RestartUnseen(r) \/ ReloadFails(r)
  BY <1>1, <1>5 DEF Restart, Reload, RestartInstead, Leave, RestartUnseen, ReloadFails
<1>6. CASE Verify(r) \/ VerifyFails(r) \/ Return(r) \/ ReturnFails(r)
  BY <1>1, <1>6 DEF Verify, VerifyFails, Return, ReturnFails
<1> QED
  BY <1>2, <1>3, <1>4, <1>5, <1>6 DEF Act

LEMMA CountType ==
    ASSUME TypeOK, NEW r \in Releases, Act(r)
    PROVE  /\ old' \in [Releases -> [Files -> Contents]] /\ done' \in [Releases -> Nat]
           /\ ranOut' \subseteq Releases /\ faults' \in 0..Faults
           /\ \A s \in Releases \ {r} : old'[s] = old[s] /\ done'[s] = done[s]
<1> USE DEF GuestStep, ScriptStep, env_vars
<1>1. /\ old \in [Releases -> [Files -> Contents]] /\ done \in [Releases -> Nat]
      /\ file \in [Files -> Contents] /\ ranOut \subseteq Releases /\ faults \in 0..Faults
      /\ Faults \in Nat
  BY PlanFacts DEF TypeOK
<1>2. CASE Start(r) \/ Refuse(r) \/ WriteFails(r) \/ Attest(r)
  BY <1>1, <1>2 DEF Start, Refuse, WriteFails, Attest
<1>9. CASE Read(r)
  BY <1>1, <1>9 DEF Read
<1>7. CASE Write(r) \/ Undo(r)
  <2>1. done[r] \in Nat
    BY <1>1
  <2>2. \/ done' = done
        \/ done' = [done EXCEPT ![r] = done[r] + 1]
        \/ done[r] # 0 /\ done' = [done EXCEPT ![r] = done[r] - 1]
    BY <1>7 DEF Write, Undo
  <2>3. done' \in [Releases -> Nat] /\ \A s \in Releases \ {r} : done'[s] = done[s]
    <3>1. done[r] + 1 \in Nat /\ (done[r] # 0 => done[r] - 1 \in Nat)
      BY <2>1
    <3> HIDE <2>1
    <3> QED
      BY <1>1, <2>2, <3>1, Zenon
  <2> QED
    BY <1>1, <1>7, <2>3 DEF Write, Undo
<1>3. CASE PatchEnds(r) \/ GiveUp(r) \/ CheckEnds(r) \/ CheckRunsOut(r)
  BY <1>1, <1>3 DEF PatchEnds, GiveUp, CheckEnds, CheckRunsOut
<1>4. CASE Compare(r) \/ Restore(r)
  <2>1. done' = done \/ done' = [done EXCEPT ![r] = 1] \/ done' = [done EXCEPT ![r] = done[r] + 1]
    BY <1>4 DEF Compare, Restore
  <2>2. done' \in [Releases -> Nat] /\ \A s \in Releases \ {r} : done'[s] = done[s]
    BY <1>1, <2>1
  <2> QED
    BY <1>1, <1>4, <2>2 DEF Compare, Restore
<1>8. CASE RestoreFails(r) \/ RestoreSkips(r) \/ RollbackEnds(r)
  BY <1>1, <1>8 DEF RestoreFails, RestoreSkips, RollbackEnds
<1>5. CASE Restart(r) \/ Reload(r) \/ RestartInstead(r) \/ Leave(r) \/ RestartUnseen(r) \/ ReloadFails(r)
  BY <1>1, <1>5 DEF Restart, Reload, RestartInstead, Leave, RestartUnseen, ReloadFails
<1>6. CASE Verify(r) \/ VerifyFails(r) \/ Return(r) \/ ReturnFails(r)
  BY <1>1, <1>6 DEF Verify, VerifyFails, Return, ReturnFails
<1> QED
  BY <1>2, <1>3, <1>4, <1>5, <1>6, <1>7, <1>8, <1>9 DEF Act

\* What Core may do.
CoreStays == core' = core /\ up' = up

LEMMA CoreSteps ==
    ASSUME NEW r \in Releases, Act(r)
    PROVE  \/ CoreStays
           \/ Restarted /\ file' = file /\ (Restart(r) \/ RestartInstead(r) \/ RestartUnseen(r) \/ Return(r))
           \/ Reloaded(r) /\ file' = file /\ (Reload(r) \/ Return(r))
  BY DEF Act, Start, Refuse, Read, Write, WriteFails, Attest, Undo, PatchEnds, GiveUp,
     CheckEnds, CheckRunsOut, Compare, Restore, RestoreFails, RestoreSkips, RollbackEnds, Restart,
     Reload, RestartInstead, Leave, RestartUnseen, ReloadFails, Verify, VerifyFails, Return,
     ReturnFails, GuestStep, ScriptStep, CoreStays, core_vars, Restarted

LEMMA CoreType ==
    ASSUME TypeOK, NEW r \in Releases, Act(r)
    PROVE  core' \in [Files -> Contents] /\ up' \in BOOLEAN
<1>1. file \in [Files -> Contents] /\ core \in [Files -> Contents] /\ up \in BOOLEAN
  BY DEF TypeOK
<1>2. CASE CoreStays
  BY <1>1, <1>2 DEF CoreStays
<1>3. CASE Restarted
  BY <1>1, <1>3 DEF Restarted, Accepted
<1>4. CASE Reloaded(r)
  BY <1>1, <1>4 DEF Reloaded
<1> QED
  BY <1>2, <1>3, <1>4, CoreSteps

\* What is defined from the plan stays as it is.
LEMMA Kept ==
    ASSUME plan' = plan
    PROVE  /\ Plan' = Plan /\ Releases' = Releases /\ Files' = Files /\ Contents' = Contents
           /\ Edits' = Edits /\ Faults' = Faults /\ GuestSlow' = GuestSlow /\ CheckSlow' = CheckSlow
           /\ \A r : FilesOf(r)' = FilesOf(r)
  BY DEF Plan, Releases, Files, FilesOf, Contents, Edits, Faults, GuestSlow, CheckSlow

LEMMA TypeStep ==
    ASSUME TypeOK, [Next]_vars
    PROVE  TypeOK'
<1>1. /\ plan' = plan /\ Releases' = Releases /\ Files' = Files /\ Contents' = Contents
      /\ Edits' = Edits /\ Faults' = Faults
  BY PlanStays, Kept
<1>2. ASSUME NEW r \in Releases, Act(r)
      PROVE  TypeOK'
  <2>1. broken' = broken /\ edits' = edits
    BY <1>2, PlanStays
  <2>2. plan' \in Plans /\ broken' \subseteq Releases' /\ edits' \subseteq Edits'
    BY <1>1, <2>1 DEF TypeOK
  <2>3. file' \in [Files' -> Contents'] /\ core' \in [Files' -> Contents'] /\ up' \in BOOLEAN
    BY <1>1, <1>2, FileType, CoreType
  <2>4. /\ script' \in [Releases' -> Scripts] /\ guest' \in [Releases' -> Guests]
        /\ note' \in [Releases' -> {"", "review", "unknown", "inspect"}]
    BY <1>1, <1>2, ScriptType
  <2>5. /\ old' \in [Releases' -> [Files' -> Contents']] /\ done' \in [Releases' -> Nat]
        /\ ranOut' \subseteq Releases' /\ faults' \in 0..Faults'
    BY <1>1, <1>2, CountType
  <2> QED
    BY <2>2, <2>3, <2>4, <2>5 DEF TypeOK, Scripts, Guests
<1>3. ASSUME NEW e \in Edits, NEW f \in Files, Edit(e, f)
      PROVE  TypeOK'
  <2>1. file' \in [Files -> Contents]
    BY <1>3 DEF TypeOK, Edit, Contents
  <2> QED
    BY <1>1, <1>3, <2>1 DEF TypeOK, Edit, core_vars
<1>4. CASE UNCHANGED vars
  BY <1>1, <1>4 DEF TypeOK, vars
<1> QED
  BY <1>2, <1>3, <1>4, Steps

LEMMA TypeInit ==
    ASSUME Init
    PROVE  TypeOK
<1>1. file \in [Files -> Contents]
  BY DEF Init, Contents
<1>2. Faults \in Nat
  BY PlanFacts DEF Init
<1>3. old \in [Releases -> [Files -> Contents]] /\ core \in [Files -> Contents]
  BY <1>1 DEF Init
<1>4. broken \subseteq Releases /\ edits \subseteq Edits
  BY DEF Init
<1>5. faults \in 0..Faults
  <2>1. faults = 0
    BY DEF Init
  <2> QED
    BY <1>2, <2>1
<1> QED
  BY <1>1, <1>3, <1>4, <1>5 DEF Init, TypeOK

\* The variables keep their types.
THEOREM TypeCorrect == Spec => []TypeOK
  BY TypeInit, TypeStep, PTL DEF Spec

-----------------------------------------------------------------------------
(* Counts and jobs.                                                        *)

\* How far a process in the guest has got.
Counted(r) ==
    /\ script[r] = "waiting" => guest[r] = "none"
    /\ script[r] = "waiting" \/ guest[r] = "reading" => done[r] = 0
    /\ guest[r] \in {"writing", "undoing"} => done[r] <= Len(Plan[r].files)
    /\ guest[r] = "restoring" => done[r] \in 1..Len(Plan[r].restores)
CountInv == \A r \in Releases : Counted(r)

LEMMA ScriptFacts ==
    ASSUME TypeOK, NEW r \in Releases
    PROVE  /\ Len(Plan[r].files) \in Nat \ {0} /\ DOMAIN Plan[r].files = 1..Len(Plan[r].files)
           /\ Len(Plan[r].restores) \in Nat \ {0} /\ DOMAIN Plan[r].restores = 1..Len(Plan[r].restores)
           /\ \A i \in 1..Len(Plan[r].restores) : Plan[r].restores[i] \in FilesOf(r)
           /\ \A i, j \in 1..Len(Plan[r].files) : Plan[r].files[i] = Plan[r].files[j] => i = j
<1>1. IsScript(Plan[r])
  BY PlanFacts DEF TypeOK
<1>2. /\ Plan[r].files \in Seq(FilesOf(r)) /\ Plan[r].files # <<>>
      /\ Plan[r].restores \in Seq(FilesOf(r)) /\ Plan[r].restores # <<>>
  <2>1. /\ Plan[r].files \in Seq(FilesOf(r)) /\ Plan[r].files # <<>>
        /\ Plan[r].restores \in Seq(FilesOf(r)) /\ Plan[r].restores # <<>>
    BY <1>1 DEF IsScript, FilesOf
  <2> QED
    BY <2>1
<1>3. IsInjective(Plan[r].files)
  BY <1>1 DEF IsScript
<1> HIDE DEF FilesOf
<1> QED
  BY <1>2, <1>3, EmptySeq DEF IsInjective

LEMMA Shape ==
    ASSUME TypeOK
    PROVE  /\ script \in [Releases -> Scripts] /\ guest \in [Releases -> Guests]
           /\ note \in [Releases -> {"", "review", "unknown", "inspect"}]
           /\ old \in [Releases -> [Files -> Contents]] /\ done \in [Releases -> Nat]
           /\ file \in [Files -> Contents] /\ core \in [Files -> Contents]
  BY DEF TypeOK, Scripts, Guests

\* Nothing of a release changes in a step of another or of nobody.
Untouched(r) ==
    /\ script'[r] = script[r] /\ guest'[r] = guest[r] /\ old'[r] = old[r]
    /\ done'[r] = done[r] /\ note'[r] = note[r]

LEMMA Others ==
    ASSUME TypeOK, [Next]_vars, NEW r \in Releases
    PROVE  Act(r) \/ Untouched(r)
<1>1. ASSUME NEW s \in Releases \ {r}, Act(s)
      PROVE  Untouched(r)
  BY <1>1, ScriptType, CountType DEF Untouched
<1>2. ASSUME NEW e \in Edits, NEW f \in Files, Edit(e, f)
      PROVE  Untouched(r)
  BY <1>2 DEF Edit, Untouched
<1>3. CASE UNCHANGED vars
  BY <1>3 DEF vars, Untouched
<1> QED
  BY <1>1, <1>2, <1>3, Steps

LEMMA CountAct ==
    ASSUME TypeOK, NEW r \in Releases, Counted(r), Act(r), plan' = plan
    PROVE  Counted(r)'
<1> DEFINE N == Len(Plan[r].files)
           M == Len(Plan[r].restores)
<1>1. /\ script \in [Releases -> Scripts] /\ guest \in [Releases -> Guests]
      /\ done \in [Releases -> Nat] /\ done[r] \in Nat
  BY Shape
<1>2. N \in Nat \ {0} /\ M \in Nat \ {0} /\ N' = N /\ M' = M
  BY ScriptFacts DEF Plan
<1>3. /\ script[r] = "waiting" => guest[r] = "none"
      /\ script[r] = "waiting" \/ guest[r] = "reading" => done[r] = 0
      /\ guest[r] \in {"writing", "undoing"} => done[r] <= N
      /\ guest[r] = "restoring" => done[r] \in 1..M
  BY DEF Counted
<1>4. SUFFICES /\ script'[r] = "waiting" => guest'[r] = "none"
               /\ script'[r] = "waiting" \/ guest'[r] = "reading" => done'[r] = 0
               /\ guest'[r] \in {"writing", "undoing"} => done'[r] <= N
               /\ guest'[r] = "restoring" => done'[r] \in 1..M
  BY <1>2 DEF Counted
<1> HIDE DEF N, M
<1> USE DEF Scripts, Guests, ScriptTo, GuestTo, Blocked, RollBack, Fails, GuestStep, ScriptStep
<1>5. CASE Start(r) \/ Refuse(r) \/ Read(r)
  BY <1>1, <1>2, <1>3, <1>5 DEF Start, Refuse, Read
<1>6. CASE Write(r) \/ WriteFails(r) \/ Attest(r)
  BY <1>1, <1>2, <1>3, <1>6 DEF Write, WriteFails, Attest, Fail, N
<1>7. CASE Undo(r)
  BY <1>1, <1>2, <1>3, <1>7 DEF Undo
<1>8. CASE PatchEnds(r) \/ GiveUp(r) \/ CheckEnds(r) \/ CheckRunsOut(r)
  BY <1>1, <1>2, <1>3, <1>8 DEF PatchEnds, GiveUp, CheckEnds, CheckRunsOut
<1>9. CASE Compare(r) \/ Restore(r)
  BY <1>1, <1>2, <1>3, <1>9 DEF Compare, Restore, M
<1>10. CASE RestoreFails(r) \/ RestoreSkips(r) \/ RollbackEnds(r)
  BY <1>1, <1>2, <1>3, <1>10 DEF RestoreFails, RestoreSkips, RollbackEnds, M
<1>11. CASE Restart(r) \/ Reload(r) \/ RestartInstead(r) \/ Leave(r) \/ RestartUnseen(r) \/ ReloadFails(r)
  BY <1>1, <1>2, <1>3, <1>11 DEF Restart, Reload, RestartInstead, Leave, RestartUnseen, ReloadFails
<1>12. CASE Verify(r) \/ VerifyFails(r) \/ Return(r) \/ ReturnFails(r)
  BY <1>1, <1>2, <1>3, <1>12 DEF Verify, VerifyFails, Return, ReturnFails
<1> QED
  BY <1>5, <1>6, <1>7, <1>8, <1>9, <1>10, <1>11, <1>12 DEF Act

LEMMA CountStep ==
    ASSUME TypeOK, CountInv, [Next]_vars
    PROVE  CountInv'
<1>1. plan' = plan /\ Releases' = Releases /\ Plan' = Plan
  BY PlanStays, Kept
<1>2. ASSUME NEW r \in Releases
      PROVE  Counted(r)'
  <2>1. Counted(r)
    BY DEF CountInv
  <2>2. CASE Act(r)
    BY <1>1, <2>1, <2>2, CountAct
  <2>3. CASE Untouched(r)
    BY <1>1, <2>1, <2>3 DEF Untouched, Counted
  <2> QED
    BY <2>2, <2>3, Others
<1> QED
  BY <1>1, <1>2 DEF CountInv

\* Where no process outlives its job: what the process of a job can be at, and
\* that jobs follow each other.
Settled(r) == script[r] \in {"waiting", "ok", "blocked"}
Paired(r) ==
    \/ script[r] = "applying" /\ guest[r] \in {"reading", "writing", "undoing", "applied", "failed"}
    \/ script[r] = "restoring" /\ guest[r] \in {"comparing", "restoring", "restored", "failed"}
    \/ script[r] \notin {"applying", "restoring"} /\ guest[r] = "none"
JobInv ==
    /\ \A r \in Releases : Paired(r)
    /\ \A r, s \in Releases : Settled(r) \/ Settled(s) \/ r = s

LEMMA JobAct ==
    ASSUME TypeOK, ~GuestSlow, NEW r \in Releases, Paired(r), Act(r)
    PROVE  /\ Paired(r)'
           /\ Settled(r) => Start(r)
<1>1. /\ script \in [Releases -> Scripts] /\ guest \in [Releases -> Guests]
  BY Shape
<1> USE <1>1 DEF Scripts, Guests, ScriptTo, GuestTo, Blocked, RollBack, Fails, GuestStep, ScriptStep, Paired, Settled
<1>2. CASE Start(r) \/ Refuse(r) \/ Read(r)
  BY <1>2 DEF Start, Refuse, Read
<1>3. CASE Write(r) \/ WriteFails(r) \/ Attest(r) \/ Undo(r)
  BY <1>3 DEF Write, WriteFails, Attest, Fail, Undo
<1>4. CASE PatchEnds(r) \/ GiveUp(r) \/ CheckEnds(r) \/ CheckRunsOut(r)
  BY <1>4 DEF PatchEnds, GiveUp, CheckEnds, CheckRunsOut
<1>5. CASE Compare(r) \/ Restore(r) \/ RestoreFails(r) \/ RestoreSkips(r) \/ RollbackEnds(r)
  BY <1>5 DEF Compare, Restore, RestoreFails, RestoreSkips, RollbackEnds
<1>6. CASE Restart(r) \/ Reload(r) \/ RestartInstead(r) \/ Leave(r) \/ RestartUnseen(r) \/ ReloadFails(r)
  BY <1>6 DEF Restart, Reload, RestartInstead, Leave, RestartUnseen, ReloadFails
<1>7. CASE Verify(r) \/ VerifyFails(r) \/ Return(r) \/ ReturnFails(r)
  BY <1>7 DEF Verify, VerifyFails, Return, ReturnFails
<1> QED
  BY <1>2, <1>3, <1>4, <1>5, <1>6, <1>7 DEF Act

\* While a job is not settled, no other release moves.
LEMMA OnlyOne ==
    ASSUME TypeOK, ~GuestSlow, JobInv, NEW r \in Releases, NEW s \in Releases, Act(s)
    PROVE  Settled(r) \/ r = s
<1>1. Settled(s) => Start(s)
  BY JobAct DEF JobInv
<1>2. Start(s) => Settled(r)
  BY DEF Start, Settled
<1> QED
  BY <1>1, <1>2 DEF JobInv

LEMMA JobStep ==
    ASSUME TypeOK, ~GuestSlow, JobInv, [Next]_vars
    PROVE  JobInv'
<1>1. Releases' = Releases
  BY PlanStays, Kept
<1>2. ASSUME NEW r \in Releases
      PROVE  Paired(r)'
  <2>1. Paired(r)
    BY DEF JobInv
  <2>2. CASE Act(r)
    BY <2>1, <2>2, JobAct
  <2>3. CASE Untouched(r)
    BY <2>1, <2>3 DEF Untouched, Paired
  <2> QED
    BY <2>2, <2>3, Others
<1>3. ASSUME NEW r \in Releases, NEW s \in Releases
      PROVE  Settled(r)' \/ Settled(s)' \/ r = s
  <2>1. CASE Untouched(r) /\ Untouched(s)
    BY <2>1 DEF Untouched, Settled, JobInv
  <2>2. CASE Act(r) /\ r # s
    <3>1. Settled(s) /\ Untouched(s)
      BY <2>2, OnlyOne, ScriptType, CountType DEF Untouched
    <3> QED
      BY <3>1 DEF Untouched, Settled
  <2>3. CASE Act(s) /\ r # s
    <3>1. Settled(r) /\ Untouched(r)
      BY <2>3, OnlyOne, ScriptType, CountType DEF Untouched
    <3> QED
      BY <3>1 DEF Untouched, Settled
  <2> QED
    BY <2>1, <2>2, <2>3, Others
<1> QED
  BY <1>1, <1>2, <1>3 DEF JobInv

-----------------------------------------------------------------------------
(* Whose part a file has.                                                  *)

\* A step that gets no further with the files.
Idle(r) ==
    /\ file' = file
    /\ Write(r) \/ Undo(r) \/ Compare(r) \/ Restore(r) => done' = done /\ guest'[r] # "restoring"

\* A release's step changes at most one of its own files.
LEMMA OwnFile ==
    ASSUME TypeOK, NEW r \in Releases, Counted(r), Act(r)
    PROVE  \/ Idle(r)
           \/ /\ Write(r) /\ done[r] < Len(Plan[r].files) /\ done'[r] = done[r] + 1
              /\ Plan[r].files[done[r] + 1] \in FilesOf(r) /\ Puts(r, Plan[r].files[done[r] + 1])
              /\ \A f \in Compared(r) : file[f] = old[r][f]
           \/ /\ Undo(r) /\ done[r] \in 1..Len(Plan[r].files) /\ done'[r] = done[r] - 1
              /\ Plan[r].files[done[r]] \in FilesOf(r)
              /\ IF file[Plan[r].files[done[r]]] = With(r, Plan[r].files[done[r]])
                 THEN PutsBack(r, Plan[r].files[done[r]]) ELSE file' = file
           \/ /\ Compare(r) /\ (Plan[r].looks => AsWritten(r)) /\ done'[r] = 1
              /\ Plan[r].restores[1] \in FilesOf(r) /\ PutsBack(r, Plan[r].restores[1])
           \/ /\ Restore(r) /\ done[r] \in 1..(Len(Plan[r].restores) - 1) /\ done'[r] = done[r] + 1
              /\ Plan[r].restores[done[r] + 1] \in FilesOf(r) /\ PutsBack(r, Plan[r].restores[done[r] + 1])
<1>1. /\ done[r] \in Nat /\ done \in [Releases -> Nat]
      /\ Len(Plan[r].files) \in Nat \ {0} /\ Len(Plan[r].restores) \in Nat \ {0}
      /\ DOMAIN Plan[r].files = 1..Len(Plan[r].files)
      /\ \A i \in 1..Len(Plan[r].restores) : Plan[r].restores[i] \in FilesOf(r)
      /\ \A i \in 1..Len(Plan[r].files) : Plan[r].files[i] \in FilesOf(r)
  BY Shape, ScriptFacts, FileFacts
<1>2. /\ guest[r] \in {"writing", "undoing"} => done[r] <= Len(Plan[r].files)
      /\ guest[r] = "restoring" => done[r] \in 1..Len(Plan[r].restores)
  BY DEF Counted
<1>7. guest \in [Releases -> Guests]
  BY Shape
<1>3. CASE Write(r)
  BY <1>1, <1>2, <1>3, <1>7 DEF Write, Puts, Idle, Undo, Compare, Restore, Fail, GuestTo
<1>4. CASE Undo(r)
  <2>1. CASE done[r] = 0
    BY <1>4, <1>7, <2>1 DEF Undo, Idle, Write, Compare, Restore, GuestTo
  <2>2. CASE done[r] # 0
    <3>1. done[r] \in 1..Len(Plan[r].files)
      BY <1>1, <1>2, <1>4, <2>2 DEF Undo
    <3>2. Plan[r].files[done[r]] \in FilesOf(r)
      BY <1>1, <3>1
    <3>3. done'[r] = done[r] - 1
      BY <1>1, <1>4, <2>2 DEF Undo
    <3> QED
      BY <1>4, <2>2, <3>1, <3>2, <3>3 DEF Undo, PutsBack
  <2> QED
    BY <2>1, <2>2
<1>5. CASE Compare(r)
  <2>1. CASE Plan[r].looks => AsWritten(r)
    BY <1>1, <1>5, <2>1 DEF Compare, Restored, PutsBack
  <2>2. CASE ~(Plan[r].looks => AsWritten(r))
    BY <1>1, <1>5, <1>7, <2>2 DEF Compare, Idle, Write, Undo, Restore, GuestTo
  <2> QED
    BY <2>1, <2>2
<1>6. CASE Restore(r)
  BY <1>1, <1>2, <1>6, <1>7 DEF Restore, Restored, PutsBack, Idle, Write, Undo, Compare, GuestTo
<1> QED
  BY <1>3, <1>4, <1>5, <1>6, FileSteps DEF Idle

\* A job that has read its files and not failed or ended.
Past(r) ==
    \/ script[r] \in {"checking", "valid", "verifying", "restoring", "returning"}
    \/ script[r] = "applying" /\ guest[r] \in {"writing", "undoing", "applied"}

\* Meanwhile a file of the release is as it was read or as it was to be written.
Mine(r) == Past(r) => \A f \in FilesOf(r) : file[f] \in {old[r][f], With(r, f)}
MineInv == \A r \in Releases : Mine(r)

LEMMA PastAct ==
    ASSUME TypeOK, ~GuestSlow, NEW r \in Releases, Paired(r), Act(r)
    PROVE  /\ Past(r)' => Past(r) \/ Read(r)
           /\ Read(r) \/ old'[r] = old[r]
           /\ Read(r) => file' = file /\ old'[r] = file
<1>a. Read(r) => file' = file /\ old'[r] = file
  BY Shape DEF Read
<1> SUFFICES /\ Past(r)' => Past(r) \/ Read(r)
             /\ Read(r) \/ old'[r] = old[r]
  BY <1>a
<1>1. /\ script \in [Releases -> Scripts] /\ guest \in [Releases -> Guests]
      /\ old \in [Releases -> [Files -> Contents]]
  BY Shape
<1> USE <1>1 DEF Scripts, Guests, ScriptTo, GuestTo, Blocked, RollBack, Fails, GuestStep, ScriptStep, Past, Paired
<1>2. CASE Start(r) \/ Refuse(r)
  BY <1>2 DEF Start, Refuse
<1>3. CASE Read(r)
  BY <1>3 DEF Read
<1>4. CASE Write(r) \/ WriteFails(r) \/ Attest(r) \/ Undo(r)
  BY <1>4 DEF Write, WriteFails, Attest, Fail, Undo
<1>5. CASE PatchEnds(r) \/ GiveUp(r) \/ CheckEnds(r) \/ CheckRunsOut(r)
  BY <1>5 DEF PatchEnds, GiveUp, CheckEnds, CheckRunsOut
<1>6. CASE Compare(r) \/ Restore(r) \/ RestoreFails(r) \/ RestoreSkips(r) \/ RollbackEnds(r)
  BY <1>6 DEF Compare, Restore, RestoreFails, RestoreSkips, RollbackEnds
<1>7. CASE Restart(r) \/ Reload(r) \/ RestartInstead(r) \/ Leave(r) \/ RestartUnseen(r) \/ ReloadFails(r)
  BY <1>7 DEF Restart, Reload, RestartInstead, Leave, RestartUnseen, ReloadFails
<1>8. CASE Verify(r) \/ VerifyFails(r) \/ Return(r) \/ ReturnFails(r)
  BY <1>8 DEF Verify, VerifyFails, Return, ReturnFails
<1> QED
  BY <1>2, <1>3, <1>4, <1>5, <1>6, <1>7, <1>8 DEF Act

LEMMA MineAct ==
    ASSUME TypeOK, ~GuestSlow, NEW r \in Releases, Paired(r), Counted(r), Mine(r), Act(r), plan' = plan
    PROVE  Mine(r)'
<1>1. /\ FilesOf(r)' = FilesOf(r) /\ FilesOf(r) \subseteq Files
      /\ file \in [Files -> Contents] /\ Plan' = Plan
  BY Kept, FileFacts, Shape
<1>2. SUFFICES ASSUME Past(r)', NEW f \in FilesOf(r)
               PROVE  file'[f] \in {old'[r][f], With(r, f)'}
  BY <1>1 DEF Mine
<1>3. CASE Read(r)
  BY <1>3, PastAct
<1>4. CASE ~Read(r)
  <2>1. old'[r] = old[r] /\ With(r, f)' = With(r, f) /\ file[f] \in {old[r][f], With(r, f)}
    BY <1>1, <1>2, <1>4, PastAct DEF Mine, With
  <2>2. file' = file \/ \E g : Puts(r, g) \/ PutsBack(r, g)
    BY FileSteps
  <2>3. ASSUME NEW g, Puts(r, g)
        PROVE  file'[f] \in {file[f], With(r, f)}
    BY <1>1, <2>3 DEF Puts
  <2>4. ASSUME NEW g, PutsBack(r, g)
        PROVE  file'[f] \in {file[f], old[r][f]}
    BY <1>1, <2>4 DEF PutsBack
  <2> QED
    BY <2>1, <2>2, <2>3, <2>4
<1> QED
  BY <1>3, <1>4

LEMMA QuietSteps ==
    ASSUME Quiet, [Next]_vars
    PROVE  (\E r \in Releases : Act(r)) \/ UNCHANGED vars
  BY Steps DEF Quiet

LEMMA MineStep ==
    ASSUME TypeOK, Quiet, CountInv, JobInv, MineInv, [Next]_vars
    PROVE  MineInv'
<1>1. plan' = plan /\ Releases' = Releases /\ Plan' = Plan
  BY PlanStays, Kept
<1>2. ASSUME NEW r \in Releases
      PROVE  Mine(r)'
  <2>1. Mine(r) /\ Paired(r) /\ Counted(r) /\ ~GuestSlow
    BY DEF MineInv, JobInv, CountInv, Quiet
  <2>2. CASE Act(r)
    BY <1>1, <2>1, <2>2, MineAct
  <2>3. ASSUME NEW s \in Releases, Act(s), s # r
        PROVE  Mine(r)'
    <3>1. Settled(r) /\ Untouched(r)
      BY <2>1, <2>3, OnlyOne, ScriptType, CountType DEF Untouched
    <3> QED
      BY <3>1 DEF Settled, Untouched, Mine, Past
  <2>4. CASE UNCHANGED vars
    BY <1>1, <2>1, <2>4 DEF vars, Mine, Past, With, FilesOf
  <2> QED
    BY <2>2, <2>3, <2>4, QuietSteps
<1> QED
  BY <1>1, <1>2 DEF MineInv

\* The conditions of OthersAreKept stay as they are.
Watching == \A r \in Releases : Watches(r)

\* A script that looks before each change takes nothing out of a file but its
\* own part, and that where its process undoes or restores.
LEMMA KeptByWatching ==
    ASSUME TypeOK, NEW r \in Releases, Counted(r), Watches(r), Act(r),
           NEW f \in Files, f \notin Plan[r].wholes, NEW x \in file[f] \ file'[f]
    PROVE  x = r /\ guest[r] \in {"undoing", "comparing", "restoring"}
<1>1. file \in [Files -> Contents]
  BY Shape
<1>2. ASSUME Write(r), done[r] < Len(Plan[r].files), Puts(r, Plan[r].files[done[r] + 1]),
             \A g \in Compared(r) : file[g] = old[r][g]
      PROVE  FALSE
  <2> DEFINE g == Plan[r].files[done[r] + 1]
  <2>1. g \in Compared(r)
    <3>1. done[r] \in Nat /\ Len(Plan[r].files) \in Nat
      BY Shape, ScriptFacts
    <3>2. Plan[r].compares = "each" \/ (Plan[r].compares = "first" /\ done[r] = 0)
      BY <1>2, <3>1 DEF Watches
    <3>3. g \in FilesOf(r)
      BY <1>2, <3>1, ScriptFacts, FileFacts
    <3> QED
      BY <3>2, <3>3 DEF Compared
  <2>2. file[g] = old[r][g]
    BY <1>2, <2>1
  <2>3. file'[f] = IF f = g THEN With(r, g) ELSE file[f]
    BY <1>1, <1>2 DEF Puts
  <2> QED
    BY <2>2, <2>3 DEF With
<1>3. ASSUME NEW g, PutsBack(r, g), file[g] = With(r, g)
      PROVE  x = r
  <2>1. file'[f] = IF f = g THEN old[r][g] ELSE file[f]
    BY <1>1, <1>3 DEF PutsBack
  <2> QED
    BY <1>3, <2>1 DEF With
<1>4. ASSUME Undo(r), PutsBack(r, Plan[r].files[done[r]]),
             file[Plan[r].files[done[r]]] = With(r, Plan[r].files[done[r]])
      PROVE  x = r /\ guest[r] = "undoing"
  BY <1>3, <1>4 DEF Undo
<1>5. ASSUME Compare(r), Plan[r].looks => AsWritten(r), Plan[r].restores[1] \in FilesOf(r),
             PutsBack(r, Plan[r].restores[1])
      PROVE  x = r /\ guest[r] = "comparing"
  BY <1>3, <1>5 DEF Compare, Watches, AsWritten
<1>6. ~(done[r] \in 1..(Len(Plan[r].restores) - 1))
  <2>1. Len(Plan[r].restores) = 1
    BY DEF Watches
  <2> QED
    BY <2>1
<1>7. file' # file
  OBVIOUS
<1> QED
  BY <1>2, <1>4, <1>5, <1>6, <1>7, OwnFile DEF Idle

\* Nor does any, as long as it is alone.
LEMMA KeptByQuiet ==
    ASSUME TypeOK, ~GuestSlow, NEW r \in Releases, Counted(r), Paired(r), Mine(r), Act(r),
           NEW f \in Files, f \notin Plan[r].wholes, NEW x \in file[f] \ file'[f]
    PROVE  x = r /\ guest[r] \in {"undoing", "comparing", "restoring"}
<1>1. file \in [Files -> Contents] /\ With(r, f) = old[r][f] \cup {r}
  BY Shape DEF With
<1>2. ASSUME NEW g \in FilesOf(r), Past(r), Puts(r, g)
      PROVE  FALSE
  <2>1. file'[f] = IF f = g THEN With(r, g) ELSE file[f]
    BY <1>1, <1>2 DEF Puts
  <2> QED
    BY <1>1, <1>2, <2>1 DEF Mine
<1>3. ASSUME NEW g \in FilesOf(r), Past(r), PutsBack(r, g)
      PROVE  x = r
  <2>1. file'[f] = IF f = g THEN old[r][g] ELSE file[f]
    BY <1>1, <1>3 DEF PutsBack
  <2> QED
    BY <1>1, <1>3, <2>1 DEF Mine
<1>4. /\ Write(r) => Past(r)
      /\ Undo(r) => Past(r) /\ guest[r] = "undoing"
      /\ Compare(r) => Past(r) /\ guest[r] = "comparing"
      /\ Restore(r) => Past(r) /\ guest[r] = "restoring"
  BY DEF Write, Undo, Compare, Restore, Past, Paired
<1>5. file' # file
  OBVIOUS
<1> QED
  BY <1>2, <1>3, <1>4, <1>5, OwnFile DEF Idle

LEMMA KeptByEdit ==
    ASSUME TypeOK, NEW e, NEW g \in Files, Edit(e, g), NEW f \in Files
    PROVE  file[f] \subseteq file'[f]
<1>1. file \in [Files -> Contents]
  BY Shape
<1> QED
  BY <1>1 DEF Edit

QuietInv == CountInv /\ (~GuestSlow => JobInv) /\ (Quiet => MineInv)

LEMMA KeptStep ==
    ASSUME TypeOK, QuietInv, [Next]_vars, Quiet \/ Watching
    PROVE  KeepsOthers
<1>1. file \in [Files -> Contents]
  BY Shape
<1> SUFFICES ASSUME NEW f \in Files, \A r \in Releases : f \notin Plan[r].wholes,
                    NEW x \in file[f] \ file'[f]
             PROVE  x \in Releases /\ guest[x] \in {"undoing", "comparing", "restoring"}
  BY <1>1 DEF KeepsOthers
<1>2. ASSUME NEW r \in Releases, Act(r)
      PROVE  x \in Releases /\ guest[x] \in {"undoing", "comparing", "restoring"}
  <2>1. CASE Watching
    BY <1>2, <2>1, KeptByWatching DEF Watching, QuietInv, CountInv
  <2>2. CASE Quiet
    <3>1. ~GuestSlow /\ Counted(r) /\ Paired(r) /\ Mine(r)
      BY <2>2 DEF Quiet, QuietInv, CountInv, JobInv, MineInv
    <3> QED
      BY <1>2, <3>1, KeptByQuiet
  <2> QED
    BY <2>1, <2>2
<1>3. ASSUME NEW e \in Edits, NEW g \in Files, Edit(e, g)
      PROVE  FALSE
  BY <1>3, KeptByEdit
<1>4. CASE UNCHANGED vars
  BY <1>4 DEF vars
<1> QED
  BY <1>2, <1>3, <1>4, Steps

LEMMA QuietInit ==
    ASSUME Init
    PROVE  QuietInv
<1>1. /\ \A r \in Releases : script[r] = "waiting" /\ guest[r] = "none" /\ done[r] = 0
  BY DEF Init
<1>2. CountInv
  BY <1>1 DEF CountInv, Counted
<1>3. JobInv
  BY <1>1 DEF JobInv, Paired, Settled
<1>4. MineInv
  BY <1>1 DEF MineInv, Mine, Past
<1> QED
  BY <1>2, <1>3, <1>4 DEF QuietInv

LEMMA QuietStep ==
    ASSUME TypeOK, QuietInv, [Next]_vars
    PROVE  QuietInv'
<1>1. CountInv'
  BY CountStep DEF QuietInv
<1>2. GuestSlow' = GuestSlow /\ Edits' = Edits
  BY PlanStays, Kept
<1>3. ASSUME ~GuestSlow
      PROVE  JobInv'
  BY <1>3, JobStep DEF QuietInv
<1>4. ASSUME Quiet
      PROVE  MineInv'
  BY <1>4, MineStep DEF QuietInv, Quiet
<1> QED
  BY <1>1, <1>2, <1>3, <1>4 DEF QuietInv, Quiet

LEMMA QuietCorrect == Spec => [](TypeOK /\ QuietInv)
<1>1. Init => TypeOK /\ QuietInv
  BY QuietInit, TypeInit
<1>2. TypeOK /\ QuietInv /\ [Next]_vars => (TypeOK /\ QuietInv)'
  BY QuietStep, TypeStep
<1> QED
  BY <1>1, <1>2, PTL DEF Spec

\* Nothing but a release's own undoing or rollback takes its part out of a file,
\* and nothing takes out anybody else's, in files that are not written as a whole:
\* whatever the scripts, where nobody else changes a file, and whatever the edits
\* and however many jobs were given up, where each script looks before it writes.
THEOREM NothingElseTaken == Spec => OthersAreKept
<1>1. TypeOK /\ QuietInv /\ [Next]_vars => [Quiet \/ (\A r \in Releases : Watches(r)) => KeepsOthers]_vars
  BY KeptStep DEF Watching
<1> QED
  BY <1>1, QuietCorrect, PTL DEF Spec, OthersAreKept

-----------------------------------------------------------------------------
(* A job ends with a configuration that Core accepts.                      *)

Checking == ~GuestSlow /\ \A r \in Releases : Plan[r].checks \/ Plan[r].then = "nothing"
ValidInv == up = TRUE /\ \A r \in Releases : script[r] = "valid" /\ Plan[r].then # "nothing" => Accepted(file)

LEMMA ValidAct ==
    ASSUME TypeOK, Checking, ValidInv, NEW r \in Releases, Act(r)
    PROVE  up' = TRUE
<1>1. ~GuestSlow /\ up = TRUE
  BY DEF Checking, ValidInv
<1>2. CASE CoreStays \/ Reloaded(r)
  BY <1>1, <1>2 DEF CoreStays, Reloaded
<1>3. CASE Restarted /\ (Restart(r) \/ RestartInstead(r))
  BY <1>3 DEF Restarted, Restart, RestartInstead, ValidInv
<1>4. CASE Return(r)
  BY <1>1, <1>4 DEF Return, Reloaded, Restarted, core_vars
<1>5. CASE RestartUnseen(r)
  BY <1>1, <1>5 DEF RestartUnseen
<1> QED
  BY <1>2, <1>3, <1>4, <1>5, CoreSteps

\* A job becomes valid by the check.
LEMMA BecomesValid ==
    ASSUME TypeOK, NEW r \in Releases, Paired(r), Act(r), script'[r] = "valid", Plan[r].checks
    PROVE  file' = file /\ (script[r] = "valid" \/ Accepted(file))
<1>1. /\ script \in [Releases -> Scripts]
  BY Shape
<1> USE <1>1 DEF Scripts, ScriptTo, GuestTo, Blocked, RollBack, Fails, GuestStep, ScriptStep, Paired
<1>2. CASE Start(r) \/ Refuse(r) \/ Read(r)
  BY <1>2 DEF Start, Refuse, Read
<1>3. CASE Write(r) \/ WriteFails(r) \/ Attest(r) \/ Undo(r)
  BY <1>3 DEF Write, WriteFails, Attest, Fail, Undo
<1>4. CASE PatchEnds(r) \/ GiveUp(r) \/ CheckEnds(r) \/ CheckRunsOut(r)
  BY <1>4 DEF PatchEnds, GiveUp, CheckEnds, CheckRunsOut
<1>5. CASE Compare(r) \/ Restore(r) \/ RestoreFails(r) \/ RestoreSkips(r) \/ RollbackEnds(r)
  BY <1>5 DEF Compare, Restore, RestoreFails, RestoreSkips, RollbackEnds
<1>6. CASE Restart(r) \/ Reload(r) \/ RestartInstead(r) \/ Leave(r) \/ RestartUnseen(r) \/ ReloadFails(r)
  BY <1>6 DEF Restart, Reload, RestartInstead, Leave, RestartUnseen, ReloadFails
<1>7. CASE Verify(r) \/ VerifyFails(r) \/ Return(r) \/ ReturnFails(r)
  BY <1>7 DEF Verify, VerifyFails, Return, ReturnFails
<1> QED
  BY <1>2, <1>3, <1>4, <1>5, <1>6, <1>7 DEF Act

LEMMA EditAccepted ==
    ASSUME TypeOK, NEW e \in Edits, NEW f \in Files, Edit(e, f), Accepted(file)
    PROVE  Accepted(file')
<1>1. file \in [Files -> Contents] /\ e \notin broken
  BY PlanFacts, Shape DEF TypeOK
<1>2. /\ DOMAIN file' = Files /\ DOMAIN file = Files
      /\ \A g \in Files : file'[g] = IF g = f THEN file[g] \cup {e} ELSE file[g]
  BY <1>1 DEF Edit
<1> QED
  BY <1>1, <1>2 DEF Accepted

LEMMA ValidStep ==
    ASSUME TypeOK, Checking, JobInv, ValidInv, [Next]_vars
    PROVE  ValidInv' /\ StartsAccepted
<1>1. plan' = plan /\ Releases' = Releases /\ Plan' = Plan
  BY PlanStays, Kept
<1>2. ASSUME NEW s \in Releases, Act(s)
      PROVE  ValidInv' /\ StartsAccepted
  <2>1. up' = TRUE /\ broken' = broken
    BY <1>2, ValidAct, PlanStays
  <2>2. ASSUME NEW r \in Releases, script'[r] = "valid", Plan[r].then # "nothing"
        PROVE  Accepted(file')
    <3>1. CASE r = s
      BY <1>2, <2>2, <3>1, BecomesValid DEF Checking, ValidInv, JobInv
    <3>2. CASE r # s
      <4>1. script[r] = "valid"
        BY <1>2, <2>2, <3>2, ScriptType
      <4> QED
        BY <1>2, <3>2, <4>1, OnlyOne DEF Settled, Checking
    <3> QED
      BY <3>1, <3>2
  <2> QED
    BY <1>1, <2>1, <2>2 DEF ValidInv, StartsAccepted, Accepted
<1>3. ASSUME NEW e \in Edits, NEW f \in Files, Edit(e, f)
      PROVE  ValidInv' /\ StartsAccepted
  <2>1. script' = script /\ up' = up /\ broken' = broken
    BY <1>3 DEF Edit, core_vars
  <2>2. Accepted(file) => Accepted(file')
    BY <1>3, EditAccepted
  <2> QED
    BY <1>1, <2>1, <2>2 DEF ValidInv, StartsAccepted, Accepted
<1>4. CASE UNCHANGED vars
  BY <1>1, <1>4 DEF vars, ValidInv, StartsAccepted, Accepted
<1> QED
  BY <1>2, <1>3, <1>4, Steps

\* A job whose patch Core has checked, or that leaves Core alone, ends with a
\* configuration that Core accepts, whatever edits come in between.
THEOREM EndsAccepted == Spec => StartedIsAccepted
<1> DEFINE Inv == Checking => ValidInv
<1>1. Init => Inv
  BY DEF Init, ValidInv
<1>2. TypeOK /\ QuietInv /\ Inv /\ [Next]_vars => Inv' /\ (Checking => StartsAccepted)
  <2> SUFFICES ASSUME TypeOK, QuietInv, Inv, [Next]_vars
               PROVE  Inv' /\ (Checking => StartsAccepted)
    OBVIOUS
  <2>1. Checking' = Checking
    <3>1. plan' = plan
      BY PlanStays
    <3> QED
      BY <3>1 DEF Checking, Releases, Plan, GuestSlow
  <2>2. CASE Checking
    BY <2>1, <2>2, ValidStep DEF Checking, QuietInv
  <2> QED
    BY <2>1, <2>2
<1>3. TypeOK /\ QuietInv /\ Inv /\ [Next]_vars
      => [~GuestSlow /\ (\A r \in Releases : Plan[r].checks \/ Plan[r].then = "nothing") => StartsAccepted]_vars
  BY <1>2 DEF Checking
<1> HIDE DEF Inv
<1> QED
  BY <1>1, <1>2, <1>3, QuietCorrect, PTL DEF Spec, StartedIsAccepted

-----------------------------------------------------------------------------
(* A release is whole or gone.                                             *)

\* The releases WholeOrGone is about.
Subject(r) == Quiet /\ TakesBack(r) /\ ~Overwritten(r)

\* A patch that is writing, or undoing, has written the first files; a rollback
\* that skipped none has restored the first.
Written(r) ==
    \A i \in 1..Len(Plan[r].files) :
        LET f == Plan[r].files[i] IN file[f] = IF i <= done[r] THEN With(r, f) ELSE old[r][f]
Recovered(r) ==
    \A i \in 1..Len(Plan[r].restores) :
        i <= done[r] => file[Plan[r].restores[i]] = old[r][Plan[r].restores[i]]
NotRead(r) == \A f \in FilesOf(r) : r \notin old[r][f]

\* Where a release is, at each point of its job.
Part(r) ==
    /\ script[r] = "waiting" \/ guest[r] = "reading" => InNone(r)
    /\ Past(r) => NotRead(r)
    /\ guest[r] \in {"writing", "undoing"} => Written(r)
    /\ script[r] = "applying" /\ guest[r] = "failed" => InNone(r)
    /\ script[r] \in {"checking", "valid", "verifying"} \/ guest[r] \in {"applied", "comparing"} => AsWritten(r)
    /\ guest[r] = "restoring" => note[r] = "review" \/ Recovered(r)
    /\ guest[r] = "restored" \/ script[r] = "returning" => note[r] = "review" \/ InNone(r)
    /\ script[r] = "restoring" /\ guest[r] = "failed" => Plan[r].tells
    /\ script[r] = "ok" => InAll(r)
    /\ script[r] = "blocked" =>
           \/ note[r] = "review" \/ InNone(r)
           \/ InAll(r) /\ (note[r] = "inspect" \/ (note[r] = "" /\ Plan[r].leaves /\ CheckSlow))

\* What the points have to do with each other.
LEMMA PartFacts ==
    ASSUME TypeOK, NEW r \in Releases, TakesBack(r)
    PROVE  /\ AsWritten(r) => InAll(r)
           /\ Written(r) /\ done[r] = Len(Plan[r].files) => AsWritten(r)
           /\ Written(r) /\ NotRead(r) /\ done[r] = 0 => InNone(r)
           /\ Recovered(r) /\ NotRead(r) /\ done[r] = Len(Plan[r].restores) => InNone(r)
<1>1. /\ done[r] \in Nat /\ Len(Plan[r].files) \in Nat /\ Len(Plan[r].restores) \in Nat
      /\ \A f \in FilesOf(r) : \E i \in 1..Len(Plan[r].files) : f = Plan[r].files[i]
  BY Shape, ScriptFacts, FileFacts
<1>2. \A f \in FilesOf(r) : \E i \in 1..Len(Plan[r].restores) : f = Plan[r].restores[i]
  BY ScriptFacts DEF TakesBack, Range
<1>3. AsWritten(r) => InAll(r)
  BY DEF AsWritten, InAll, With
<1>4. ASSUME Written(r), done[r] = Len(Plan[r].files), NEW f \in FilesOf(r)
      PROVE  file[f] = With(r, f)
  <2>1. PICK i \in 1..Len(Plan[r].files) : f = Plan[r].files[i]
    BY <1>1
  <2>2. i <= done[r]
    BY <1>1, <1>4
  <2> QED
    BY <1>4, <2>1, <2>2 DEF Written
<1>5. ASSUME Written(r), NotRead(r), done[r] = 0, NEW f \in FilesOf(r)
      PROVE  r \notin file[f]
  <2>1. PICK i \in 1..Len(Plan[r].files) : f = Plan[r].files[i]
    BY <1>1
  <2>2. ~(i <= done[r])
    BY <1>1, <1>5
  <2> QED
    BY <1>5, <2>1, <2>2 DEF Written, NotRead
<1>6. ASSUME Recovered(r), NotRead(r), done[r] = Len(Plan[r].restores), NEW f \in FilesOf(r)
      PROVE  r \notin file[f]
  <2>1. PICK i \in 1..Len(Plan[r].restores) : f = Plan[r].restores[i]
    BY <1>2
  <2>2. i <= done[r]
    BY <1>1, <1>6
  <2> QED
    BY <1>6, <2>1, <2>2 DEF Recovered, NotRead
<1> QED
  BY <1>3, <1>4, <1>5, <1>6 DEF AsWritten, InNone

\* What a step that leaves the files and the copies alone leaves of a release.
LEMMA PartStays ==
    ASSUME plan' = plan, file' = file, NEW r \in Releases, old'[r] = old[r]
    PROVE  /\ InNone(r)' <=> InNone(r)
           /\ InAll(r)' <=> InAll(r)
           /\ AsWritten(r)' <=> AsWritten(r)
           /\ NotRead(r)' <=> NotRead(r)
           /\ done'[r] = done[r] => (Written(r)' <=> Written(r)) /\ (Recovered(r)' <=> Recovered(r))
<1>1. Plan' = Plan /\ FilesOf(r)' = FilesOf(r)
  BY Kept
<1>2. \A f : With(r, f)' = With(r, f)
  BY <1>1 DEF With
<1> QED
  BY <1>1, <1>2 DEF InNone, InAll, AsWritten, NotRead, Written, Recovered

LEMMA PartRead ==
    ASSUME TypeOK, NEW r \in Releases, Paired(r), Counted(r), Part(r), Read(r), plan' = plan
    PROVE  Part(r)'
<1>1. Plan' = Plan /\ FilesOf(r)' = FilesOf(r) /\ CheckSlow' = CheckSlow
  BY Kept
<1>2. /\ script'[r] = "applying" /\ guest'[r] = "writing" /\ done'[r] = 0
      /\ old'[r] = file /\ file' = file
  BY Shape DEF Read, GuestTo, GuestStep, Paired, Counted
<1>3. InNone(r)
  BY DEF Part, Read
<1>4. NotRead(r)'
  BY <1>1, <1>2, <1>3 DEF NotRead, InNone
<1>5. Written(r)'
  <2> SUFFICES ASSUME NEW i \in 1..Len(Plan[r].files)
               PROVE  LET f == Plan[r].files[i] IN file'[f] = IF i <= done'[r] THEN With(r, f)' ELSE old'[r][f]
    BY <1>1 DEF Written
  <2>1. ~(i <= done'[r])
    BY <1>2, ScriptFacts
  <2> QED
    BY <1>2, <2>1
<1> QED
  BY <1>2, <1>4, <1>5 DEF Part

\* The next file is written, or the last taken back.
LEMMA PartWrite ==
    ASSUME TypeOK, NEW r \in Releases, Paired(r), Counted(r), Part(r), plan' = plan,
           Act(r), Write(r) \/ Undo(r), ~Idle(r)
    PROVE  Part(r)'
<1> DEFINE N == Len(Plan[r].files)
           F(i) == Plan[r].files[i]
<1>1. /\ Plan' = Plan /\ FilesOf(r)' = FilesOf(r) /\ \A f \in Files : With(r, f)' = With(r, f) \/ old'[r] # old[r]
  BY Kept DEF With
<1>2. /\ N \in Nat /\ \A i \in 1..N : F(i) \in Files
      /\ \A i, j \in 1..N : F(i) = F(j) => i = j
      /\ file \in [Files -> Contents] /\ done[r] \in Nat
  BY ScriptFacts, FileFacts, Shape
<1>3. /\ script'[r] = "applying" /\ guest'[r] \in {"writing", "undoing"} /\ old'[r] = old[r]
      /\ guest[r] \in {"writing", "undoing"} /\ Past(r)
  BY Shape DEF Write, Undo, Compare, Restore, GuestStep, Fail, GuestTo, Paired, Past, Idle
<1>4. Written(r) /\ NotRead(r)
  BY <1>3 DEF Part
<1>5. NotRead(r)'
  BY <1>1, <1>3, <1>4 DEF NotRead
<1>6. ASSUME NEW i \in 1..N
      PROVE  file'[F(i)] = IF i <= done'[r] THEN With(r, F(i)) ELSE old[r][F(i)]
  <2>1. file[F(i)] = IF i <= done[r] THEN With(r, F(i)) ELSE old[r][F(i)]
    BY <1>4 DEF Written
  <2>2. CASE Write(r)
    <3>1. /\ done[r] < N /\ done'[r] = done[r] + 1 /\ Puts(r, F(done[r] + 1))
      BY <2>2, OwnFile DEF Write, Undo, Compare, Restore
    <3>2. done[r] + 1 \in 1..N /\ (i <= done'[r] <=> i <= done[r] \/ i = done[r] + 1)
      BY <1>2, <3>1
    <3>3. F(i) = F(done[r] + 1) <=> i = done[r] + 1
      BY <1>2, <3>2
    <3>4. file'[F(i)] = IF F(i) = F(done[r] + 1) THEN With(r, F(i)) ELSE file[F(i)]
      BY <1>2, <3>1 DEF Puts
    <3> HIDE DEF F, N
    <3> QED
      BY <2>1, <3>2, <3>3, <3>4
  <2>3. CASE Undo(r)
    <3>1. /\ done[r] \in 1..N /\ done'[r] = done[r] - 1
          /\ file[F(done[r])] = With(r, F(done[r])) => PutsBack(r, F(done[r]))
      BY <2>3, OwnFile DEF Write, Undo, Compare, Restore
    <3>0. PutsBack(r, F(done[r]))
      <4>1. done[r] <= done[r]
        BY <1>2
      <4> QED
        BY <1>4, <3>1, <4>1 DEF Written
    <3>2. i <= done'[r] <=> i <= done[r] /\ i # done[r]
      BY <1>2, <3>1
    <3>3. F(i) = F(done[r]) <=> i = done[r]
      BY <1>2, <3>1
    <3>4. file'[F(i)] = IF F(i) = F(done[r]) THEN old[r][F(i)] ELSE file[F(i)]
      BY <1>2, <3>0, <3>1 DEF PutsBack
    <3>5. i = done[r] => i <= done[r]
      BY <1>2
    <3> HIDE DEF F, N
    <3> QED
      BY <2>1, <3>2, <3>3, <3>4, <3>5
  <2> QED
    BY <2>2, <2>3
<1>7. Written(r)'
  BY <1>1, <1>2, <1>3, <1>6 DEF Written
<1> HIDE DEF F, N
<1> QED
  BY <1>3, <1>5, <1>7 DEF Part

\* The next file is restored.
LEMMA PartRestore ==
    ASSUME TypeOK, NEW r \in Releases, Paired(r), Counted(r), Part(r), plan' = plan,
           Act(r), Compare(r) \/ Restore(r), ~Idle(r)
    PROVE  Part(r)'
<1> DEFINE M == Len(Plan[r].restores)
           R(i) == Plan[r].restores[i]
<1>1. Plan' = Plan /\ FilesOf(r)' = FilesOf(r)
  BY Kept
<1>2. /\ M \in Nat \ {0} /\ \A i \in 1..M : R(i) \in Files
      /\ file \in [Files -> Contents] /\ done[r] \in Nat
  BY ScriptFacts, FileFacts, Shape
<1>3. /\ script'[r] = "restoring" /\ guest'[r] = "restoring" /\ old'[r] = old[r] /\ note'[r] = note[r]
      /\ Past(r)
  BY Shape DEF Write, Undo, Compare, Restore, GuestStep, GuestTo, Paired, Past, Idle
<1>4. NotRead(r)'
  BY <1>1, <1>3 DEF NotRead, Part
<1>5. ASSUME NEW k \in 1..M, PutsBack(r, R(k)), done'[r] = k,
             k = 1 \/ (done[r] = k - 1 /\ Recovered(r))
      PROVE  Recovered(r)'
  <2> SUFFICES ASSUME NEW i \in 1..M, i <= k
               PROVE  file'[R(i)] = old[r][R(i)]
    BY <1>1, <1>3, <1>5 DEF Recovered
  <2>1. file'[R(i)] = IF R(i) = R(k) THEN old[r][R(i)] ELSE file[R(i)]
    BY <1>2, <1>5 DEF PutsBack
  <2>2. i = k \/ (k # 1 /\ i <= k - 1)
    BY <1>2
  <2>3. k # 1 /\ i <= k - 1 => file[R(i)] = old[r][R(i)]
    BY <1>5 DEF Recovered
  <2> HIDE DEF R, M
  <2> QED
    BY <2>1, <2>2, <2>3
<1>6. CASE Compare(r)
  <2>1. PutsBack(r, R(1)) /\ done'[r] = 1
    BY <1>6, OwnFile DEF Write, Undo, Compare, Restore
  <2>2. Recovered(r)'
    BY <1>2, <1>5, <2>1
  <2> HIDE DEF R, M
  <2> QED
    BY <1>3, <1>4, <2>2 DEF Part
<1>7. CASE Restore(r)
  <2>1. /\ PutsBack(r, R(done[r] + 1)) /\ done'[r] = done[r] + 1 /\ done[r] \in 1..(M - 1)
        /\ guest[r] = "restoring"
    BY <1>7, OwnFile DEF Write, Undo, Compare, Restore
  <2>2. done[r] + 1 \in 1..M /\ done[r] = (done[r] + 1) - 1
    BY <1>2, <2>1
  <2>3. note[r] = "review" \/ Recovered(r)
    BY <2>1 DEF Part
  <2>4. note[r] = "review" \/ Recovered(r)'
    BY <1>5, <2>1, <2>2, <2>3
  <2> HIDE DEF R, M
  <2> QED
    BY <1>3, <1>4, <2>4 DEF Part
<1> QED
  BY <1>6, <1>7

\* Every other step leaves the files.
LEMMA PartAlone ==
    ASSUME TypeOK, NEW r \in Releases, Subject(r), Paired(r), Counted(r), Part(r), Act(r),
           ~Read(r), plan' = plan, Idle(r)
    PROVE  Part(r)'
<1>1. /\ script \in [Releases -> Scripts] /\ guest \in [Releases -> Guests]
      /\ note \in [Releases -> {"", "review", "unknown", "inspect"}]
      /\ done \in [Releases -> Nat]
  BY Shape
<1>0. /\ file' = file
      /\ Write(r) \/ Undo(r) \/ Compare(r) \/ Restore(r) => done'[r] = done[r] /\ guest'[r] # "restoring"
  BY DEF Idle
<1>2. old'[r] = old[r]
  BY PastAct DEF Subject, Quiet
<1>3. /\ InNone(r)' <=> InNone(r)
      /\ InAll(r)' <=> InAll(r)
      /\ AsWritten(r)' <=> AsWritten(r)
      /\ NotRead(r)' <=> NotRead(r)
      /\ done'[r] = done[r] => (Written(r)' <=> Written(r)) /\ (Recovered(r)' <=> Recovered(r))
  BY <1>0, <1>2, PartStays
<1>4. Plan' = Plan /\ CheckSlow' = CheckSlow /\ ~GuestSlow
  BY Kept DEF Subject, Quiet
<1>a. /\ AsWritten(r) => InAll(r)
      /\ Written(r) /\ done[r] = Len(Plan[r].files) => AsWritten(r)
      /\ Written(r) /\ NotRead(r) /\ done[r] = 0 => InNone(r)
      /\ Recovered(r) /\ NotRead(r) /\ done[r] = Len(Plan[r].restores) => InNone(r)
  BY PartFacts DEF Subject
<1>b. /\ done[r] \in Nat /\ Len(Plan[r].files) \in Nat
      /\ Plan[r].undoes \/ Len(Plan[r].files) = 1
  BY <1>1, ScriptFacts DEF Subject, TakesBack
<1>c. faults < Faults => Plan[r].tells
  <2>1. faults \in Nat /\ Faults \in Nat
    <3>1. plan \in Plans /\ faults \in 0..Faults
      BY DEF TypeOK
    <3>2. Faults \in Nat
      BY <3>1, PlanFacts
    <3> QED
      BY <3>1, <3>2
  <2>2. Plan[r].tells \/ Faults = 0
    BY DEF Subject, TakesBack
  <2> QED
    BY <2>1, <2>2
<1>d. Written(r) /\ NotRead(r) /\ done[r] < Len(Plan[r].files) /\ ~Plan[r].undoes => InNone(r)
  <2>1. ASSUME done[r] < Len(Plan[r].files), ~Plan[r].undoes
        PROVE  done[r] = 0
    <3>1. Len(Plan[r].files) = 1
      BY <1>b, <2>1
    <3> QED
      BY <1>b, <2>1, <3>1
  <2> QED
    BY <1>a, <2>1
<1> USE <1>1, <1>3, <1>4, <1>a, <1>b, <1>c, <1>d DEF Scripts, Guests, ScriptTo, GuestTo, Blocked, RollBack, Fails, GuestStep, ScriptStep, Past, Paired, Part
<1>5. CASE Start(r) \/ Refuse(r)
  BY <1>5 DEF Start, Refuse
<1>6. CASE Write(r) \/ WriteFails(r)
  BY <1>0, <1>6 DEF Write, WriteFails, Fail
<1>7. CASE Attest(r)
  BY <1>7 DEF Attest, Fail
<1>8. CASE Undo(r)
  BY <1>0, <1>8 DEF Undo
<1>9. CASE PatchEnds(r) \/ GiveUp(r) \/ CheckEnds(r) \/ CheckRunsOut(r)
  BY <1>9 DEF PatchEnds, GiveUp, CheckEnds, CheckRunsOut
<1>10. CASE Compare(r) \/ Restore(r)
  BY <1>0, <1>10 DEF Compare, Restore
<1>11. CASE RestoreFails(r) \/ RestoreSkips(r)
  BY <1>11 DEF RestoreFails, RestoreSkips
<1>12. CASE RollbackEnds(r)
  BY <1>12 DEF RollbackEnds
<1>13. CASE Restart(r) \/ Reload(r) \/ RestartInstead(r) \/ Leave(r) \/ RestartUnseen(r) \/ ReloadFails(r)
  BY <1>13 DEF Restart, Reload, RestartInstead, Leave, RestartUnseen, ReloadFails
<1>14. CASE Verify(r) \/ VerifyFails(r)
  BY <1>14 DEF Verify, VerifyFails
<1>15. CASE Return(r) \/ ReturnFails(r)
  BY <1>15 DEF Return, ReturnFails
<1> QED
  BY <1>5, <1>6, <1>7, <1>8, <1>9, <1>10, <1>11, <1>12, <1>13, <1>14, <1>15 DEF Act

\* Another release's step leaves this one in the files it is in.
LEMMA PartOther ==
    ASSUME TypeOK, NEW r \in Releases, ~Overwritten(r), NEW s \in Releases, s # r,
           Paired(s), Counted(s), Mine(s), Act(s), NEW f \in FilesOf(r)
    PROVE  r \in file'[f] <=> r \in file[f]
<1>1. file \in [Files -> Contents] /\ f \in Files
  BY Shape, FileFacts
<1>2. With(s, f) = old[s][f] \cup {s}
  BY DEF With, Overwritten
<1>3. ASSUME NEW g \in FilesOf(s), Past(s), Puts(s, g) \/ PutsBack(s, g)
      PROVE  r \in file'[f] <=> r \in file[f]
  <2>1. file'[f] = file[f] \/ (f = g /\ file'[f] \in {old[s][f], With(s, f)})
    BY <1>1, <1>3 DEF Puts, PutsBack
  <2>2. f = g => file[f] \in {old[s][f], With(s, f)}
    BY <1>3 DEF Mine
  <2> QED
    BY <1>2, <2>1, <2>2
<1>4. Write(s) \/ Undo(s) \/ Compare(s) \/ Restore(s) => Past(s)
  BY DEF Write, Undo, Compare, Restore, Past, Paired
<1> QED
  BY <1>3, <1>4, OwnFile DEF Idle

LEMMA PartStep ==
    ASSUME TypeOK, QuietInv, [Next]_vars, NEW r \in Releases, Subject(r), Part(r)
    PROVE  Part(r)'
<1>1. /\ plan' = plan /\ Plan' = Plan /\ FilesOf(r)' = FilesOf(r) /\ CheckSlow' = CheckSlow
  BY PlanStays, Kept
<1>2. /\ ~GuestSlow /\ CountInv /\ JobInv /\ MineInv
  BY DEF Subject, Quiet, QuietInv
<1>3. Paired(r) /\ Counted(r)
  BY <1>2 DEF JobInv, CountInv
<1>4. CASE Act(r)
  <2>1. CASE Read(r)
    BY <1>1, <1>3, <2>1, PartRead
  <2>2. CASE ~Read(r) /\ Idle(r)
    BY <1>1, <1>3, <1>4, <2>2, PartAlone
  <2>3. CASE ~Idle(r)
    BY <1>1, <1>3, <1>4, <2>3, OwnFile, PartWrite, PartRestore
  <2> QED
    BY <2>1, <2>2, <2>3
<1>5. ASSUME NEW s \in Releases, s # r, Act(s)
      PROVE  Part(r)'
  <2>1. Settled(r) /\ Untouched(r)
    BY <1>2, <1>5, OnlyOne, ScriptType, CountType DEF Untouched
  <2>2. \A f \in FilesOf(r) : r \in file'[f] <=> r \in file[f]
    BY <1>2, <1>5, PartOther DEF Subject, JobInv, CountInv, MineInv
  <2>3. InNone(r) => InNone(r)'
    BY <1>1, <2>2 DEF InNone
  <2>4. InAll(r) => InAll(r)'
    BY <1>1, <2>2 DEF InAll
  <2>5. guest[r] = "none"
    BY <1>3, <2>1 DEF Paired, Settled
  <2> QED
    BY <1>1, <2>1, <2>3, <2>4, <2>5 DEF Part, Untouched, Settled, Past
<1>6. CASE UNCHANGED vars
  <2>1. /\ InNone(r)' <=> InNone(r)
        /\ InAll(r)' <=> InAll(r)
        /\ AsWritten(r)' <=> AsWritten(r)
        /\ NotRead(r)' <=> NotRead(r)
        /\ Written(r)' <=> Written(r)
        /\ Recovered(r)' <=> Recovered(r)
    BY <1>1, <1>6, PartStays DEF vars
  <2> QED
    BY <1>1, <1>6, <2>1 DEF vars, Part, Past
<1> QED
  BY <1>2, <1>4, <1>5, <1>6, QuietSteps DEF Subject

LEMMA PartWhole ==
    ASSUME TypeOK, JobInv, NEW r \in Releases, Subject(r), Part(r)
    PROVE  WholeOrNone(r) /\ BlockedLeavesNothing(r)
<1>1. AsWritten(r) => InAll(r)
  BY PartFacts DEF Subject
<1>2. script[r] \in Scripts /\ guest[r] \in Guests /\ Paired(r)
  BY Shape DEF JobInv
<1>3. WholeOrNone(r)
  BY <1>1, <1>2 DEF WholeOrNone, Busy, Part, Paired, Scripts, Guests
<1>4. BlockedLeavesNothing(r)
  BY DEF BlockedLeavesNothing, Part
<1> QED
  BY <1>3, <1>4

-----------------------------------------------------------------------------
(* What Core has loaded of a release.                                      *)

\* The releases BlockedRunsNothing is about.
Returns(r) == Plan[r].confirms /\ (Plan[r].retracts => Plan[r].checks /\ Plan[r].wholes = {})

Out(r) == \A f \in FilesOf(r) : r \notin core[f]
OutButReloads(r) == \A f \in FilesOf(r) \ Plan[r].reloads : r \notin core[f]

\* What is loaded of a release at each point of its job, and what Core accepts
\* where a restart is still to take it out.
Loaded(r) ==
    /\ script[r] \in {"waiting", "applying", "checking", "valid"} => Out(r)
    /\ script[r] = "verifying" => Plan[r].then # "nothing" /\ (Plan[r].then = "reload" => OutButReloads(r))
    /\ script[r] \in {"valid", "verifying"} /\ Plan[r].checks => Accepted(file)
    /\ script[r] \in {"restoring", "returning"} =>
           \/ Out(r)
           \/ /\ Plan[r].retracts
              /\ (Plan[r].then = "reload" /\ OutButReloads(r)) \/ (Plan[r].then = "restart" /\ Accepted(file))
    /\ script[r] = "blocked" /\ note[r] = "" /\ ~(Plan[r].leaves /\ CheckSlow) => Out(r)

LEMMA LoadedStays ==
    ASSUME plan' = plan, broken' = broken, NEW r \in Releases
    PROVE  /\ core' = core => (Out(r)' <=> Out(r)) /\ (OutButReloads(r)' <=> OutButReloads(r))
           /\ file' = file => (Accepted(file)' <=> Accepted(file))
<1>1. Plan' = Plan /\ FilesOf(r)' = FilesOf(r)
  BY Kept
<1> QED
  BY <1>1 DEF Out, OutButReloads, Accepted

\* What a rollback leaves of an accepted configuration is accepted.
LEMMA BackAccepted ==
    ASSUME TypeOK, NEW r \in Releases, Mine(r), Past(r), Plan[r].wholes = {}, broken' = broken,
           NEW g \in FilesOf(r), PutsBack(r, g), Accepted(file)
    PROVE  Accepted(file)'
<1>1. file \in [Files -> Contents] /\ g \in Files
  BY Shape, FileFacts
<1>2. old[r][g] \subseteq file[g]
  BY DEF Mine, With
<1>3. /\ DOMAIN file' = Files /\ DOMAIN file = Files
      /\ \A f \in Files : file'[f] \subseteq file[f]
  BY <1>1, <1>2 DEF PutsBack
<1> QED
  BY <1>3 DEF Accepted

\* A step that changes a file loads nothing.
LEMMA LoadedFile ==
    ASSUME TypeOK, NEW r \in Releases, Returns(r), Paired(r), Counted(r), Mine(r), Loaded(r),
           Act(r), ~Idle(r), plan' = plan, broken' = broken
    PROVE  Loaded(r)' \/ (file' = file /\ core' = core /\ script'[r] = script[r] /\ note'[r] = note[r])
<1>1. Plan' = Plan /\ CheckSlow' = CheckSlow
  BY Kept
<1>2. CASE Write(r) \/ Undo(r)
  <2>1. script'[r] = "applying" /\ core' = core /\ Out(r)
    BY <1>2, Shape DEF Write, Undo, GuestStep, core_vars, Paired, Loaded
  <2>2. Out(r)'
    BY <2>1, LoadedStays
  <2> QED
    BY <2>1, <2>2 DEF Loaded
<1>3. CASE Compare(r) \/ Restore(r)
  <2>1. script[r] = "restoring" /\ script' = script /\ core' = core /\ Past(r)
    BY <1>3, Shape DEF Compare, Restore, GuestStep, core_vars, Paired, Past
  <2>2. (Out(r)' <=> Out(r)) /\ (OutButReloads(r)' <=> OutButReloads(r))
    BY <2>1, LoadedStays
  <2>3. \E g \in FilesOf(r) : PutsBack(r, g)
    BY <1>3, OwnFile DEF Write, Undo, Compare, Restore
  <2>4. Plan[r].retracts /\ Accepted(file) => Accepted(file)'
    BY <2>1, <2>3, BackAccepted DEF Returns
  <2> QED
    BY <1>1, <2>1, <2>2, <2>4 DEF Loaded
<1> QED
  BY <1>2, <1>3, OwnFile

LEMMA LoadedIdle ==
    ASSUME TypeOK, ~GuestSlow, NEW r \in Releases, Subject(r), Returns(r), Paired(r), Part(r), Loaded(r),
           Act(r), ~Return(r), file' = file, CoreStays, plan' = plan, broken' = broken
    PROVE  Loaded(r)'
<1>1. /\ script \in [Releases -> Scripts] /\ guest \in [Releases -> Guests]
      /\ note \in [Releases -> {"", "review", "unknown", "inspect"}]
  BY Shape
<1>2. /\ Out(r)' <=> Out(r)
      /\ OutButReloads(r)' <=> OutButReloads(r)
      /\ Accepted(file)' <=> Accepted(file)
  BY LoadedStays DEF CoreStays
<1>3. Plan' = Plan /\ CheckSlow' = CheckSlow
  BY Kept
<1>4. /\ script[r] = "restoring" /\ guest[r] = "failed" => Plan[r].tells
      /\ Plan[r].then \in {"restart", "reload", "nothing"}
  BY PlanFacts DEF Part, TypeOK, IsScript
<1>5. Out(r) => OutButReloads(r)
  BY DEF Out, OutButReloads
<1> USE <1>1, <1>2, <1>3, <1>4, <1>5 DEF Scripts, Guests, ScriptTo, GuestTo, Blocked, RollBack, Fails, GuestStep, ScriptStep, Paired, Loaded, Returns
<1>6. CASE Start(r) \/ Refuse(r) \/ Read(r)
  BY <1>6 DEF Start, Refuse, Read
<1>7. CASE Write(r) \/ WriteFails(r) \/ Attest(r) \/ Undo(r)
  BY <1>7 DEF Write, WriteFails, Attest, Fail, Undo
<1>8. CASE PatchEnds(r) \/ GiveUp(r) \/ CheckEnds(r) \/ CheckRunsOut(r)
  BY <1>8 DEF PatchEnds, GiveUp, CheckEnds, CheckRunsOut
<1>9. CASE Compare(r) \/ Restore(r) \/ RestoreFails(r) \/ RestoreSkips(r) \/ RollbackEnds(r)
  BY <1>9 DEF Compare, Restore, RestoreFails, RestoreSkips, RollbackEnds
<1>10. CASE Restart(r) \/ Reload(r) \/ RestartInstead(r) \/ Leave(r) \/ RestartUnseen(r) \/ ReloadFails(r)
  BY <1>10 DEF Restart, Reload, RestartInstead, Leave, RestartUnseen, ReloadFails
<1>11. CASE Verify(r) \/ VerifyFails(r)
  BY <1>11 DEF Verify, VerifyFails
<1>12. CASE ReturnFails(r)
  BY <1>12 DEF ReturnFails
<1> QED
  BY <1>6, <1>7, <1>8, <1>9, <1>10, <1>11, <1>12 DEF Act

LEMMA LoadedReturn ==
    ASSUME TypeOK, NEW r \in Releases, Part(r), Loaded(r), Return(r), plan' = plan
    PROVE  Loaded(r)'
<1>1. Plan' = Plan /\ CheckSlow' = CheckSlow /\ FilesOf(r)' = FilesOf(r) /\ FilesOf(r) \subseteq Files
  BY Kept, FileFacts
<1>2. script'[r] = "blocked" /\ note'[r] = note[r] /\ script[r] = "returning"
  BY Shape DEF Return, ScriptTo
<1>3. SUFFICES ASSUME note[r] # "review" PROVE Out(r)'
  BY <1>1, <1>2 DEF Loaded
<1>4. InNone(r)
  BY <1>2, <1>3 DEF Part
<1>5. CASE Plan[r].then = "reload" /\ Reloaded(r)
  <2>1. OutButReloads(r)
    BY <1>2, <1>5 DEF Loaded, Out, OutButReloads
  <2>2. \A f \in FilesOf(r) : core'[f] = IF f \in Plan[r].reloads THEN file[f] ELSE core[f]
    BY <1>1, <1>5 DEF Reloaded
  <2> QED
    BY <1>1, <1>4, <2>1, <2>2 DEF Out, OutButReloads, InNone
<1>6. CASE Plan[r].then = "restart" /\ Accepted(file)
  BY <1>1, <1>4, <1>6 DEF Return, Restarted, Out, InNone
<1>7. CASE Plan[r].then = "restart" /\ ~Accepted(file)
  <2>1. Out(r) /\ core' = core
    BY <1>2, <1>7 DEF Loaded, Return, core_vars
  <2> QED
    BY <1>1, <2>1 DEF Out
<1> QED
  BY <1>5, <1>6, <1>7 DEF Return

\* A release that is loaded has been checked and is not in doubt.
LEMMA LoadedCore ==
    ASSUME TypeOK, NEW r \in Releases, Loaded(r), Restart(r) \/ Reload(r) \/ RestartInstead(r),
           plan' = plan, broken' = broken
    PROVE  Loaded(r)'
<1>1. Plan' = Plan /\ CheckSlow' = CheckSlow /\ FilesOf(r)' = FilesOf(r) /\ FilesOf(r) \subseteq Files
  BY Kept, FileFacts
<1>2. /\ script[r] = "valid" /\ script'[r] \in {"verifying", "ok"} /\ Plan[r].then # "nothing"
      /\ file' = file
  BY Shape DEF Restart, Reload, RestartInstead, ScriptTo, ScriptStep
<1>3. script'[r] = "verifying" /\ Plan[r].then = "reload" => OutButReloads(r)'
  <2> SUFFICES ASSUME script'[r] = "verifying", Plan[r].then = "reload"
               PROVE  OutButReloads(r)'
    OBVIOUS
  <2>1. Reloaded(r)
    BY Shape DEF Restart, Reload, RestartInstead, ScriptTo
  <2>2. Out(r)
    BY <1>2 DEF Loaded
  <2> QED
    BY <1>1, <2>1, <2>2 DEF Reloaded, Out, OutButReloads
<1>4. Accepted(file)' <=> Accepted(file)
  BY <1>2, LoadedStays
<1> QED
  BY <1>1, <1>2, <1>3, <1>4 DEF Loaded

\* What another release has Core load has nothing of this one.
LEMMA LoadedOther ==
    ASSUME TypeOK, NEW r \in Releases, NEW s \in Releases, Act(s), plan' = plan,
           Out(r), InNone(r)
    PROVE  Out(r)'
<1>1. FilesOf(r)' = FilesOf(r) /\ FilesOf(r) \subseteq Files
  BY Kept, FileFacts
<1>2. CASE CoreStays
  BY <1>1, <1>2 DEF CoreStays, Out
<1>3. CASE Restarted
  BY <1>1, <1>3 DEF Restarted, Out, InNone
<1>4. CASE Reloaded(s)
  BY <1>1, <1>4 DEF Reloaded, Out, InNone
<1> QED
  BY <1>2, <1>3, <1>4, CoreSteps

LEMMA LoadedStep ==
    ASSUME TypeOK, QuietInv, [Next]_vars, NEW r \in Releases, Subject(r), Returns(r), Part(r), Loaded(r)
    PROVE  Loaded(r)'
<1>1. /\ plan' = plan /\ Plan' = Plan /\ FilesOf(r)' = FilesOf(r) /\ CheckSlow' = CheckSlow
  BY PlanStays, Kept
<1>2. ~GuestSlow /\ CountInv /\ JobInv /\ MineInv
  BY DEF Subject, Quiet, QuietInv
<1>3. Paired(r) /\ Counted(r) /\ Mine(r)
  BY <1>2 DEF JobInv, CountInv, MineInv
<1>4. CASE Act(r)
  <2>1. broken' = broken
    BY <1>4, PlanStays
  <2>2. CASE Return(r)
    BY <1>1, <2>2, LoadedReturn
  <2>3. CASE Restart(r) \/ Reload(r) \/ RestartInstead(r)
    BY <1>1, <2>1, <2>3, LoadedCore
  <2>4. CASE ~Idle(r)
    <3>1. file' # file => Loaded(r)'
      BY <1>1, <1>3, <1>4, <2>1, <2>4, LoadedFile
    <3>2. CASE file' = file /\ CoreStays /\ ~Return(r)
      BY <1>1, <1>2, <1>3, <1>4, <2>1, <3>2, LoadedIdle
    <3> QED
      BY <1>2, <1>4, <2>2, <2>3, <3>1, <3>2, CoreSteps DEF RestartUnseen
  <2>5. CASE Idle(r) /\ CoreStays /\ ~Return(r)
    BY <1>1, <1>2, <1>3, <1>4, <2>1, <2>5, LoadedIdle DEF Idle
  <2> QED
    BY <1>2, <1>4, <2>2, <2>3, <2>4, <2>5, CoreSteps DEF RestartUnseen
<1>5. ASSUME NEW s \in Releases, s # r, Act(s)
      PROVE  Loaded(r)'
  <2>1. Settled(r) /\ Untouched(r)
    BY <1>2, <1>5, OnlyOne, ScriptType, CountType DEF Untouched
  <2>2. script[r] = "waiting" => InNone(r) /\ Out(r)
    BY DEF Part, Loaded
  <2>3. script[r] = "blocked" /\ note[r] = "" /\ ~(Plan[r].leaves /\ CheckSlow) => InNone(r) /\ Out(r)
    BY DEF Part, Loaded
  <2>4. InNone(r) /\ Out(r) => Out(r)'
    BY <1>1, <1>5, LoadedOther
  <2> QED
    BY <1>1, <2>1, <2>2, <2>3, <2>4 DEF Untouched, Settled, Loaded
<1>6. CASE UNCHANGED vars
  <2>1. /\ Out(r)' <=> Out(r)
        /\ OutButReloads(r)' <=> OutButReloads(r)
        /\ Accepted(file)' <=> Accepted(file)
    BY <1>1, <1>6, LoadedStays DEF vars
  <2> QED
    BY <1>1, <1>6, <2>1 DEF vars, Loaded
<1> QED
  BY <1>4, <1>5, <1>6, QuietSteps DEF Subject

-----------------------------------------------------------------------------

\* A release of a script that takes back what it has written is whole or gone,
\* and a job that is blocked and has nothing to tell has left nothing behind,
\* nor loaded: for any such script among any others that write none of its files
\* whatever is in it, in any order and with any number of faults.
THEOREM WholeOrGoneAlways == Spec => []WholeOrGone
<1> DEFINE Inv == \A r \in Releases : Subject(r) => Part(r) /\ (Returns(r) => Loaded(r))
<1>1. Init => Inv
  <2> SUFFICES ASSUME Init, NEW r \in Releases, Subject(r)
               PROVE  Part(r) /\ Loaded(r)
    OBVIOUS
  <2>1. script[r] = "waiting" /\ guest[r] = "none"
    BY DEF Init
  <2>2. r # "base"
    BY PlanFacts DEF Init
  <2>3. InNone(r) /\ Out(r)
    BY <2>2, FileFacts DEF Init, InNone, Out
  <2> QED
    BY <2>1, <2>3 DEF Part, Loaded, Past
<1>2. TypeOK /\ QuietInv /\ Inv /\ [Next]_vars => Inv'
  <2> SUFFICES ASSUME TypeOK, QuietInv, Inv, [Next]_vars
               PROVE  Inv'
    OBVIOUS
  <2>1. plan' = plan /\ Releases' = Releases
    BY PlanStays, Kept
  <2>2. ASSUME NEW r \in Releases
        PROVE  (Subject(r)' <=> Subject(r)) /\ (Returns(r)' <=> Returns(r))
    BY <2>1, Kept DEF Subject, Quiet, TakesBack, Overwritten, Returns
  <2> QED
    BY <2>1, <2>2, PartStep, LoadedStep
<1>3. TypeOK /\ QuietInv /\ Inv => WholeOrGone
  <2> SUFFICES ASSUME TypeOK, QuietInv, Inv, Quiet,
                      NEW r \in Releases, TakesBack(r), ~Overwritten(r)
               PROVE  WholeOrNone(r) /\ BlockedLeavesNothing(r) /\ BlockedRunsNothing(r)
    BY DEF WholeOrGone
  <2>1. Subject(r) /\ Part(r) /\ JobInv
    BY DEF Subject, QuietInv, Quiet
  <2>2. BlockedRunsNothing(r)
    BY <2>1 DEF BlockedRunsNothing, Returns, Loaded, Out
  <2> QED
    BY <2>1, <2>2, PartWhole
<1> HIDE DEF Inv
<1> QED
  BY <1>1, <1>2, <1>3, QuietCorrect, PTL DEF Spec
=============================================================================
