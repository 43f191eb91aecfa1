---------------------------- MODULE GatewayProofs ----------------------------
(***************************************************************************)
(* What the gateway and Natural Automation keep, for any constants.        *)
(*                                                                         *)
(* JobsAreKept for any jobs, attempts and mishaps.  The invariant follows a *)
(* job through the workspace of the run: what the run has not touched is as *)
(* it was checked out, what it has done is complete, and in between there   *)
(* is one job under way.                                                   *)
(*                                                                         *)
(* DecisionsAreKept for any automations, threads and proposals: what a     *)
(* request has loaded is still in the files when it saves its copies.      *)
(*                                                                         *)
(* ApplyIsTransactional for any requests, proposals and seconds: what may  *)
(* replace automations.yaml holds all that was applied, and no more.       *)
(***************************************************************************)
EXTENDS GatewayQueue, ReviewStore, StewardApply, FiniteSetTheorems, TLAPS

-----------------------------------------------------------------------------
(* The queue: its invariant.                                               *)

Blank(tree, j) == tree.result[j] = 0 /\ tree.status[j] = "none"
Same(j) == ws.result[j] = base.result[j] /\ ws.status[j] = base.status[j]
Tidy(tree) == \A j \in Jobs : Blank(tree, j) \/ Complete(tree, j)
Busy(j) == queuePc \in {"execute", "result", "settle"} /\ j \in First

\* The job under way has been started and has its result last; every other is as it
\* was checked out, or was new there and is complete.
Worked(j) ==
    /\ Busy(j) => /\ Blank(base, j) /\ ws.status[j] = "running"
                  /\ ws.result[j] # 0 <=> queuePc = "settle"
    /\ ~Busy(j) => Same(j) \/ (Blank(base, j) /\ Complete(ws, j))

LimitInv == \A m \in QueueMishaps : queueBudget[m] <= limits[m]

ExecInv == exec <= MaxExec /\ (queuePc = "result" => exec # 0)

\* A workspace differs from its tree by what it has, never by what it lacks.
AddsInv ==
    \A j \in Jobs : /\ ws.result[j] # base.result[j] => ws.result[j] # 0
                    /\ ws.status[j] # base.status[j] => ws.status[j] # "none"

\* Unless a run was stopped, all trees have result and status together.
TidyInv ==
    NoneKilled => /\ Tidy(main) /\ Tidy(pending.tree) /\ Tidy(base)
                  /\ \A j \in Jobs : Worked(j)

\* If nobody submits during a run, the run has what main shows.
LatestInv ==
    limits["overlap"] = 0 => /\ pending.waits => queuePc = "idle" /\ pending.tree = main
                             /\ queuePc # "idle" => base = main

\* The run leaves alone what its tree shows as completed.
LeftAloneInv == \A j \in Jobs : Complete(base, j) => Same(j) /\ ~Busy(j)

QueueIInv == /\ QueueTypeOK /\ LimitInv /\ ExecInv /\ AddsInv
             /\ TidyInv /\ LatestInv /\ LeftAloneInv

-----------------------------------------------------------------------------
(* Trees and the job that comes first.                                     *)

LEMMA EmptyIs ==
  /\ Empty \in Trees
  /\ \A j \in Jobs : Blank(Empty, j)
BY JobAssumption, QueueAssumption DEF Empty, Trees, States, Blank

LEMMA OneIsFirst ==
  ASSUME QueueTypeOK, NEW j \in First, NEW k \in First
  PROVE  j = k /\ j \in Jobs
BY JobAssumption DEF First, QueueTypeOK, Jobs

LEMMA QueueGrows ==
  ASSUME NEW t \in Trees, NEW q \in SUBSET Jobs
  PROVE  LET u == [t EXCEPT !.queue = @ \cup q] IN
         /\ u \in Trees /\ u.result = t.result /\ u.status = t.status
         /\ u.queue = t.queue \cup q
BY DEF Trees

LEMMA StatusSet ==
  ASSUME ws \in Trees, NEW j \in Jobs, NEW s \in States
  PROVE  LET u == WithStatus(j, s) IN
         /\ u \in Trees /\ u.result = ws.result /\ u.queue = ws.queue
         /\ u.status[j] = s
         /\ \A k \in Jobs \ {j} : u.status[k] = ws.status[k]
BY DEF Trees, WithStatus

LEMMA ResultSet ==
  ASSUME ws \in Trees, NEW j \in Jobs, NEW r \in 0..MaxExec
  PROVE  LET u == [ws EXCEPT !.result = [ws.result EXCEPT ![j] = r]] IN
         /\ u \in Trees /\ u.status = ws.status /\ u.queue = ws.queue
         /\ u.result[j] = r
         /\ \A k \in Jobs \ {j} : u.result[k] = ws.result[k]
BY DEF Trees

LEMMA LaidOverIs ==
  ASSUME QueueTypeOK
  PROVE  /\ LaidOver \in Trees
         /\ main.queue \subseteq LaidOver.queue
         /\ \A j \in Jobs :
               /\ LaidOver.result[j] = IF ws.result[j] # base.result[j] THEN ws.result[j] ELSE main.result[j]
               /\ LaidOver.status[j] = IF ws.status[j] # base.status[j] THEN ws.status[j] ELSE main.status[j]
BY DEF QueueTypeOK, LaidOver, Trees

\* The mishaps left do not rise, and stopping a run takes one.
LEMMA Spending ==
  ASSUME QueueTypeOK, LimitInv, NEW m \in QueueMishaps, SpendQueue(m)
  PROVE  /\ queueBudget' \in [QueueMishaps -> Nat] /\ LimitInv' /\ limits' = limits
         /\ NoneKilled' => NoneKilled /\ m # "kill"
         /\ limits["overlap"] = 0 => m # "overlap"
<1>1. /\ queueBudget \in [QueueMishaps -> Nat] /\ limits \in [QueueMishaps -> Nat]
      /\ limits' = limits /\ queueBudget[m] > 0
      /\ queueBudget' = [queueBudget EXCEPT ![m] = queueBudget[m] - 1]
  BY DEF QueueTypeOK, SpendQueue
<1>2. /\ queueBudget'[m] = queueBudget[m] - 1 /\ queueBudget[m] <= limits[m]
      /\ \A n \in QueueMishaps : n # m => queueBudget'[n] = queueBudget[n]
      /\ queueBudget' \in [QueueMishaps -> Nat]
  BY <1>1 DEF LimitInv
<1>3. LimitInv'
  BY <1>1, <1>2 DEF LimitInv
<1>4. "kill" \in QueueMishaps /\ "overlap" \in QueueMishaps
  BY DEF QueueMishaps
<1>5. NoneKilled' => NoneKilled /\ m # "kill"
  BY <1>1, <1>2, <1>4 DEF NoneKilled, LimitInv
<1>6. limits["overlap"] = 0 => m # "overlap"
  BY <1>1, <1>2, <1>4 DEF LimitInv
<1> QED BY <1>1, <1>2, <1>3, <1>5, <1>6

\* A commit is pushed in a lull, or takes one of the mishaps.
LEMMA Pushing ==
  ASSUME QueueTypeOK, LimitInv, MayPush
  PROVE  /\ queueBudget' \in [QueueMishaps -> Nat] /\ LimitInv' /\ limits' = limits
         /\ NoneKilled' => NoneKilled
         /\ limits["overlap"] = 0 => queuePc = "idle" /\ ~pending.waits
<1>1. "overlap" \in QueueMishaps
  BY DEF QueueMishaps
<1>2. CASE queuePc = "idle" /\ ~pending.waits
  BY <1>2 DEF MayPush, left, QueueTypeOK, LimitInv, NoneKilled
<1>3. CASE ~(queuePc = "idle" /\ ~pending.waits)
  BY <1>1, <1>3, Spending DEF MayPush
<1> QED BY <1>2, <1>3

-----------------------------------------------------------------------------
(* Every step keeps the invariant.                                         *)

LEMMA QueueInitInv == QueueInit => QueueIInv
<1> SUFFICES ASSUME QueueInit PROVE QueueIInv
  OBVIOUS
<1>1. queueBudget = limits /\ limits \in [QueueMishaps -> Nat]
  BY QueueAssumption DEF QueueInit
<1>2. /\ main = Empty /\ ws = Empty /\ base = Empty /\ pending.tree = Empty
      /\ pending.request = 0 /\ pending.waits = FALSE /\ queuePc = "idle"
      /\ tip = 0 /\ exec = 0 /\ seen = 0 /\ attempt = 0 /\ todo = {} /\ asked = {}
  BY DEF QueueInit, NoRun
<1>3. QueueTypeOK
  <2>1. Attempts \in Nat
    BY QueueAssumption
  <2>2. attempt \in 0..Attempts /\ {tip, exec, seen} \subseteq Nat
    BY <1>2, <2>1
  <2>3. {main, ws, base, pending.tree} \subseteq Trees
    BY <1>2, EmptyIs
  <2>4. todo \subseteq JsonJobs /\ asked \subseteq Jobs
    BY <1>2
  <2> QED BY <1>1, <1>2, <2>2, <2>3, <2>4 DEF QueueTypeOK
<1>4. LimitInv /\ ExecInv
  BY <1>1, <1>2, QueueAssumption DEF LimitInv, ExecInv
<1>5. AddsInv /\ LatestInv
  BY <1>2 DEF AddsInv, LatestInv
<1>6. TidyInv /\ LeftAloneInv
  BY <1>2, EmptyIs DEF TidyInv, LeftAloneInv, Tidy, Worked, Same, Busy, Complete, Blank
<1> QED BY <1>3, <1>4, <1>5, <1>6 DEF QueueIInv

\* Where the run, its tree and the executions stay, only the trees of main and of
\* the pending run have to be looked at.
LEMMA RunStays ==
  ASSUME QueueIInv, UNCHANGED <<run, exec>>, NoneKilled' => NoneKilled
  PROVE  /\ ExecInv' /\ AddsInv' /\ LeftAloneInv'
         /\ NoneKilled' => Tidy(base)' /\ \A j \in Jobs : Worked(j)'
<1> USE DEF QueueIInv
<1>1. ws' = ws /\ base' = base /\ queuePc' = queuePc /\ todo' = todo /\ exec' = exec
  BY DEF run
<1>2. ExecInv' /\ AddsInv'
  BY <1>1 DEF ExecInv, AddsInv
<1>3. LeftAloneInv'
  BY <1>1 DEF LeftAloneInv, Complete, Same, Busy, First
<1>4. NoneKilled' => Tidy(base)' /\ \A j \in Jobs : Worked(j)'
  BY <1>1 DEF TidyInv, Tidy, Worked, Complete, Same, Busy, First, Blank
<1> QED BY <1>2, <1>3, <1>4

LEMMA SubmitInv ==
  ASSUME QueueIInv, NEW j \in Jobs, Submit(j)
  PROVE  QueueIInv'
<1> USE DEF QueueIInv
<1>1. /\ MayPush /\ UNCHANGED <<run, exec>> /\ main' = [main EXCEPT !.queue = @ \cup {j}]
      /\ pending' = [tree |-> main', request |-> 0, waits |-> TRUE]
      /\ tip' = tip + 1 /\ asked' = asked \cup {j}
  BY DEF Submit
<1>2. /\ main \in Trees /\ main' \in Trees /\ main'.result = main.result /\ main'.status = main.status
  <2>1. {j} \in SUBSET Jobs /\ main \in Trees
    BY DEF QueueTypeOK
  <2> QED BY <1>1, <2>1, QueueGrows
<1>3. /\ queueBudget' \in [QueueMishaps -> Nat] /\ LimitInv' /\ limits' = limits
      /\ NoneKilled' => NoneKilled
      /\ limits["overlap"] = 0 => queuePc = "idle" /\ ~pending.waits
  BY <1>1, Pushing
<1>4. QueueTypeOK'
  BY <1>1, <1>2, <1>3 DEF QueueTypeOK, run
<1>5. /\ ExecInv' /\ AddsInv' /\ LeftAloneInv'
      /\ NoneKilled' => Tidy(base)' /\ \A k \in Jobs : Worked(k)'
  BY <1>1, <1>3, RunStays
<1>6. TidyInv'
  BY <1>1, <1>2, <1>3, <1>5 DEF TidyInv, Tidy, Blank, Complete
<1>7. LatestInv'
  BY <1>1, <1>3 DEF LatestInv, run
<1> QED BY <1>3, <1>4, <1>5, <1>6, <1>7

LEMMA EditRequestInv ==
  ASSUME QueueIInv, NEW j \in Jobs, EditRequest(j)
  PROVE  QueueIInv'
<1> USE DEF QueueIInv
<1>1. /\ MayPush /\ UNCHANGED <<run, exec>> /\ main' = main /\ j \in LegacyJobs
      /\ pending' = [tree |-> main, request |-> j, waits |-> TRUE]
      /\ tip' = tip + 1 /\ asked' = asked \cup {j}
  BY DEF EditRequest
<1>3. /\ queueBudget' \in [QueueMishaps -> Nat] /\ LimitInv' /\ limits' = limits
      /\ NoneKilled' => NoneKilled
      /\ limits["overlap"] = 0 => queuePc = "idle" /\ ~pending.waits
  BY <1>1, Pushing
<1>4. QueueTypeOK'
  BY <1>1, <1>3 DEF QueueTypeOK, run
<1>5. /\ ExecInv' /\ AddsInv' /\ LeftAloneInv'
      /\ NoneKilled' => Tidy(base)' /\ \A k \in Jobs : Worked(k)'
  BY <1>1, <1>3, RunStays
<1>6. TidyInv'
  BY <1>1, <1>3, <1>5 DEF TidyInv, Tidy, Blank, Complete
<1>7. LatestInv'
  BY <1>1, <1>3 DEF LatestInv, run
<1> QED BY <1>3, <1>4, <1>5, <1>6, <1>7

LEMMA ForeignInv ==
  ASSUME QueueIInv, Foreign
  PROVE  QueueIInv'
<1> USE DEF QueueIInv
<1>1. /\ SpendQueue("foreign") /\ UNCHANGED <<main, pending, run, exec, asked>> /\ tip' = tip + 1
  BY DEF Foreign
<1>3. /\ queueBudget' \in [QueueMishaps -> Nat] /\ LimitInv' /\ limits' = limits
      /\ NoneKilled' => NoneKilled
  BY <1>1, Spending DEF QueueMishaps
<1>4. QueueTypeOK'
  BY <1>1, <1>3 DEF QueueTypeOK, run
<1>5. /\ ExecInv' /\ AddsInv' /\ LeftAloneInv'
      /\ NoneKilled' => Tidy(base)' /\ \A k \in Jobs : Worked(k)'
  BY <1>1, <1>3, RunStays
<1>6. TidyInv'
  BY <1>1, <1>3, <1>5 DEF TidyInv, Tidy, Blank, Complete
<1>7. LatestInv'
  BY <1>1, <1>3 DEF LatestInv, run
<1> QED BY <1>3, <1>4, <1>5, <1>6, <1>7

LEMMA CheckoutInv ==
  ASSUME QueueIInv, Checkout
  PROVE  QueueIInv'
<1> USE DEF QueueIInv
<1>1. /\ queuePc = "idle" /\ pending.waits /\ base' = pending.tree /\ queuePc' = "dispatch"
      /\ pending' = NoRun /\ UNCHANGED <<repo, todo, seen, attempt, exec, asked, left>>
      /\ ws' = IF pending.request = 0 THEN pending.tree
               ELSE [pending.tree EXCEPT !.queue = @ \cup {pending.request}]
  BY DEF Checkout
<1>2. ws' \in Trees /\ ws'.result = base'.result /\ ws'.status = base'.status
  <2>1. pending.tree \in Trees /\ pending.request \in LegacyJobs \cup {0}
    BY DEF QueueTypeOK
  <2>2. CASE pending.request = 0
    BY <1>1, <2>1, <2>2
  <2>3. CASE pending.request # 0
    <3>1. {pending.request} \in SUBSET Jobs
      BY <2>1, <2>3 DEF Jobs
    <3> QED BY <1>1, <2>1, <2>3, <3>1, QueueGrows
  <2> QED BY <2>2, <2>3
<1>3. /\ pending'.tree = Empty /\ pending'.request = 0 /\ pending'.waits = FALSE
  BY <1>1 DEF NoRun
<1>4. QueueTypeOK'
  BY <1>1, <1>2, <1>3, EmptyIs DEF QueueTypeOK, repo, left
<1>5. LimitInv' /\ ExecInv' /\ (NoneKilled' => NoneKilled)
  BY <1>1 DEF LimitInv, ExecInv, NoneKilled, left
<1>6. AddsInv'
  BY <1>2 DEF AddsInv
<1>7. TidyInv'
  <2> SUFFICES ASSUME NoneKilled' PROVE Tidy(main)' /\ Tidy(pending.tree)' /\ Tidy(base)' /\ \A j \in Jobs : Worked(j)'
    BY DEF TidyInv
  <2>1. Tidy(main) /\ Tidy(pending.tree)
    BY <1>5 DEF TidyInv
  <2>2. Tidy(main)' /\ Tidy(base)' /\ Tidy(pending.tree)'
    BY <1>1, <1>3, <2>1, EmptyIs DEF Tidy, Blank, Complete, repo
  <2>3. \A j \in Jobs : Worked(j)'
    BY <1>1, <1>2 DEF Worked, Same, Busy
  <2> QED BY <2>2, <2>3
<1>8. LatestInv'
  BY <1>1, <1>3 DEF LatestInv, repo, left
<1>9. LeftAloneInv'
  BY <1>1, <1>2 DEF LeftAloneInv, Same, Busy
<1> QED BY <1>4, <1>5, <1>6, <1>7, <1>8, <1>9

\* A step of the dispatcher that starts from, and leads to, no job under way.
LEMMA NoJobInv ==
  ASSUME QueueIInv, UNCHANGED <<repo, pending, ws, base, seen, attempt, exec, asked, limits>>,
         queueBudget' \in [QueueMishaps -> Nat], LimitInv', NoneKilled' => NoneKilled,
         todo' \subseteq JsonJobs, queuePc # "idle", queuePc' \in {"next", "publish"},
         NoneKilled' => queuePc \in {"dispatch", "next"}
  PROVE  QueueIInv'
<1> USE DEF QueueIInv
<1>1. QueueTypeOK'
  BY DEF QueueTypeOK, repo
<1>2. ExecInv' /\ AddsInv'
  BY DEF ExecInv, AddsInv
<1>3. TidyInv'
  <2> SUFFICES ASSUME NoneKilled' PROVE Tidy(main)' /\ Tidy(pending.tree)' /\ Tidy(base)' /\ \A j \in Jobs : Worked(j)'
    BY DEF TidyInv
  <2>1. Tidy(main)' /\ Tidy(base)' /\ Tidy(pending.tree)'
    BY DEF TidyInv, Tidy, Blank, Complete, repo
  <2>2. \A j \in Jobs : Worked(j)'
    BY DEF TidyInv, Worked, Same, Busy, Blank, Complete
  <2> QED BY <2>1, <2>2
<1>4. LatestInv'
  BY DEF LatestInv, repo
<1>5. LeftAloneInv'
  BY DEF LeftAloneInv, Same, Busy, Complete
<1> QED BY <1>1, <1>2, <1>3, <1>4, <1>5

LEMMA ScanInv ==
  ASSUME QueueIInv, Scan
  PROVE  QueueIInv'
<1>1. ws.queue \cap JsonJobs \subseteq JsonJobs
  OBVIOUS
<1> QED BY <1>1, NoJobInv DEF Scan, left, QueueIInv, QueueTypeOK, LimitInv, NoneKilled

LEMMA KillInv ==
  ASSUME QueueIInv, Kill
  PROVE  QueueIInv'
<1>1. "kill" \in QueueMishaps /\ SpendQueue("kill")
  BY DEF QueueMishaps, Kill
<1>2. /\ queueBudget' \in [QueueMishaps -> Nat] /\ LimitInv' /\ limits' = limits
      /\ ~NoneKilled'
  BY <1>1, Spending DEF QueueIInv
<1> QED BY <1>2, NoJobInv DEF Kill

\* Whether the run ends or dies, nothing of it is left.
LEMMA NoRunInv ==
  ASSUME QueueIInv, queuePc' = "idle", ws' = Empty, base' = Empty, seen' = 0, attempt' = 0,
         todo' \subseteq JsonJobs, UNCHANGED <<pending, exec, asked>>,
         main' \in Trees, tip' \in Nat, LimitInv', limits' = limits,
         queueBudget' \in [QueueMishaps -> Nat],
         NoneKilled' => NoneKilled /\ Tidy(main)',
         (limits["overlap"] = 0 /\ pending.waits) => main' = main
  PROVE  QueueIInv'
<1> USE DEF QueueIInv
<1>1. QueueTypeOK'
  BY EmptyIs, QueueAssumption DEF QueueTypeOK
<1>2. ExecInv' /\ AddsInv'
  BY DEF ExecInv, AddsInv
<1>3. TidyInv'
  BY EmptyIs DEF TidyInv, Tidy, Blank, Complete, Worked, Same, Busy
<1>4. LatestInv'
  BY DEF LatestInv
<1>5. LeftAloneInv'
  BY DEF LeftAloneInv, Same, Busy
<1> QED BY <1>1, <1>2, <1>3, <1>4, <1>5

LEMMA DieInv ==
  ASSUME QueueIInv, Die
  PROVE  QueueIInv'
<1>1. /\ queueBudget' \in [QueueMishaps -> Nat] /\ LimitInv' /\ limits' = limits
      /\ NoneKilled' => NoneKilled
  BY Spending DEF QueueIInv, Die, QueueMishaps
<1>2. NoneKilled' => Tidy(main)'
  BY <1>1 DEF QueueIInv, TidyInv, Die, repo, Tidy, Blank, Complete
<1>3. /\ queuePc' = "idle" /\ ws' = Empty /\ base' = Empty /\ seen' = 0 /\ attempt' = 0 /\ todo' = {}
      /\ UNCHANGED <<pending, exec, asked>> /\ main' = main /\ tip' = tip
  BY DEF Die, repo
<1>4. main \in Trees /\ tip \in Nat
  BY DEF QueueIInv, QueueTypeOK
<1> QED BY <1>1, <1>2, <1>3, <1>4, NoRunInv

LEMMA SkipJobInv ==
  ASSUME QueueIInv, NEW j \in First, queuePc = "next", SkipJob(j),
         UNCHANGED <<repo, pending, base, seen, attempt, exec, asked, left>>
  PROVE  QueueIInv'
<1>1. todo' \subseteq JsonJobs /\ queuePc' = "next" /\ ws' = ws
  BY DEF SkipJob, QueueIInv, QueueTypeOK
<1> QED BY <1>1, NoJobInv DEF left, QueueIInv, QueueTypeOK, LimitInv, NoneKilled

LEMMA ExhaustedInv ==
  ASSUME QueueIInv, queuePc = "next", Exhausted,
         UNCHANGED <<repo, pending, base, seen, attempt, exec, asked, left>>
  PROVE  QueueIInv'
<1>1. todo' \subseteq JsonJobs /\ queuePc' = "publish" /\ ws' = ws
  BY DEF Exhausted, QueueIInv, QueueTypeOK
<1> QED BY <1>1, NoJobInv DEF left, QueueIInv, QueueTypeOK, LimitInv, NoneKilled

\* A step about the job under way, of which j is the one: the rest stays, and what
\* becomes of j is for the step to say.
LEMMA JobStepInv ==
  ASSUME QueueIInv, NEW j \in Jobs, queuePc # "idle", queuePc' \in {"execute", "result", "settle", "next"},
         UNCHANGED <<repo, pending, base, seen, attempt, asked, left>>,
         exec' \in Nat, ExecInv', todo' \subseteq JsonJobs, ws' \in Trees,
         \A k \in Jobs \ {j} : ws'.result[k] = ws.result[k] /\ ws'.status[k] = ws.status[k],
         \A k \in Jobs \ {j} : ~Busy(k) /\ ~Busy(k)',
         ws'.result[j] # base.result[j] => ws'.result[j] # 0,
         ws'.status[j] # base.status[j] => ws'.status[j] # "none",
         ~Complete(base, j),
         NoneKilled => Worked(j)'
  PROVE  QueueIInv'
<1> USE DEF QueueIInv
<1>1. QueueTypeOK'
  BY DEF QueueTypeOK, repo, left
<1>2. LimitInv' /\ (NoneKilled' <=> NoneKilled)
  BY DEF LimitInv, NoneKilled, left
<1>3. AddsInv'
  BY DEF AddsInv
<1>4. TidyInv'
  <2> SUFFICES ASSUME NoneKilled' PROVE Tidy(main)' /\ Tidy(pending.tree)' /\ Tidy(base)' /\ \A k \in Jobs : Worked(k)'
    BY DEF TidyInv
  <2>1. Tidy(main)' /\ Tidy(base)' /\ Tidy(pending.tree)'
    BY <1>2 DEF TidyInv, Tidy, Blank, Complete, repo
  <2>2. \A k \in Jobs \ {j} : Worked(k)'
    BY <1>2 DEF TidyInv, Worked, Same, Blank, Complete
  <2> QED BY <1>2, <2>1, <2>2
<1>5. LatestInv'
  BY DEF LatestInv, repo, left
<1>6. LeftAloneInv'
  BY DEF LeftAloneInv, Same, Complete
<1> QED BY <1>1, <1>2, <1>3, <1>4, <1>5, <1>6

LEMMA StartJobInv ==
  ASSUME QueueIInv, NEW j \in First, queuePc = "next", StartJob(j),
         UNCHANGED <<repo, pending, base, seen, attempt, exec, asked, left>>
  PROVE  QueueIInv'
<1>1. j \in Jobs /\ ~Skips(j) /\ todo' = todo /\ queuePc' = "execute" /\ ws' = WithStatus(j, "running")
  BY OneIsFirst DEF QueueIInv, StartJob
<1>2. "running" \in States /\ ws \in Trees /\ todo \subseteq JsonJobs
  BY DEF States, QueueIInv, QueueTypeOK
<1>3. /\ ws' \in Trees /\ ws'.result = ws.result /\ ws'.status[j] = "running"
      /\ \A k \in Jobs \ {j} : ws'.status[k] = ws.status[k]
  BY <1>1, <1>2, StatusSet
<1>4. \A k \in Jobs \ {j} : ~Busy(k) /\ ~Busy(k)'
  BY <1>1, OneIsFirst DEF Busy, First, QueueIInv
<1>5. ~Complete(base, j)
  BY <1>1 DEF QueueIInv, LeftAloneInv, Complete, Same, Skips, Final
<1>6. ExecInv' /\ exec' \in Nat
  BY <1>1 DEF QueueIInv, ExecInv, QueueTypeOK
<1>7. NoneKilled => Worked(j)'
  <2> SUFFICES ASSUME NoneKilled PROVE Worked(j)'
    OBVIOUS
  <2>1. Worked(j) /\ ~Busy(j) /\ Tidy(base)
    BY <1>1 DEF QueueIInv, TidyInv, Busy
  <2>2. Blank(base, j) /\ ws.result[j] = 0
    BY <1>1, <1>5, <2>1 DEF Worked, Skips, Tidy, Same, Blank, Complete, Final
  <2>3. Busy(j)'
    BY <1>1 DEF Busy, First
  <2> QED BY <1>1, <1>3, <2>2, <2>3 DEF Worked, Blank
<1>8. ws'.result[j] # base.result[j] => ws'.result[j] # 0
  BY <1>1, <1>3 DEF QueueIInv, AddsInv
<1> QED BY <1>1, <1>2, <1>3, <1>4, <1>5, <1>6, <1>7, <1>8, JobStepInv

LEMMA ExecuteInv ==
  ASSUME QueueIInv, Execute
  PROVE  QueueIInv'
<1> USE DEF QueueIInv
<1>1. /\ queuePc = "execute" /\ exec < MaxExec /\ exec' = exec + 1 /\ queuePc' = "result"
      /\ UNCHANGED <<repo, pending, ws, base, todo, seen, attempt, asked, left>>
  BY DEF Execute
<1>2. exec' \in Nat /\ ExecInv'
  BY <1>1, QueueAssumption DEF ExecInv, QueueTypeOK
<1>3. \A k \in Jobs : Busy(k)' <=> Busy(k)
  BY <1>1 DEF Busy, First
<1>4. QueueTypeOK' /\ LimitInv' /\ AddsInv'
  BY <1>1, <1>2 DEF QueueTypeOK, LimitInv, AddsInv, repo, left
<1>5. TidyInv'
  <2> SUFFICES ASSUME NoneKilled' PROVE Tidy(main)' /\ Tidy(pending.tree)' /\ Tidy(base)' /\ \A k \in Jobs : Worked(k)'
    BY DEF TidyInv
  <2>0. NoneKilled
    BY <1>1 DEF NoneKilled, left
  <2>1. Tidy(main)' /\ Tidy(base)' /\ Tidy(pending.tree)'
    BY <1>1, <2>0 DEF TidyInv, Tidy, Blank, Complete, repo
  <2>2. \A k \in Jobs : Worked(k)'
    BY <1>1, <1>3, <2>0 DEF TidyInv, Worked, Same, Blank, Complete
  <2> QED BY <2>1, <2>2
<1>6. LatestInv'
  BY <1>1 DEF LatestInv, repo, left
<1>7. LeftAloneInv'
  BY <1>1, <1>3 DEF LeftAloneInv, Same, Complete
<1> QED BY <1>2, <1>4, <1>5, <1>6, <1>7

LEMMA MoveResultInv ==
  ASSUME QueueIInv, MoveResult
  PROVE  QueueIInv'
<1>1. PICK j \in First : ws' = [ws EXCEPT !.result = [ws.result EXCEPT ![j] = exec]]
  BY DEF MoveResult
<1>2. /\ j \in Jobs /\ queuePc = "result" /\ queuePc' = "settle" /\ todo' = todo /\ exec' = exec
      /\ UNCHANGED <<repo, pending, base, seen, attempt, asked, left>>
  BY OneIsFirst DEF QueueIInv, MoveResult
<1>3. exec \in 0..MaxExec /\ exec # 0 /\ ws \in Trees /\ todo \subseteq JsonJobs
  BY <1>2, QueueAssumption DEF QueueIInv, QueueTypeOK, ExecInv
<1>4. /\ ws' \in Trees /\ ws'.status = ws.status /\ ws'.result[j] = exec
      /\ \A k \in Jobs \ {j} : ws'.result[k] = ws.result[k]
  BY <1>1, <1>2, <1>3, ResultSet
<1>5. Busy(j) /\ Busy(j)'
  BY <1>2 DEF Busy, First
<1>6. \A k \in Jobs \ {j} : ~Busy(k) /\ ~Busy(k)'
  BY <1>2, OneIsFirst DEF Busy, First, QueueIInv
<1>7. ~Complete(base, j)
  BY <1>2, <1>5 DEF QueueIInv, LeftAloneInv
<1>8. ExecInv' /\ exec' \in Nat
  BY <1>2 DEF QueueIInv, ExecInv, QueueTypeOK
<1>9. NoneKilled => Worked(j)'
  BY <1>2, <1>3, <1>4, <1>5 DEF QueueIInv, TidyInv, Worked, Blank
<1>10. ws'.status[j] # base.status[j] => ws'.status[j] # "none"
  BY <1>2, <1>4 DEF QueueIInv, AddsInv
<1> QED BY <1>2, <1>3, <1>4, <1>6, <1>7, <1>8, <1>9, <1>10, JobStepInv

LEMMA SettleInv ==
  ASSUME QueueIInv, Settle
  PROVE  QueueIInv'
<1>1. PICK j \in First, s \in Final : ws' = WithStatus(j, s) /\ todo' = todo \ {j}
  BY DEF Settle
<1>2. /\ j \in Jobs /\ queuePc = "settle" /\ queuePc' = "next" /\ exec' = exec
      /\ UNCHANGED <<repo, pending, base, seen, attempt, asked, left>>
  BY OneIsFirst DEF QueueIInv, Settle
<1>3. ws \in Trees /\ todo' \subseteq JsonJobs /\ s \in States /\ s # "none"
  BY <1>1 DEF QueueIInv, QueueTypeOK, States, Final
<1>4. /\ ws' \in Trees /\ ws'.result = ws.result /\ ws'.status[j] = s
      /\ \A k \in Jobs \ {j} : ws'.status[k] = ws.status[k]
  BY <1>1, <1>2, <1>3, StatusSet
<1>5. Busy(j)
  BY <1>2 DEF Busy
<1>6. \A k \in Jobs \ {j} : ~Busy(k) /\ ~Busy(k)'
  BY <1>2, OneIsFirst DEF Busy, QueueIInv
<1>7. ~Complete(base, j)
  BY <1>2, <1>5 DEF QueueIInv, LeftAloneInv
<1>8. ExecInv' /\ exec' \in Nat
  BY <1>2 DEF QueueIInv, ExecInv, QueueTypeOK
<1>9. NoneKilled => Worked(j)'
  <2> SUFFICES ASSUME NoneKilled PROVE Worked(j)'
    OBVIOUS
  <2>1. Blank(base, j) /\ ws.result[j] # 0
    BY <1>2, <1>5 DEF QueueIInv, TidyInv, Worked
  <2>2. Blank(base, j)' /\ Complete(ws, j)' /\ ~Busy(j)'
    BY <1>2, <1>4, <2>1 DEF Blank, Complete, Busy
  <2> QED BY <2>2 DEF Worked
<1>10. ws'.result[j] # base.result[j] => ws'.result[j] # 0
  BY <1>2, <1>4 DEF QueueIInv, AddsInv
<1> QED BY <1>2, <1>3, <1>4, <1>6, <1>7, <1>8, <1>9, <1>10, JobStepInv

LEMMA FetchInv ==
  ASSUME QueueIInv, Fetch
  PROVE  QueueIInv'
<1>1. /\ queuePc = "publish" /\ UNCHANGED <<repo, pending, todo, exec, asked, left>>
  BY DEF Fetch
<1>2. /\ LimitInv' /\ limits' = limits /\ queueBudget' \in [QueueMishaps -> Nat]
      /\ (NoneKilled' <=> NoneKilled) /\ main' = main /\ tip' = tip
      /\ main \in Trees /\ tip \in Nat /\ todo' \subseteq JsonJobs
  BY <1>1 DEF QueueIInv, QueueTypeOK, LimitInv, NoneKilled, left, repo
<1>3. NoneKilled' => Tidy(main)'
  BY <1>2 DEF QueueIInv, TidyInv, Tidy, Blank, Complete
<1>4. CASE EndRun
  BY <1>1, <1>2, <1>3, <1>4, NoRunInv DEF EndRun
<1>5. CASE /\ attempt # Attempts /\ queuePc' = "push" /\ seen' = tip
           /\ attempt' = attempt + 1 /\ UNCHANGED <<ws, base>>
  <2> USE DEF QueueIInv
  <2>1. QueueTypeOK'
    BY <1>1, <1>2, <1>5, QueueAssumption DEF QueueTypeOK
  <2>2. ExecInv' /\ AddsInv'
    BY <1>1, <1>5 DEF ExecInv, AddsInv
  <2>3. TidyInv'
    BY <1>1, <1>2, <1>5 DEF TidyInv, Tidy, Blank, Complete, Worked, Same, Busy
  <2>4. LatestInv' /\ LeftAloneInv'
    BY <1>1, <1>2, <1>5 DEF LatestInv, LeftAloneInv, Same, Busy, Complete
  <2> QED BY <1>2, <2>1, <2>2, <2>3, <2>4
<1> QED BY <1>4, <1>5 DEF Fetch

\* Laid over a tidy tree, a run that was not stopped leaves it tidy.
LEMMA LaidOverTidy ==
  ASSUME QueueIInv, NoneKilled, queuePc \in {"publish", "push"}
  PROVE  Tidy(LaidOver)
<1>1. /\ Tidy(main) /\ \A j \in Jobs : Worked(j) /\ ~Busy(j)
  BY DEF QueueIInv, TidyInv, Busy
<1>2. SUFFICES ASSUME NEW j \in Jobs PROVE Blank(LaidOver, j) \/ Complete(LaidOver, j)
  BY DEF Tidy
<1>3. /\ LaidOver.result[j] = IF ws.result[j] # base.result[j] THEN ws.result[j] ELSE main.result[j]
      /\ LaidOver.status[j] = IF ws.status[j] # base.status[j] THEN ws.status[j] ELSE main.status[j]
  BY LaidOverIs DEF QueueIInv
<1>4. CASE Same(j)
  BY <1>1, <1>3, <1>4 DEF Same, Tidy, Blank, Complete
<1>5. CASE Blank(base, j) /\ Complete(ws, j)
  <2>1. ws.result[j] # base.result[j] /\ ws.status[j] # base.status[j]
    BY <1>5 DEF Blank, Complete, Final
  <2> QED BY <1>3, <1>5, <2>1 DEF Complete
<1> QED BY <1>1, <1>4, <1>5 DEF Worked

LEMMA PushInv ==
  ASSUME QueueIInv, Push
  PROVE  QueueIInv'
<1>1. /\ queuePc = "push" /\ UNCHANGED <<pending, todo, exec, asked, left>>
  BY DEF Push
<1>2. /\ LimitInv' /\ limits' = limits /\ queueBudget' \in [QueueMishaps -> Nat]
      /\ (NoneKilled' <=> NoneKilled) /\ main \in Trees /\ tip \in Nat /\ todo' \subseteq JsonJobs
  BY <1>1 DEF QueueIInv, QueueTypeOK, LimitInv, NoneKilled, left
<1>4. CASE main' = LaidOver /\ tip' = tip + 1 /\ EndRun
  <2>1. main' \in Trees /\ tip' \in Nat
    BY <1>2, <1>4, LaidOverIs DEF QueueIInv
  <2>2. NoneKilled' => Tidy(main)'
    <3>1. NoneKilled' => Tidy(LaidOver)
      BY <1>1, <1>2, LaidOverTidy
    <3> QED BY <1>4, <3>1 DEF Tidy, Blank, Complete
  <2>3. ~(limits["overlap"] = 0 /\ pending.waits)
    BY <1>1 DEF QueueIInv, LatestInv
  <2> QED BY <1>1, <1>2, <1>4, <2>1, <2>2, <2>3, NoRunInv DEF EndRun
<1>5. CASE queuePc' = "publish" /\ UNCHANGED <<repo, ws, base, seen, attempt>>
  <2> USE DEF QueueIInv
  <2>1. QueueTypeOK'
    BY <1>1, <1>2, <1>5 DEF QueueTypeOK, repo
  <2>2. ExecInv' /\ AddsInv'
    BY <1>1, <1>5 DEF ExecInv, AddsInv
  <2>3. TidyInv'
    BY <1>1, <1>2, <1>5 DEF TidyInv, Tidy, Blank, Complete, Worked, Same, Busy, repo
  <2>4. LatestInv' /\ LeftAloneInv'
    BY <1>1, <1>2, <1>5 DEF LatestInv, LeftAloneInv, Same, Busy, Complete, repo
  <2> QED BY <1>2, <2>1, <2>2, <2>3, <2>4
<1> QED BY <1>4, <1>5 DEF Push

LEMMA QueueQuietInv ==
  ASSUME QueueIInv, UNCHANGED queueVars
  PROVE  QueueIInv'
<1>1. UNCHANGED <<repo, pending, run, exec, asked, left>>
  BY DEF queueVars
<1>2. main' = main /\ tip' = tip /\ queueBudget' = queueBudget /\ limits' = limits
  BY <1>1 DEF repo, left
<1>3. /\ ExecInv' /\ AddsInv' /\ LeftAloneInv' /\ (NoneKilled' <=> NoneKilled)
      /\ NoneKilled' => Tidy(base)' /\ \A j \in Jobs : Worked(j)'
  BY <1>1, <1>2, RunStays DEF NoneKilled
<1>4. QueueTypeOK' /\ LimitInv'
  BY <1>1, <1>2 DEF QueueIInv, QueueTypeOK, LimitInv, run
<1>5. TidyInv'
  BY <1>1, <1>2, <1>3 DEF QueueIInv, TidyInv, Tidy, Blank, Complete
<1>6. LatestInv'
  BY <1>1, <1>2 DEF QueueIInv, LatestInv, run
<1> QED BY <1>3, <1>4, <1>5, <1>6 DEF QueueIInv

LEMMA QueueStepInv == QueueIInv /\ [QueueNext]_queueVars => QueueIInv'
<1> SUFFICES ASSUME QueueIInv, [QueueNext]_queueVars PROVE QueueIInv'
  OBVIOUS
<1>1. CASE \E j \in Jobs : Submit(j) \/ EditRequest(j)
  BY <1>1, SubmitInv, EditRequestInv
<1>2. CASE Checkout
  BY <1>2, CheckoutInv
<1>3. CASE Scan
  BY <1>3, ScanInv
<1>4. CASE TakeJob
  BY <1>4, ExhaustedInv, SkipJobInv, StartJobInv DEF TakeJob
<1>5. CASE Execute
  BY <1>5, ExecuteInv
<1>6. CASE MoveResult
  BY <1>6, MoveResultInv
<1>7. CASE Settle
  BY <1>7, SettleInv
<1>8. CASE Fetch
  BY <1>8, FetchInv
<1>9. CASE Push
  BY <1>9, PushInv
<1>10. CASE Foreign \/ Kill \/ Die
  BY <1>10, ForeignInv, KillInv, DieInv
<1>11. CASE UNCHANGED queueVars
  BY <1>11, QueueQuietInv
<1> QED BY <1>1, <1>2, <1>3, <1>4, <1>5, <1>6, <1>7, <1>8, <1>9, <1>10, <1>11 DEF QueueNext, Runner

\* The invariant of the queue: one job at a time is under way, and the rest of the
\* workspace is as it was checked out or complete.
THEOREM QueueInvariance == QueueSpec => []QueueIInv
<1>1. QueueIInv /\ [QueueNext]_queueVars => QueueIInv'
  BY QueueStepInv
<1> QED BY <1>1, QueueInitInv, PTL DEF QueueSpec

-----------------------------------------------------------------------------
(* The queue: what it promises.                                            *)

\* Main changes with a commit and when a run is published, and loses nothing.
LEMMA StepErasesNothing ==
  ASSUME QueueIInv, [QueueNext]_queueVars
  PROVE  NothingIsErased
<1>1. main \in Trees
  BY DEF QueueIInv, QueueTypeOK
<1>2. CASE main' = main
  BY <1>2 DEF NothingIsErased
<1>3. CASE \E j \in Jobs : Submit(j)
  BY <1>1, <1>3, QueueGrows DEF Submit, NothingIsErased
<1>4. CASE Push /\ main' = LaidOver
  BY <1>4, LaidOverIs DEF NothingIsErased, QueueIInv, AddsInv
<1> QED BY <1>2, <1>3, <1>4 DEF QueueNext, Runner, EditRequest, Foreign, Checkout, Scan, TakeJob,
             Execute, MoveResult, Settle, Fetch, Push, Kill, Die, queueVars, repo

\* Only Execute counts, and the job under way is complete neither where the run was
\* checked out nor, if nobody submitted meanwhile, on main.
LEMMA StepRerunsNothing ==
  ASSUME QueueIInv, [QueueNext]_queueVars
  PROVE  CompletedNotRerun
<1>1. CASE Execute
  <2>1. \A j \in First : Busy(j) /\ j \in Jobs
    BY <1>1, OneIsFirst DEF Execute, Busy, QueueIInv
  <2>2. \A j \in First : ~Complete(base, j)
    BY <2>1 DEF QueueIInv, LeftAloneInv
  <2>3. limits["overlap"] = 0 => base = main
    BY <1>1 DEF Execute, QueueIInv, LatestInv
  <2> QED BY <2>2, <2>3 DEF CompletedNotRerun
<1>2. CASE exec' = exec
  BY <1>2 DEF CompletedNotRerun
<1> QED BY <1>1, <1>2 DEF QueueNext, Runner, Submit, EditRequest, Foreign, Checkout, Scan, TakeJob,
             MoveResult, Settle, Fetch, Push, Kill, Die, queueVars

LEMMA TidyIsSettled ==
  ASSUME QueueIInv
  PROVE  ResultIsSettled
BY DEF QueueIInv, TidyInv, Tidy, Blank, Complete, ResultIsSettled

\* JobsAreKept: publishing takes no job, result or status from main; a result there
\* has a final status unless a run was stopped; and no job that main shows as
\* completed is executed again when nothing is submitted during a run.
THEOREM JobsKept == QueueSpec => JobsAreKept
<1>1. QueueIInv /\ QueueIInv' /\ [QueueNext]_queueVars
        => [QueueTypeOK' /\ ResultIsSettled' /\ NothingIsErased /\ CompletedNotRerun]_queueVars
  <2> SUFFICES ASSUME QueueIInv, QueueIInv', [QueueNext]_queueVars
               PROVE  QueueTypeOK' /\ ResultIsSettled' /\ NothingIsErased /\ CompletedNotRerun
    OBVIOUS
  <2>2. ResultIsSettled'
    BY TidyIsSettled, PTL
  <2>1. QueueTypeOK'
    BY DEF QueueIInv
  <2> QED BY <2>1, <2>2, StepErasesNothing, StepRerunsNothing
<1> QED BY <1>1, QueueInvariance, PTL DEF QueueSpec, JobsAreKept

-----------------------------------------------------------------------------
(* The administrator's lists: their invariant.  One request at a time has a *)
(* copy of what it changes, and the copy is what the file will be; what an  *)
(* operation has found stays so until it saves.                             *)

Places == {"idle", "save scan", "save item", "find", "load", "save proposal", "save verdict"}

\* A thread on its own: what it does next fits what it holds.
ThreadInv(t) ==
    /\ reviewPc[t] = "idle" => choice[t] = "keep"
    /\ reviewPc[t] \in {"load", "save proposal"} => id[t] \in 1..taken
    /\ reviewPc[t] = "save verdict" => id[t] \in Ids /\ list[t][id[t]].status \in {"approved", "rejected"}

AllowedInv == \A m \in ReviewMishaps : reviewBudget[m] <= allowed[m]

AloneInv == \A t, u \in Threads : reviewPc[t] # "idle" /\ reviewPc[u] # "idle" => t = u

\* The proposal an item names, if it is of that controller and in the list.
Listed(item, c) ==
    /\ item.proposal # 0 /\ removals[item.proposal].status # "none"
    /\ removals[item.proposal].of = c

Scanned(t) ==
    /\ \A c \in Controllers : items[t][c].status = "removal_proposed" => items[t][c] = house[c]
    /\ allowed["blind"] = 0 =>
          \A c \in noted : decided[c] # "absent" => items[t][c].status = decided[c]

Reviewed(t) == \A c \in Controllers \ {about[t]} : items[t][c] = house[c]

Proposing(t) ==
    /\ removals[id[t]].status = "none"
    /\ \A i \in Ids : ~Open(removals[i], about[t])

Judged(t) ==
    /\ removals[id[t]].status = "pending" /\ list[t][id[t]].of = removals[id[t]].of
    /\ \A i \in Ids \ {id[t]} : list[t][i] = removals[i]

\* What the copies of the thread that runs are about to write.
CopyInv(t) ==
    /\ reviewPc[t] = "save scan" => Scanned(t)
    /\ reviewPc[t] \in {"find", "load", "save proposal"} /\ choice[t] = "propose_removal" => Reviewed(t)
    /\ reviewPc[t] = "save item" =>
          /\ Reviewed(t)
          /\ items[t][about[t]].status = "removal_proposed" => Listed(items[t][about[t]], about[t])
    /\ reviewPc[t] \in {"load", "save proposal"} => Proposing(t)
    /\ reviewPc[t] = "save proposal" =>
          /\ list[t][id[t]] = [status |-> "pending", of |-> about[t]]
          /\ \A i \in Ids \ {id[t]} : list[t][i] = removals[i]
    /\ reviewPc[t] = "save verdict" => Judged(t)

UnusedInv == \A i \in Ids : i > taken => removals[i].status = "none"

ListsInv == UnusedInv /\ VerdictIsKept /\ DecisionIsKept /\ OneOpenProposal /\ ProposalIsListed

ReviewIInv ==
    /\ ReviewTypeOK /\ AllowedInv /\ \A t \in Threads : ThreadInv(t)
    /\ allowed["overlap"] = 0 => AloneInv /\ ListsInv /\ \A t \in Threads : CopyInv(t)

-----------------------------------------------------------------------------
(* Constants, mishaps and the thread that runs.                             *)

LEMMA NobodyIs == Nobody \in Controllers
BY ReviewAssumption DEF Nobody

LEMMA IdsAre ==
  /\ MaxIds \in Nat /\ 0 \notin Ids /\ Ids \subseteq 0..MaxIds /\ 0 \in 0..MaxIds
  /\ \A n \in 0..MaxIds : n \in Nat /\ n <= n /\ 1..n \subseteq Ids /\ (n # MaxIds => n + 1 \in Ids /\ n + 1 \in 1..(n + 1))
<1>1. MaxIds \in Nat
  BY ReviewAssumption
<1> QED BY <1>1 DEF Ids

LEMMA TakenIs ==
  ASSUME ReviewTypeOK
  PROVE  taken \in 0..MaxIds /\ taken \in Nat /\ (taken' = taken => taken <= taken')
<1>1. taken \in 0..MaxIds
  BY DEF ReviewTypeOK
<1> QED BY <1>1, IdsAre

LEMMA NoneAre ==
  /\ NoItems \in [Controllers -> Items] /\ NoRemovals \in [Ids -> Removals]
  /\ \A c \in Controllers : NoItems[c].status = "absent"
  /\ \A i \in Ids : NoRemovals[i].status = "none"
BY NobodyIs DEF NoItems, NoItem, Items, NoRemovals, Unused, Removals

LEMMA SpendingReview ==
  ASSUME ReviewTypeOK, AllowedInv, NEW ms \in SUBSET ReviewMishaps, SpendReview(ms)
  PROVE  /\ reviewBudget' \in [ReviewMishaps -> Nat] /\ AllowedInv' /\ allowed' = allowed
         /\ \A m \in ms : allowed[m] # 0
<1>1. /\ reviewBudget \in [ReviewMishaps -> Nat] /\ allowed \in [ReviewMishaps -> Nat] /\ allowed' = allowed
      /\ \A m \in ms : reviewBudget[m] > 0
      /\ reviewBudget' = [m \in ReviewMishaps |-> IF m \in ms THEN reviewBudget[m] - 1 ELSE reviewBudget[m]]
  BY DEF ReviewTypeOK, SpendReview
<1>2. \A m \in ReviewMishaps : /\ reviewBudget'[m] \in Nat /\ reviewBudget'[m] <= reviewBudget[m]
                                /\ reviewBudget[m] \in Nat /\ allowed[m] \in Nat
  BY <1>1
<1>3. reviewBudget' \in [ReviewMishaps -> Nat]
  BY <1>1, <1>2
<1>4. AllowedInv'
  BY <1>1, <1>2 DEF AllowedInv
<1>5. \A m \in ms : allowed[m] # 0
  BY <1>1, <1>2 DEF AllowedInv
<1> QED BY <1>1, <1>3, <1>4, <1>5

\* An operation begins in a thread that is idle, and all are if none may overlap.
LEMMA Beginning ==
  ASSUME ReviewTypeOK, AllowedInv, NEW t \in Threads, NEW to \in Places,
         NEW ms \in SUBSET ReviewMishaps, Begin(t, to, ms)
  PROVE  /\ reviewPc[t] = "idle" /\ reviewPc' = [reviewPc EXCEPT ![t] = to]
         /\ reviewBudget' \in [ReviewMishaps -> Nat] /\ AllowedInv' /\ allowed' = allowed
         /\ \A m \in ms : allowed[m] # 0
         /\ allowed["overlap"] = 0 => \A u \in Threads : reviewPc[u] = "idle"
<1> DEFINE all == {"begin"} \cup ms \cup Overlapping
<1>1. all \in SUBSET ReviewMishaps
  BY DEF Overlapping, ReviewMishaps
<1>2. SpendReview(all)
  BY DEF Begin
<1> HIDE DEF all
<1>3. /\ reviewBudget' \in [ReviewMishaps -> Nat] /\ AllowedInv' /\ allowed' = allowed
      /\ \A m \in all : allowed[m] # 0
  BY <1>1, <1>2, SpendingReview
<1>4. "overlap" \notin Overlapping => \A u \in Threads : reviewPc[u] = "idle"
  BY DEF Overlapping
<1>5. ms \subseteq all /\ Overlapping \subseteq all
  BY DEF all
<1> QED BY <1>3, <1>4, <1>5 DEF Begin, Go

\* A step of one thread leaves the others where they are, and all alone they are idle.
LEMMA ThreadStep ==
  ASSUME ReviewIInv, NEW t \in Threads, ReviewTypeOK', AllowedInv', allowed' = allowed,
         \A u \in Threads \ {t} : /\ reviewPc'[u] = reviewPc[u] /\ choice'[u] = choice[u] /\ id'[u] = id[u]
                                  /\ list'[u] = list[u],
         taken <= taken', ThreadInv(t)',
         allowed["overlap"] = 0 => \/ reviewPc[t] # "idle"
                                   \/ \A u \in Threads : reviewPc[u] = "idle",
         (/\ allowed["overlap"] = 0 /\ AloneInv /\ ListsInv /\ CopyInv(t))
           => ListsInv' /\ CopyInv(t)'
  PROVE  ReviewIInv'
<1>1. \A u \in Threads : ThreadInv(u)'
  <2> SUFFICES ASSUME NEW u \in Threads \ {t} PROVE ThreadInv(u)'
    OBVIOUS
  <2>1. taken \in Nat /\ taken' \in Nat
    <3>1. taken' \in 0..MaxIds
      BY DEF ReviewTypeOK
    <3> QED BY <3>1, IdsAre, TakenIs DEF ReviewIInv
  <2>2. ThreadInv(u)
    BY DEF ReviewIInv
  <2>3. id[u] \in 1..taken => id[u] \in 1..taken'
    BY <2>1
  <2> QED BY <2>2, <2>3 DEF ThreadInv
<1>2. ASSUME allowed["overlap"] = 0
      PROVE  AloneInv' /\ ListsInv' /\ \A u \in Threads : CopyInv(u)'
  <2>1. AloneInv /\ ListsInv /\ CopyInv(t)
    BY <1>2 DEF ReviewIInv
  <2>2. \A u \in Threads \ {t} : reviewPc'[u] = "idle"
    BY <1>2, <2>1 DEF AloneInv
  <2>3. AloneInv'
    BY <2>2 DEF AloneInv
  <2>4. \A u \in Threads \ {t} : CopyInv(u)'
    BY <2>2 DEF CopyInv
  <2> QED BY <1>2, <2>1, <2>3, <2>4
<1> QED BY <1>1, <1>2 DEF ReviewIInv

\* A request that ends leaves its thread as it was before it.
LEMMA Ending ==
  ASSUME ReviewTypeOK, NEW t \in Threads, End(t)
  PROVE  /\ reviewPc' \in [Threads -> Places] /\ about' \in [Threads -> Controllers]
         /\ id' \in [Threads -> 0..MaxIds] /\ choice' \in [Threads -> Decisions]
         /\ items' \in [Threads -> [Controllers -> Items]] /\ list' \in [Threads -> [Ids -> Removals]]
         /\ reviewPc'[t] = "idle" /\ ThreadInv(t)' /\ CopyInv(t)'
         /\ \A u \in Threads \ {t} : /\ reviewPc'[u] = reviewPc[u] /\ choice'[u] = choice[u] /\ id'[u] = id[u]
                                     /\ list'[u] = list[u]
<1>1. /\ reviewPc \in [Threads -> Places] /\ about \in [Threads -> Controllers]
      /\ id \in [Threads -> 0..MaxIds] /\ choice \in [Threads -> Decisions]
      /\ items \in [Threads -> [Controllers -> Items]] /\ list \in [Threads -> [Ids -> Removals]]
  BY DEF ReviewTypeOK, Places
<1>2. /\ reviewPc' \in [Threads -> Places] /\ reviewPc'[t] = "idle"
      /\ choice' \in [Threads -> Decisions] /\ choice'[t] = "keep"
      /\ \A u \in Threads \ {t} : reviewPc'[u] = reviewPc[u] /\ choice'[u] = choice[u]
  BY <1>1 DEF End, Places, Decisions
<1>3. /\ about' \in [Threads -> Controllers] /\ id' \in [Threads -> 0..MaxIds]
      /\ \A u \in Threads \ {t} : id'[u] = id[u]
  BY <1>1, NobodyIs, IdsAre DEF End
<1>4. /\ items' \in [Threads -> [Controllers -> Items]]
      /\ list' \in [Threads -> [Ids -> Removals]]
      /\ \A u \in Threads \ {t} : list'[u] = list[u]
  BY <1>1, NoneAre DEF End
<1>5. ThreadInv(t)' /\ CopyInv(t)'
  BY <1>2 DEF ThreadInv, CopyInv
<1> QED BY <1>2, <1>3, <1>4, <1>5

LEMMA ReviewInitInv == ReviewInit => ReviewIInv
<1> SUFFICES ASSUME ReviewInit PROVE ReviewIInv
  OBVIOUS
<1>1. reviewBudget = allowed /\ allowed \in [ReviewMishaps -> Nat]
  BY ReviewAssumption DEF ReviewInit
<1>2. /\ \A t \in Threads : reviewPc[t] = "idle" /\ choice[t] = "keep"
      /\ reviewPc \in [Threads -> Places] /\ about \in [Threads -> Controllers]
      /\ id \in [Threads -> 0..MaxIds] /\ choice \in [Threads -> Decisions]
  BY NobodyIs, IdsAre DEF ReviewInit, Places, Decisions
<1>3. /\ house = NoItems /\ removals = NoRemovals /\ noted = Controllers /\ taken = 0
      /\ decided = [c \in Controllers |-> "absent"] /\ verdict = [i \in Ids |-> "pending"]
      /\ items \in [Threads -> [Controllers -> Items]] /\ list \in [Threads -> [Ids -> Removals]]
  BY NoneAre DEF ReviewInit
<1>4. ReviewTypeOK
  <2>1. taken \in 0..MaxIds
    BY <1>3, IdsAre
  <2>2. decided \in [Controllers -> ItemStates \cup {"absent"}] /\ verdict \in [Ids -> RemovalStates]
    BY <1>3 DEF RemovalStates
  <2> QED BY <1>1, <1>2, <1>3, <2>1, <2>2, NoneAre DEF ReviewTypeOK, Places
<1>5. AllowedInv
  BY <1>1 DEF AllowedInv
<1>6. AloneInv /\ \A t \in Threads : ThreadInv(t) /\ CopyInv(t)
  BY <1>2 DEF AloneInv, ThreadInv, CopyInv
<1>7. ListsInv
  BY <1>3, NoneAre DEF ListsInv, UnusedInv, VerdictIsKept, DecisionIsKept, OneOpenProposal, ProposalIsListed
<1> QED BY <1>4, <1>5, <1>6, <1>7 DEF ReviewIInv

-----------------------------------------------------------------------------
(* Every operation keeps it.                                                *)

LEMMA MergedIs ==
  ASSUME ReviewTypeOK, NEW looked
  PROVE  LET copy == [c \in Controllers |-> IF c \in looked THEN Merged(c) ELSE NoItem] IN
         /\ copy \in [Controllers -> Items]
         /\ \A c \in Controllers :
               /\ copy[c].status = "removal_proposed" => copy[c] = house[c]
               /\ c \in looked /\ house[c].status # "absent" => copy[c] = house[c]
<1>1. \A c \in Controllers : house[c] \in Items
  BY DEF ReviewTypeOK
<1>2. NoItem \in Items /\ [status |-> "suggested", proposal |-> 0] \in Items
  BY DEF NoItem, Items, ItemStates
<1>3. \A c \in Controllers : Merged(c) \in Items
  BY <1>1, <1>2 DEF Merged
<1> QED BY <1>2, <1>3 DEF Merged, NoItem

LEMMA ScanInvs ==
  ASSUME ReviewIInv, NEW t \in Threads, NEW ms \in SUBSET ReviewMishaps, NEW looked,
         Begin(t, "save scan", ms), ScanWith(t, looked), "blind" \in ms \/ looked = noted
  PROVE  ReviewIInv'
<1> DEFINE copy == [c \in Controllers |-> IF c \in looked THEN Merged(c) ELSE NoItem]
<1>1. ReviewTypeOK /\ AllowedInv /\ ThreadInv(t) /\ "save scan" \in Places
  BY DEF ReviewIInv, Places
<1>2. /\ reviewPc[t] = "idle" /\ reviewPc' = [reviewPc EXCEPT ![t] = "save scan"]
      /\ reviewBudget' \in [ReviewMishaps -> Nat] /\ AllowedInv' /\ allowed' = allowed
      /\ \A m \in ms : allowed[m] # 0
      /\ allowed["overlap"] = 0 => \A u \in Threads : reviewPc[u] = "idle"
  BY <1>1, Beginning
<1>3. /\ copy \in [Controllers -> Items]
      /\ \A c \in Controllers :
            /\ copy[c].status = "removal_proposed" => copy[c] = house[c]
            /\ c \in looked /\ house[c].status # "absent" => copy[c] = house[c]
  BY <1>1, MergedIs
<1>4. items' = [items EXCEPT ![t] = copy] /\ UNCHANGED <<noted, house, removals, about, id, choice, list, taken, ghosts>>
  BY DEF ScanWith
<1> HIDE DEF copy
<1>5. items' \in [Threads -> [Controllers -> Items]] /\ items'[t] = copy
  BY <1>1, <1>3, <1>4 DEF ReviewTypeOK
<1>6. reviewPc' \in [Threads -> Places] /\ reviewPc'[t] = "save scan"
      /\ \A u \in Threads \ {t} : reviewPc'[u] = reviewPc[u]
  BY <1>1, <1>2 DEF ReviewTypeOK, Places
<1>7. ReviewTypeOK'
  BY <1>1, <1>2, <1>4, <1>5, <1>6 DEF ReviewTypeOK, Places, ghosts
<1>8. ThreadInv(t)'
  BY <1>6 DEF ThreadInv
<1>9. ASSUME allowed["overlap"] = 0, ListsInv PROVE ListsInv' /\ CopyInv(t)'
  <2>1. ListsInv'
    BY <1>2, <1>4, <1>9 DEF ListsInv, UnusedInv, VerdictIsKept, DecisionIsKept, OneOpenProposal, ProposalIsListed, ghosts
  <2>2. Scanned(t)'
    <3>1. \A c \in Controllers : items'[t][c].status = "removal_proposed" => items'[t][c] = house'[c]
      BY <1>3, <1>4, <1>5
    <3>2. ASSUME allowed["blind"] = 0, NEW c \in noted, decided[c] # "absent" PROVE items'[t][c].status = decided[c]
      <4>1. c \in looked /\ c \in Controllers /\ house[c].status = decided[c]
        BY <1>1, <1>2, <1>9, <3>2 DEF ListsInv, DecisionIsKept, ReviewTypeOK
      <4> QED BY <1>3, <1>5, <3>2, <4>1
    <3> QED BY <1>2, <1>4, <3>1, <3>2 DEF Scanned, ghosts
  <2> QED BY <1>6, <2>1, <2>2 DEF CopyInv
<1>10. taken <= taken' /\ \A u \in Threads \ {t} : choice'[u] = choice[u] /\ id'[u] = id[u] /\ list'[u] = list[u]
  BY <1>1, <1>4, TakenIs
<1> QED BY <1>2, <1>6, <1>7, <1>8, <1>9, <1>10, ThreadStep

LEMMA ScanHousekeepingInv ==
  ASSUME ReviewIInv, NEW t \in Threads, ScanHousekeeping(t) \/ ScanBlind(t)
  PROVE  ReviewIInv'
<1>1. CASE ScanHousekeeping(t)
  <2>1. {} \in SUBSET ReviewMishaps
    OBVIOUS
  <2> QED BY <1>1, <2>1, ScanInvs DEF ScanHousekeeping
<1>2. CASE ScanBlind(t)
  <2>1. {"blind"} \in SUBSET ReviewMishaps /\ "blind" \in {"blind"}
    BY DEF ReviewMishaps
  <2> QED BY <1>2, <2>1, ScanInvs DEF ScanBlind
<1> QED BY <1>1, <1>2

LEMMA SaveScanInv ==
  ASSUME ReviewIInv, NEW t \in Threads, SaveScan(t)
  PROVE  ReviewIInv'
<1>1. /\ reviewPc[t] = "save scan" /\ house' = items[t] /\ End(t) /\ ReviewTypeOK /\ AllowedInv
      /\ UNCHANGED <<noted, removals, taken, ghosts, allowances>>
  BY DEF SaveScan, ReviewIInv
<1>2. AllowedInv' /\ allowed' = allowed
  BY <1>1 DEF AllowedInv, allowances
<1>3. ReviewTypeOK'
  <2>1. house' \in [Controllers -> Items]
    BY <1>1 DEF ReviewTypeOK
  <2> QED BY <1>1, <2>1, Ending DEF ReviewTypeOK, Places, ghosts, allowances
<1>4. ASSUME CopyInv(t), ListsInv PROVE ListsInv'
  <2>1. Scanned(t)
    BY <1>1, <1>4 DEF CopyInv
  <2>2. UnusedInv' /\ VerdictIsKept' /\ OneOpenProposal'
    BY <1>1, <1>4 DEF ListsInv, UnusedInv, VerdictIsKept, OneOpenProposal, ghosts
  <2>3. DecisionIsKept'
    BY <1>1, <1>2, <2>1 DEF Scanned, DecisionIsKept, ghosts
  <2>4. ProposalIsListed'
    BY <1>1, <1>4, <2>1 DEF Scanned, ListsInv, ProposalIsListed
  <2> QED BY <2>2, <2>3, <2>4 DEF ListsInv
<1>5. taken <= taken'
  BY <1>1, TakenIs
<1> QED BY <1>1, <1>2, <1>3, <1>4, <1>5, Ending, ThreadStep

LEMMA SaveItemInv ==
  ASSUME ReviewIInv, NEW t \in Threads, SaveItem(t)
  PROVE  ReviewIInv'
<1>1. /\ reviewPc[t] = "save item" /\ house' = items[t] /\ End(t) /\ ReviewTypeOK /\ AllowedInv
      /\ decided' = [decided EXCEPT ![about[t]] = items[t][about[t]].status]
      /\ UNCHANGED <<noted, removals, taken, verdict, allowances>>
  BY DEF SaveItem, ReviewIInv
<1>2. AllowedInv' /\ allowed' = allowed
  BY <1>1 DEF AllowedInv, allowances
<1>3. about[t] \in Controllers /\ items[t] \in [Controllers -> Items]
  BY <1>1 DEF ReviewTypeOK
<1>4. items[t][about[t]].status \in ItemStates \cup {"absent"}
  BY <1>3 DEF Items
<1>5. /\ decided' \in [Controllers -> ItemStates \cup {"absent"}]
      /\ decided'[about[t]] = items[t][about[t]].status
      /\ \A c \in Controllers \ {about[t]} : decided'[c] = decided[c]
  BY <1>1, <1>3, <1>4 DEF ReviewTypeOK
<1>6. ReviewTypeOK'
  BY <1>1, <1>3, <1>5, Ending DEF ReviewTypeOK, Places, allowances
<1>7. ASSUME CopyInv(t), ListsInv PROVE ListsInv'
  <2>1. /\ Reviewed(t)
        /\ items[t][about[t]].status = "removal_proposed" => Listed(items[t][about[t]], about[t])
    BY <1>1, <1>7 DEF CopyInv
  <2>2. UnusedInv' /\ VerdictIsKept' /\ OneOpenProposal'
    BY <1>1, <1>7 DEF ListsInv, UnusedInv, VerdictIsKept, OneOpenProposal
  <2>3. DecisionIsKept'
    <3>1. noted \subseteq Controllers /\ (allowed["blind"] = 0 => \A c \in noted : decided[c] # "absent" => house[c].status = decided[c])
      BY <1>1, <1>7 DEF ReviewTypeOK, ListsInv, DecisionIsKept
    <3> QED BY <1>1, <1>2, <1>5, <2>1, <3>1 DEF Reviewed, DecisionIsKept
  <2>4. ProposalIsListed'
    <3> SUFFICES ASSUME NEW c \in Controllers, items[t][c].status = "removal_proposed"
                 PROVE  Listed(items[t][c], c)
      BY <1>1 DEF ProposalIsListed, Listed
    <3> QED BY <1>7, <2>1 DEF Reviewed, ListsInv, ProposalIsListed, Listed
  <2> QED BY <2>2, <2>3, <2>4 DEF ListsInv
<1>8. taken <= taken'
  BY <1>1, TakenIs
<1> QED BY <1>1, <1>2, <1>6, <1>7, <1>8, Ending, ThreadStep

LEMMA ReviewItemInv ==
  ASSUME ReviewIInv, NEW t \in Threads, NEW c \in Controllers, NEW d \in Decisions, ReviewItem(t, c, d)
  PROVE  ReviewIInv'
<1> DEFINE to == IF d = "propose_removal" THEN "find" ELSE "save item"
<1> DEFINE copy == [house EXCEPT ![c] = [house[c] EXCEPT !.status = StatusFor(d)]]
<1>1. ReviewTypeOK /\ AllowedInv /\ to \in Places /\ {} \in SUBSET ReviewMishaps
  BY DEF ReviewIInv, Places
<1>2. /\ reviewPc[t] = "idle" /\ reviewPc' = [reviewPc EXCEPT ![t] = to]
      /\ reviewBudget' \in [ReviewMishaps -> Nat] /\ AllowedInv' /\ allowed' = allowed
      /\ allowed["overlap"] = 0 => \A u \in Threads : reviewPc[u] = "idle"
  BY <1>1, Beginning DEF ReviewItem
<1>3. /\ about' = [about EXCEPT ![t] = c] /\ choice' = [choice EXCEPT ![t] = d]
      /\ items' = [items EXCEPT ![t] = copy]
      /\ UNCHANGED <<noted, house, removals, id, list, taken, ghosts>>
  BY DEF ReviewItem
<1>4. copy \in [Controllers -> Items] /\ copy[c].status = StatusFor(d) /\ \A e \in Controllers \ {c} : copy[e] = house[e]
  <2>1. StatusFor(d) \in ItemStates
    BY DEF StatusFor, ItemStates, Decisions
  <2>2. house[c] \in Items /\ house \in [Controllers -> Items]
    BY <1>1 DEF ReviewTypeOK
  <2>3. [house[c] EXCEPT !.status = StatusFor(d)] \in Items /\ [house[c] EXCEPT !.status = StatusFor(d)].status = StatusFor(d)
    BY <2>1, <2>2 DEF Items
  <2> QED BY <2>2, <2>3
<1>5. to = "save item" => StatusFor(d) # "removal_proposed"
  BY DEF StatusFor, Decisions
<1>5a. to \in {"find", "save item"}
  OBVIOUS
<1> HIDE DEF copy, to
<1>6. /\ items' \in [Threads -> [Controllers -> Items]] /\ items'[t] = copy
      /\ about' \in [Threads -> Controllers] /\ about'[t] = c
      /\ choice' \in [Threads -> Decisions] /\ reviewPc' \in [Threads -> Places] /\ reviewPc'[t] = to
  BY <1>1, <1>2, <1>3, <1>4 DEF ReviewTypeOK, Places
<1>7. ReviewTypeOK'
  <2>1. id' = id /\ list' = list /\ noted' = noted /\ house' = house /\ removals' = removals
        /\ taken' = taken /\ decided' = decided /\ verdict' = verdict
    BY <1>3 DEF ghosts
  <2> QED BY <1>1, <1>2, <1>6, <2>1 DEF ReviewTypeOK, Places
<1>8. ThreadInv(t)'
  BY <1>5a, <1>6 DEF ThreadInv
<1>9. ASSUME ListsInv PROVE ListsInv' /\ CopyInv(t)'
  <2>1. ListsInv'
    BY <1>2, <1>3, <1>9 DEF ListsInv, UnusedInv, VerdictIsKept, DecisionIsKept, OneOpenProposal, ProposalIsListed, ghosts
  <2>2. Reviewed(t)'
    BY <1>3, <1>4, <1>6 DEF Reviewed
  <2> QED BY <1>4, <1>5, <1>5a, <1>6, <2>1, <2>2 DEF CopyInv
<1>10. /\ taken <= taken'
       /\ \A u \in Threads \ {t} : /\ reviewPc'[u] = reviewPc[u] /\ choice'[u] = choice[u] /\ id'[u] = id[u]
                                   /\ list'[u] = list[u]
  BY <1>1, <1>2, <1>3, TakenIs DEF ReviewTypeOK
<1> QED BY <1>2, <1>7, <1>8, <1>9, <1>10, ThreadStep

LEMMA ProposeInv ==
  ASSUME ReviewIInv, NEW t \in Threads, NEW c \in Controllers, Propose(t, c)
  PROVE  ReviewIInv'
<1>1. ReviewTypeOK /\ AllowedInv /\ "find" \in Places /\ {} \in SUBSET ReviewMishaps /\ ThreadInv(t)
  BY DEF ReviewIInv, Places
<1>2. /\ reviewPc[t] = "idle" /\ reviewPc' = [reviewPc EXCEPT ![t] = "find"]
      /\ reviewBudget' \in [ReviewMishaps -> Nat] /\ AllowedInv' /\ allowed' = allowed
      /\ allowed["overlap"] = 0 => \A u \in Threads : reviewPc[u] = "idle"
  BY <1>1, Beginning DEF Propose
<1>3. /\ about' = [about EXCEPT ![t] = c]
      /\ UNCHANGED <<noted, house, removals, id, choice, items, list, taken, ghosts>>
  BY DEF Propose
<1>4. choice'[t] = "keep"
  BY <1>1, <1>2, <1>3 DEF ThreadInv
<1>5. /\ about' \in [Threads -> Controllers]
      /\ reviewPc' \in [Threads -> Places] /\ reviewPc'[t] = "find"
  BY <1>1, <1>2, <1>3 DEF ReviewTypeOK, Places
<1>6. ReviewTypeOK'
  BY <1>1, <1>2, <1>3, <1>5 DEF ReviewTypeOK, Places, ghosts
<1>7. ThreadInv(t)' /\ CopyInv(t)'
  BY <1>4, <1>5 DEF ThreadInv, CopyInv
<1>8. ListsInv => ListsInv'
  BY <1>2, <1>3 DEF ListsInv, UnusedInv, VerdictIsKept, DecisionIsKept, OneOpenProposal, ProposalIsListed, ghosts
<1>9. /\ taken <= taken'
      /\ \A u \in Threads \ {t} : /\ reviewPc'[u] = reviewPc[u] /\ choice'[u] = choice[u] /\ id'[u] = id[u]
                                  /\ list'[u] = list[u]
  BY <1>1, <1>2, <1>3, TakenIs DEF ReviewTypeOK
<1> QED BY <1>2, <1>6, <1>7, <1>8, <1>9, ThreadStep

\* propose_removal answers: its thread ends, or the suggestion gets the id.
LEMMA Answering ==
  ASSUME ReviewTypeOK, NEW t \in Threads, NEW i \in Ids, Answer(t, i),
         reviewPc[t] \in {"find", "save proposal"}
  PROVE  /\ reviewPc' \in [Threads -> Places] /\ about' \in [Threads -> Controllers]
         /\ id' \in [Threads -> 0..MaxIds] /\ choice' \in [Threads -> Decisions]
         /\ items' \in [Threads -> [Controllers -> Items]] /\ list' \in [Threads -> [Ids -> Removals]]
         /\ ThreadInv(t)'
         /\ (/\ CopyInv(t) /\ house' = house /\ removals' \in [Ids -> Removals]
             /\ removals'[i].status # "none" /\ removals'[i].of = about[t])
              => CopyInv(t)'
         /\ \A u \in Threads \ {t} : /\ reviewPc'[u] = reviewPc[u] /\ choice'[u] = choice[u] /\ id'[u] = id[u]
                                     /\ list'[u] = list[u]
<1>1. CASE choice[t] # "propose_removal"
  BY <1>1, Ending DEF Answer
<1>2. CASE choice[t] = "propose_removal"
  <2>1. /\ reviewPc' = [reviewPc EXCEPT ![t] = "save item"]
        /\ items' = [items EXCEPT ![t] = Naming(items[t], about[t], i)]
        /\ list' = [list EXCEPT ![t] = NoRemovals] /\ id' = [id EXCEPT ![t] = 0]
        /\ about' = about /\ choice' = choice
    BY <1>2 DEF Answer
  <2>2. /\ items[t] \in [Controllers -> Items] /\ about[t] \in Controllers
        /\ items \in [Threads -> [Controllers -> Items]]
    BY DEF ReviewTypeOK
  <2>3. /\ Naming(items[t], about[t], i) \in [Controllers -> Items]
        /\ Naming(items[t], about[t], i)[about[t]].proposal = i
        /\ \A c \in Controllers \ {about[t]} : Naming(items[t], about[t], i)[c] = items[t][c]
    <3> DEFINE new == [items[t][about[t]] EXCEPT !.proposal = i]
    <3>1. items[t][about[t]] \in Items
      BY <2>2
    <3>2. new \in Items /\ new.proposal = i
      BY <3>1 DEF Items
    <3> HIDE DEF new
    <3>3. Naming(items[t], about[t], i) = [items[t] EXCEPT ![about[t]] = new]
      BY DEF Naming, new
    <3> QED BY <2>2, <3>2, <3>3
  <2>4. /\ items' \in [Threads -> [Controllers -> Items]] /\ items'[t] = Naming(items[t], about[t], i)
    BY <2>1, <2>2, <2>3
  <2>5. /\ reviewPc' \in [Threads -> Places] /\ reviewPc'[t] = "save item"
        /\ \A u \in Threads \ {t} : reviewPc'[u] = reviewPc[u]
    BY <2>1 DEF ReviewTypeOK, Places
  <2>6. /\ id' \in [Threads -> 0..MaxIds] /\ list' \in [Threads -> [Ids -> Removals]]
        /\ \A u \in Threads \ {t} : id'[u] = id[u] /\ list'[u] = list[u]
    BY <2>1, NoneAre, IdsAre DEF ReviewTypeOK
  <2>7. ThreadInv(t)'
    BY <2>5 DEF ThreadInv
  <2>8. ASSUME CopyInv(t), house' = house, removals'[i].status # "none", removals'[i].of = about[t] PROVE CopyInv(t)'
    <3>1. Reviewed(t)
      BY <1>2, <2>8 DEF CopyInv
    <3>2. Reviewed(t)'
      BY <2>1, <2>3, <2>4, <2>8, <3>1 DEF Reviewed
    <3>3. i # 0
      BY IdsAre
    <3>4. Listed(items[t][about[t]], about[t])'
      BY <2>1, <2>3, <2>4, <2>8, <3>3 DEF Listed
    <3> QED BY <2>5, <3>2, <3>4 DEF CopyInv
  <2> QED BY <2>1, <2>4, <2>5, <2>6, <2>7, <2>8 DEF ReviewTypeOK
<1> QED BY <1>1, <1>2

LEMMA FindOpenInv ==
  ASSUME ReviewIInv, NEW t \in Threads, FindOpen(t)
  PROVE  ReviewIInv'
<1>1. /\ reviewPc[t] = "find" /\ UNCHANGED <<noted, house, removals, taken, ghosts, allowances>>
      /\ ReviewTypeOK /\ AllowedInv
  BY DEF FindOpen, ReviewIInv
<1>2. PICK i \in Ids : Open(removals[i], about[t]) /\ Answer(t, i)
  BY DEF FindOpen
<1>3. ReviewTypeOK'
  BY <1>1, <1>2, Answering DEF ReviewTypeOK, Places, ghosts, allowances
<1>4. AllowedInv' /\ allowed' = allowed
  BY <1>1 DEF AllowedInv, allowances
<1>5. removals'[i].status # "none" /\ removals'[i].of = about[t] /\ removals' \in [Ids -> Removals]
  BY <1>1, <1>2 DEF Open, ReviewTypeOK
<1>6. ListsInv => ListsInv'
  BY <1>1, <1>4 DEF ListsInv, UnusedInv, VerdictIsKept, DecisionIsKept, OneOpenProposal, ProposalIsListed, ghosts
<1>7. taken <= taken'
  BY <1>1, TakenIs
<1> QED BY <1>1, <1>2, <1>3, <1>4, <1>5, <1>6, <1>7, Answering, ThreadStep

LEMMA FindNoneInv ==
  ASSUME ReviewIInv, NEW t \in Threads, FindNone(t)
  PROVE  ReviewIInv'
<1>1. /\ reviewPc[t] = "find" /\ reviewPc' = [reviewPc EXCEPT ![t] = "load"] /\ taken < MaxIds
      /\ \A i \in Ids : ~Open(removals[i], about[t])
      /\ taken' = taken + 1 /\ id' = [id EXCEPT ![t] = taken']
      /\ UNCHANGED <<noted, house, removals, about, choice, items, list, ghosts, allowances>>
      /\ ReviewTypeOK /\ AllowedInv
  BY DEF FindNone, Go, ReviewIInv
<1>2. taken' \in Ids /\ taken' \in 0..MaxIds /\ taken \in Nat /\ taken' \in 1..taken'
  BY <1>1, IdsAre, TakenIs
<1>3. /\ id' \in [Threads -> 0..MaxIds] /\ id'[t] = taken'
      /\ reviewPc' \in [Threads -> Places] /\ reviewPc'[t] = "load"
      /\ \A u \in Threads \ {t} : reviewPc'[u] = reviewPc[u] /\ id'[u] = id[u]
  BY <1>1, <1>2 DEF ReviewTypeOK, Places
<1>4. ReviewTypeOK'
  BY <1>1, <1>2, <1>3 DEF ReviewTypeOK, Places, ghosts, allowances
<1>5. AllowedInv' /\ allowed' = allowed
  BY <1>1 DEF AllowedInv, allowances
<1>6. ThreadInv(t)'
  BY <1>2, <1>3 DEF ThreadInv
<1>7. ASSUME ListsInv, CopyInv(t) PROVE ListsInv' /\ CopyInv(t)'
  <2>1. \A i \in Ids : i > taken' => i > taken
    BY <1>1, <1>2 DEF Ids
  <2>2. ListsInv'
    BY <1>1, <1>5, <1>7, <2>1 DEF ListsInv, UnusedInv, VerdictIsKept, DecisionIsKept, OneOpenProposal, ProposalIsListed, ghosts
  <2>3. Proposing(t)'
    <3>1. removals[taken'].status = "none"
      BY <1>1, <1>2, <1>7 DEF ListsInv, UnusedInv
    <3> QED BY <1>1, <1>3, <3>1 DEF Proposing
  <2>4. choice'[t] = "propose_removal" => Reviewed(t)'
    BY <1>1, <1>7 DEF CopyInv, Reviewed
  <2> QED BY <1>3, <2>2, <2>3, <2>4 DEF CopyInv
<1>8. taken <= taken' /\ \A u \in Threads \ {t} : choice'[u] = choice[u] /\ list'[u] = list[u]
  BY <1>1, <1>2
<1> QED BY <1>1, <1>3, <1>4, <1>5, <1>6, <1>7, <1>8, ThreadStep

LEMMA FindGoneInv ==
  ASSUME ReviewIInv, NEW t \in Threads, FindGone(t)
  PROVE  ReviewIInv'
<1>1. /\ reviewPc[t] = "find" /\ UNCHANGED <<noted, house, removals, taken, ghosts>>
      /\ SpendReview({"blind"}) /\ End(t) /\ ReviewTypeOK /\ AllowedInv /\ {"blind"} \in SUBSET ReviewMishaps
  BY DEF FindGone, ReviewIInv, ReviewMishaps
<1>2. reviewBudget' \in [ReviewMishaps -> Nat] /\ AllowedInv' /\ allowed' = allowed
  BY <1>1, SpendingReview
<1>3. ReviewTypeOK'
  BY <1>1, <1>2, Ending DEF ReviewTypeOK, Places, ghosts
<1>6. ListsInv => ListsInv'
  BY <1>1, <1>2 DEF ListsInv, UnusedInv, VerdictIsKept, DecisionIsKept, OneOpenProposal, ProposalIsListed, ghosts
<1>7. taken <= taken'
  BY <1>1, TakenIs
<1> QED BY <1>1, <1>2, <1>3, <1>6, <1>7, Ending, ThreadStep

LEMMA LoadToAppendInv ==
  ASSUME ReviewIInv, NEW t \in Threads, LoadToAppend(t)
  PROVE  ReviewIInv'
<1> DEFINE new == [status |-> "pending", of |-> about[t]]
<1> DEFINE copy == [removals EXCEPT ![id[t]] = new]
<1>1. /\ reviewPc[t] = "load" /\ reviewPc' = [reviewPc EXCEPT ![t] = "save proposal"]
      /\ list' = [list EXCEPT ![t] = copy]
      /\ UNCHANGED <<noted, house, removals, about, id, choice, items, taken, ghosts, allowances>>
      /\ ReviewTypeOK /\ AllowedInv /\ ThreadInv(t)
  BY DEF LoadToAppend, Go, ReviewIInv
<1>2. new \in Removals /\ id[t] \in Ids /\ id[t] \in 1..taken
  <2>1. id[t] \in 1..taken /\ about[t] \in Controllers
    BY <1>1 DEF ThreadInv, ReviewTypeOK
  <2>2. new \in Removals
    BY <2>1 DEF Removals, RemovalStates
  <2> QED BY <1>1, <2>1, <2>2, IdsAre, TakenIs
<1>3. copy \in [Ids -> Removals] /\ copy[id[t]] = new /\ \A i \in Ids \ {id[t]} : copy[i] = removals[i]
  BY <1>1, <1>2 DEF ReviewTypeOK
<1>3a. new = [status |-> "pending", of |-> about[t]]
  OBVIOUS
<1> HIDE DEF copy, new
<1>4. /\ list' \in [Threads -> [Ids -> Removals]] /\ list'[t] = copy
      /\ reviewPc' \in [Threads -> Places] /\ reviewPc'[t] = "save proposal"
      /\ \A u \in Threads \ {t} : reviewPc'[u] = reviewPc[u] /\ list'[u] = list[u]
  BY <1>1, <1>3 DEF ReviewTypeOK, Places
<1>5. ReviewTypeOK'
  BY <1>1, <1>4 DEF ReviewTypeOK, Places, ghosts, allowances
<1>6. AllowedInv' /\ allowed' = allowed
  BY <1>1 DEF AllowedInv, allowances
<1>7. ThreadInv(t)'
  BY <1>1, <1>2, <1>4 DEF ThreadInv
<1>8. ASSUME ListsInv, CopyInv(t) PROVE ListsInv' /\ CopyInv(t)'
  <2>1. ListsInv'
    BY <1>1, <1>6, <1>8 DEF ListsInv, UnusedInv, VerdictIsKept, DecisionIsKept, OneOpenProposal, ProposalIsListed, ghosts
  <2>2. Proposing(t)'
    BY <1>1, <1>8 DEF CopyInv, Proposing
  <2>3. choice'[t] = "propose_removal" => Reviewed(t)'
    BY <1>1, <1>8 DEF CopyInv, Reviewed
  <2> QED BY <1>1, <1>3, <1>3a, <1>4, <2>1, <2>2, <2>3 DEF CopyInv
<1>9. taken <= taken' /\ \A u \in Threads \ {t} : choice'[u] = choice[u] /\ id'[u] = id[u]
  BY <1>1, TakenIs
<1> QED BY <1>1, <1>4, <1>5, <1>6, <1>7, <1>8, <1>9, ThreadStep

LEMMA SaveProposalInv ==
  ASSUME ReviewIInv, NEW t \in Threads, SaveProposal(t)
  PROVE  ReviewIInv'
<1>1. /\ reviewPc[t] = "save proposal" /\ removals' = list[t] /\ Answer(t, id[t])
      /\ UNCHANGED <<noted, house, taken, ghosts, allowances>>
      /\ ReviewTypeOK /\ AllowedInv /\ ThreadInv(t)
  BY DEF SaveProposal, ReviewIInv
<1>2. id[t] \in Ids /\ id[t] \in 1..taken /\ removals' \in [Ids -> Removals] /\ about[t] \in Controllers
  <2>1. id[t] \in 1..taken /\ about[t] \in Controllers /\ list[t] \in [Ids -> Removals]
    BY <1>1 DEF ThreadInv, ReviewTypeOK
  <2> QED BY <1>1, <2>1, IdsAre, TakenIs
<1>3. ReviewTypeOK'
  BY <1>1, <1>2, Answering DEF ReviewTypeOK, Places, ghosts, allowances
<1>4. AllowedInv' /\ allowed' = allowed
  BY <1>1 DEF AllowedInv, allowances
<1>5. ASSUME ListsInv, CopyInv(t) PROVE ListsInv' /\ CopyInv(t)'
  <2>1. /\ removals'[id[t]].status = "pending" /\ removals'[id[t]].of = about[t]
        /\ \A i \in Ids \ {id[t]} : removals'[i] = removals[i]
        /\ Proposing(t)
    <3>1. /\ list[t][id[t]] = [status |-> "pending", of |-> about[t]] /\ Proposing(t)
          /\ \A i \in Ids \ {id[t]} : list[t][i] = removals[i]
      BY <1>1, <1>5 DEF CopyInv
    <3>2. removals'[id[t]].status = "pending" /\ removals'[id[t]].of = about[t]
      <4>1. removals' = list[t]
        BY <1>1
      <4>2. removals'[id[t]] = [status |-> "pending", of |-> about[t]]
        BY <3>1, <4>1
      <4> QED BY <4>2
    <3>3. \A i \in Ids \ {id[t]} : removals'[i] = removals[i]
      BY <1>1, <3>1
    <3> QED BY <3>1, <3>2, <3>3
  <2>2. CopyInv(t)'
    BY <1>1, <1>2, <1>5, <2>1, Answering
  <2>3. removals[id[t]].status = "none" /\ \A i \in Ids : ~Open(removals[i], about[t])
    BY <2>1 DEF Proposing
  <2>4. UnusedInv'
    <3>1. ~(id[t] > taken)
      <4>1. id[t] \in 1..taken /\ taken \in Nat
        BY <1>1, <1>2, TakenIs
      <4> QED BY <4>1
    <3> QED BY <1>1, <1>5, <2>1, <3>1 DEF ListsInv, UnusedInv
  <2>5. VerdictIsKept'
    <3>1. verdict[id[t]] = "pending"
      BY <1>1, <1>2, <1>5, <2>3 DEF ListsInv, VerdictIsKept, ReviewTypeOK, RemovalStates
    <3> QED BY <1>1, <1>5, <2>1, <3>1 DEF ListsInv, VerdictIsKept, ghosts
  <2>6. DecisionIsKept'
    BY <1>1, <1>4, <1>5 DEF ListsInv, DecisionIsKept, ghosts
  <2>7. OneOpenProposal'
    BY <1>2, <1>5, <2>1, <2>3 DEF ListsInv, OneOpenProposal, Open
  <2>8. ProposalIsListed'
    <3> SUFFICES ASSUME NEW c \in Controllers, house[c].status = "removal_proposed"
                 PROVE  /\ house[c].proposal # 0 /\ removals'[house[c].proposal].status # "none"
                        /\ removals'[house[c].proposal].of = c
      BY <1>1 DEF ProposalIsListed
    <3>1. /\ house[c].proposal # 0 /\ removals[house[c].proposal].status # "none"
          /\ removals[house[c].proposal].of = c
      BY <1>5 DEF ListsInv, ProposalIsListed
    <3>2. house[c].proposal \in Ids \ {id[t]}
      BY <1>1, <2>3, <3>1 DEF ReviewTypeOK, Items
    <3> QED BY <2>1, <3>1, <3>2
  <2> QED BY <2>2, <2>4, <2>5, <2>6, <2>7, <2>8 DEF ListsInv
<1>6. taken <= taken'
  BY <1>1, TakenIs
<1> QED BY <1>1, <1>2, <1>3, <1>4, <1>5, <1>6, Answering, ThreadStep

LEMMA ReviewRemovalInv ==
  ASSUME ReviewIInv, NEW t \in Threads, NEW i \in Ids, NEW s \in {"approved", "rejected"},
         ReviewRemoval(t, i, s)
  PROVE  ReviewIInv'
<1> DEFINE copy == [removals EXCEPT ![i] = Decided(i, s)]
<1>1. ReviewTypeOK /\ AllowedInv /\ "save verdict" \in Places /\ {} \in SUBSET ReviewMishaps
  BY DEF ReviewIInv, Places
<1>2. /\ reviewPc[t] = "idle" /\ reviewPc' = [reviewPc EXCEPT ![t] = "save verdict"]
      /\ reviewBudget' \in [ReviewMishaps -> Nat] /\ AllowedInv' /\ allowed' = allowed
      /\ allowed["overlap"] = 0 => \A u \in Threads : reviewPc[u] = "idle"
  BY <1>1, Beginning DEF ReviewRemoval
<1>3. /\ id' = [id EXCEPT ![t] = i] /\ list' = [list EXCEPT ![t] = copy] /\ removals[i].status = "pending"
      /\ UNCHANGED <<noted, house, removals, about, choice, items, taken, ghosts>>
  BY DEF ReviewRemoval, Reviewable
<1>4. /\ copy \in [Ids -> Removals] /\ copy[i].status = s /\ copy[i].of = removals[i].of
      /\ \A j \in Ids \ {i} : copy[j] = removals[j]
  <2>1. removals[i] \in Removals /\ removals \in [Ids -> Removals]
    BY <1>1 DEF ReviewTypeOK
  <2>2. Decided(i, s) \in Removals /\ Decided(i, s).status = s /\ Decided(i, s).of = removals[i].of
    BY <2>1 DEF Decided, Removals, RemovalStates
  <2> QED BY <2>1, <2>2
<1> HIDE DEF copy
<1>5. i \in 0..MaxIds
  BY IdsAre
<1>6. /\ list' \in [Threads -> [Ids -> Removals]] /\ list'[t] = copy
      /\ id' \in [Threads -> 0..MaxIds] /\ id'[t] = i
      /\ reviewPc' \in [Threads -> Places] /\ reviewPc'[t] = "save verdict"
      /\ \A u \in Threads \ {t} : reviewPc'[u] = reviewPc[u] /\ list'[u] = list[u] /\ id'[u] = id[u]
  BY <1>1, <1>2, <1>3, <1>4, <1>5 DEF ReviewTypeOK, Places
<1>7. ReviewTypeOK'
  BY <1>1, <1>2, <1>3, <1>6 DEF ReviewTypeOK, Places, ghosts
<1>8. ThreadInv(t)'
  BY <1>4, <1>6 DEF ThreadInv
<1>9. ASSUME ListsInv PROVE ListsInv' /\ CopyInv(t)'
  <2>1. ListsInv'
    BY <1>2, <1>3, <1>9 DEF ListsInv, UnusedInv, VerdictIsKept, DecisionIsKept, OneOpenProposal, ProposalIsListed, ghosts
  <2>2. Judged(t)'
    BY <1>3, <1>4, <1>6 DEF Judged
  <2> QED BY <1>6, <2>1, <2>2 DEF CopyInv
<1>10. taken <= taken' /\ \A u \in Threads \ {t} : choice'[u] = choice[u]
  BY <1>1, <1>3, TakenIs
<1> QED BY <1>2, <1>6, <1>7, <1>8, <1>9, <1>10, ThreadStep

LEMMA SaveVerdictInv ==
  ASSUME ReviewIInv, NEW t \in Threads, SaveVerdict(t)
  PROVE  ReviewIInv'
<1>1. /\ reviewPc[t] = "save verdict" /\ removals' = list[t] /\ End(t)
      /\ verdict' = [verdict EXCEPT ![id[t]] = IF verdict[id[t]] = "pending" THEN list[t][id[t]].status ELSE verdict[id[t]]]
      /\ UNCHANGED <<noted, house, taken, decided, allowances>>
      /\ ReviewTypeOK /\ AllowedInv /\ ThreadInv(t)
  BY DEF SaveVerdict, ReviewIInv
<1>2. /\ id[t] \in Ids /\ list[t][id[t]].status \in {"approved", "rejected"} /\ removals' \in [Ids -> Removals]
      /\ verdict \in [Ids -> RemovalStates]
  BY <1>1 DEF ThreadInv, ReviewTypeOK
<1>3. /\ verdict' \in [Ids -> RemovalStates]
      /\ \A i \in Ids \ {id[t]} : verdict'[i] = verdict[i]
      /\ verdict'[id[t]] = IF verdict[id[t]] = "pending" THEN list[t][id[t]].status ELSE verdict[id[t]]
  BY <1>1, <1>2 DEF RemovalStates
<1>4. ReviewTypeOK'
  BY <1>1, <1>2, <1>3, Ending DEF ReviewTypeOK, Places, allowances
<1>5. AllowedInv' /\ allowed' = allowed
  BY <1>1 DEF AllowedInv, allowances
<1>6. ASSUME ListsInv, CopyInv(t) PROVE ListsInv'
  <2>1. /\ removals[id[t]].status = "pending" /\ removals'[id[t]].of = removals[id[t]].of
        /\ \A i \in Ids \ {id[t]} : removals'[i] = removals[i]
    BY <1>1, <1>6 DEF CopyInv, Judged
  <2>2. UnusedInv'
    BY <1>1, <1>2, <1>6, <2>1 DEF ListsInv, UnusedInv
  <2>3. VerdictIsKept'
    <3>1. verdict[id[t]] = "pending"
      BY <1>2, <1>6, <2>1 DEF ListsInv, VerdictIsKept
    <3> QED BY <1>1, <1>3, <1>6, <2>1, <3>1 DEF ListsInv, VerdictIsKept
  <2>4. DecisionIsKept'
    BY <1>1, <1>5, <1>6 DEF ListsInv, DecisionIsKept
  <2>5. OneOpenProposal'
    <3>1. \A i \in Ids : /\ removals'[i].of = removals[i].of
                         /\ removals'[i].status \in {"pending", "approved"} => removals[i].status \in {"pending", "approved"}
      BY <2>1
    <3> QED BY <1>6, <3>1 DEF ListsInv, OneOpenProposal
  <2>6. ProposalIsListed'
    <3> SUFFICES ASSUME NEW c \in Controllers, house[c].status = "removal_proposed"
                 PROVE  /\ house[c].proposal # 0 /\ removals'[house[c].proposal].status # "none"
                        /\ removals'[house[c].proposal].of = c
      BY <1>1 DEF ProposalIsListed
    <3>1. /\ house[c].proposal # 0 /\ removals[house[c].proposal].status # "none"
          /\ removals[house[c].proposal].of = c
      BY <1>6 DEF ListsInv, ProposalIsListed
    <3>2. house[c].proposal \in Ids
      BY <1>1, <3>1 DEF ReviewTypeOK, Items
    <3> QED BY <1>1, <1>2, <2>1, <3>1, <3>2
  <2> QED BY <2>2, <2>3, <2>4, <2>5, <2>6 DEF ListsInv
<1>7. taken <= taken'
  BY <1>1, TakenIs
<1> QED BY <1>1, <1>4, <1>5, <1>6, <1>7, Ending, ThreadStep

\* What is decided is void for an automation that comes or goes.
LEMMA NotedInv ==
  ASSUME ReviewIInv, NEW c \in Controllers, noted' \subseteq noted \cup {c},
         decided' = [decided EXCEPT ![c] = "absent"],
         UNCHANGED <<house, removals, reviewPc, thread, taken, verdict>>, allowed' = allowed,
         reviewBudget' \in [ReviewMishaps -> Nat], AllowedInv'
  PROVE  ReviewIInv'
<1>1. /\ decided' \in [Controllers -> ItemStates \cup {"absent"}] /\ decided'[c] = "absent"
      /\ \A e \in Controllers \ {c} : decided'[e] = decided[e]
      /\ noted \subseteq Controllers /\ noted' \subseteq Controllers
  BY DEF ReviewIInv, ReviewTypeOK
<1>2. ReviewTypeOK'
  <2>1. /\ about' = about /\ id' = id /\ choice' = choice /\ items' = items /\ list' = list
        /\ house' = house /\ removals' = removals /\ reviewPc' = reviewPc /\ taken' = taken
        /\ verdict' = verdict /\ allowed' = allowed
    BY DEF thread
  <2>2. ReviewTypeOK
    BY DEF ReviewIInv
  <2>3. {reviewBudget', allowed'} \subseteq [ReviewMishaps -> Nat]
    BY <2>1, <2>2 DEF ReviewTypeOK
  <2> QED BY <1>1, <2>1, <2>2, <2>3 DEF ReviewTypeOK
<1>3. \A t \in Threads : ThreadInv(t)'
  BY DEF ReviewIInv, ThreadInv, thread
<1>4. \A e \in noted' : decided'[e] # "absent" => e \in noted /\ decided'[e] = decided[e]
  BY <1>1
<1>5. ASSUME allowed["overlap"] = 0 PROVE AloneInv' /\ ListsInv' /\ \A t \in Threads : CopyInv(t)'
  <2>1. AloneInv /\ ListsInv /\ \A t \in Threads : CopyInv(t)
    BY <1>5 DEF ReviewIInv
  <2>2. AloneInv'
    BY <2>1 DEF AloneInv
  <2>3. ListsInv'
    <3>1. DecisionIsKept'
      BY <1>4, <2>1 DEF ListsInv, DecisionIsKept
    <3> QED BY <2>1, <3>1 DEF ListsInv, UnusedInv, VerdictIsKept, OneOpenProposal, ProposalIsListed
  <2>4. ASSUME NEW t \in Threads PROVE CopyInv(t)'
    <3>1. CopyInv(t)
      BY <2>1
    <3>2. reviewPc'[t] = "save scan" => Scanned(t)'
      BY <1>4, <3>1 DEF CopyInv, Scanned, thread
    <3> QED BY <3>1, <3>2 DEF CopyInv, Reviewed, Listed, Proposing, Judged, thread
  <2> QED BY <2>2, <2>3, <2>4
<1> QED BY <1>2, <1>3, <1>5 DEF ReviewIInv

LEMMA VanishInv ==
  ASSUME ReviewIInv, NEW c \in Controllers, Vanish(c)
  PROVE  ReviewIInv'
<1>1. {"vanish"} \in SUBSET ReviewMishaps
  BY DEF ReviewMishaps
<1>2. reviewBudget' \in [ReviewMishaps -> Nat] /\ AllowedInv' /\ allowed' = allowed
  BY <1>1, SpendingReview DEF ReviewIInv, Vanish
<1> QED BY <1>2, NotedInv DEF Vanish

LEMMA ReappearInv ==
  ASSUME ReviewIInv, NEW c \in Controllers, Reappear(c)
  PROVE  ReviewIInv'
<1>1. reviewBudget' \in [ReviewMishaps -> Nat] /\ AllowedInv' /\ allowed' = allowed
  BY DEF ReviewIInv, ReviewTypeOK, AllowedInv, Reappear, allowances
<1> QED BY <1>1, NotedInv DEF Reappear

LEMMA RestartServiceInv ==
  ASSUME ReviewIInv, RestartService
  PROVE  ReviewIInv'
<1>1. {"crash"} \in SUBSET ReviewMishaps
  BY DEF ReviewMishaps
<1>2. reviewBudget' \in [ReviewMishaps -> Nat] /\ AllowedInv' /\ allowed' = allowed
  BY <1>1, SpendingReview DEF ReviewIInv, RestartService
<1>3. /\ \A t \in Threads : reviewPc'[t] = "idle" /\ choice'[t] = "keep"
      /\ reviewPc' \in [Threads -> Places] /\ about' \in [Threads -> Controllers]
      /\ id' \in [Threads -> 0..MaxIds] /\ choice' \in [Threads -> Decisions]
      /\ items' \in [Threads -> [Controllers -> Items]] /\ list' \in [Threads -> [Ids -> Removals]]
  BY NobodyIs, NoneAre, IdsAre DEF RestartService, Places, Decisions
<1>4. UNCHANGED <<noted, house, removals, taken, ghosts>>
  BY DEF RestartService
<1>5. ReviewTypeOK'
  BY <1>2, <1>3, <1>4 DEF ReviewIInv, ReviewTypeOK, Places, ghosts
<1>6. AloneInv' /\ \A t \in Threads : ThreadInv(t)' /\ CopyInv(t)'
  BY <1>3 DEF AloneInv, ThreadInv, CopyInv
<1>7. ListsInv => ListsInv'
  BY <1>2, <1>4 DEF ListsInv, UnusedInv, VerdictIsKept, DecisionIsKept, OneOpenProposal, ProposalIsListed, ghosts
<1> QED BY <1>2, <1>5, <1>6, <1>7 DEF ReviewIInv

LEMMA ReviewQuietInv ==
  ASSUME ReviewIInv, UNCHANGED reviewVars
  PROVE  ReviewIInv'
<1>1. UNCHANGED <<noted, house, removals, reviewPc, thread, taken, ghosts, reviewBudget, allowed>>
  BY DEF reviewVars, allowances
<1>2. ReviewTypeOK' /\ AllowedInv' /\ \A t \in Threads : ThreadInv(t)'
  BY <1>1 DEF ReviewIInv, ReviewTypeOK, AllowedInv, ThreadInv, thread, ghosts
<1>3. AloneInv /\ ListsInv => AloneInv' /\ ListsInv'
  BY <1>1 DEF AloneInv, ListsInv, UnusedInv, VerdictIsKept, DecisionIsKept, OneOpenProposal, ProposalIsListed, ghosts
<1>4. \A t \in Threads : CopyInv(t) => CopyInv(t)'
  BY <1>1 DEF CopyInv, Scanned, Reviewed, Listed, Proposing, Judged, thread, ghosts
<1> QED BY <1>1, <1>2, <1>3, <1>4 DEF ReviewIInv

LEMMA ReviewStepInv == ReviewIInv /\ [ReviewNext]_reviewVars => ReviewIInv'
<1> SUFFICES ASSUME ReviewIInv, [ReviewNext]_reviewVars PROVE ReviewIInv'
  OBVIOUS
<1>1. ASSUME NEW t \in Threads,
             \/ ScanHousekeeping(t) \/ ScanBlind(t) \/ SaveScan(t) \/ SaveItem(t)
             \/ FindOpen(t) \/ FindNone(t) \/ FindGone(t) \/ LoadToAppend(t) \/ SaveProposal(t) \/ SaveVerdict(t)
      PROVE  ReviewIInv'
  BY <1>1, ScanHousekeepingInv, SaveScanInv, SaveItemInv, FindOpenInv, FindNoneInv, FindGoneInv,
     LoadToAppendInv, SaveProposalInv, SaveVerdictInv
<1>2. ASSUME NEW t \in Threads, NEW c \in Controllers, Propose(t, c) \/ \E d \in Decisions : ReviewItem(t, c, d)
      PROVE  ReviewIInv'
  BY <1>2, ProposeInv, ReviewItemInv
<1>3. ASSUME NEW t \in Threads, \E i \in Ids, s \in {"approved", "rejected"} : ReviewRemoval(t, i, s)
      PROVE  ReviewIInv'
  BY <1>3, ReviewRemovalInv
<1>4. CASE \E c \in Controllers : Vanish(c) \/ Reappear(c)
  BY <1>4, VanishInv, ReappearInv
<1>5. CASE RestartService
  BY <1>5, RestartServiceInv
<1>6. CASE UNCHANGED reviewVars
  BY <1>6, ReviewQuietInv
<1> QED BY <1>1, <1>2, <1>3, <1>4, <1>5, <1>6 DEF ReviewNext

\* DecisionsAreKept: with one request at a time a decision on a proposal stays, an
\* automation has one open proposal, a suggestion shown as proposed for removal has
\* its proposal, and a decision on a suggestion survives scans that see everything;
\* and the lists have their types however requests overlap.
THEOREM DecisionsKept == ReviewSpec => []DecisionsAreKept
<1>1. ReviewIInv /\ [ReviewNext]_reviewVars => ReviewIInv'
  BY ReviewStepInv
<1>2. ReviewIInv => DecisionsAreKept
  BY DEF ReviewIInv, ListsInv, DecisionsAreKept
<1> QED BY <1>1, <1>2, ReviewInitInv, PTL DEF ReviewSpec

-----------------------------------------------------------------------------
(* Applying: its invariant.                                                *)

SpentInv == \A m \in ApplyMishaps : applyBudget[m] <= granted[m]
StampInv == \A r \in Requests : stamp[r] <= clock
Filed(f) == f.there \/ f.entries = {}
FiledInv == Filed(automations) /\ Filed(tmp) /\ \A n \in 1..Seconds : Filed(backups[n])

\* Where a request is, what its script is doing and what it was told belong together.
Phase(r) ==
    /\ applyPc[r] \in {"idle", "recheck"} => inGuest[r] = "off"
    /\ applyPc[r] = "script" => inGuest[r] # "off"
    /\ applyPc[r] \in {"check", "restart", "verify", "record", "restore", "restart back"} => inGuest[r] = "done"
    /\ answer[r] # "none" <=> applyPc[r] = "done"
    /\ answer[r] = "refused" => inGuest[r] = "off"
    /\ answer[r] = "ok" => inGuest[r] = "done"
PhaseInv == \A r \in Requests : Phase(r)

\* One request at a time: a script left behind, and a request that died, are older
\* than this second; so whoever backs up does not name its backup for another's
\* second, and the backup of a request that is not answered is what it found.
Past(r) ==
    inGuest[r] # "off" /\ applyPc[r] \in {"done", "dead"}
        /\ (inGuest[r] \notin {"done", "failed"} \/ answer[r] = "none") => stamp[r] < clock
StampsApart(r, s) ==
    r # s /\ inGuest[r] # "off" /\ answer[r] = "none" /\ inGuest[s] = "backup" => stamp[r] # stamp[s]
BackedUp(r) ==
    inGuest[r] \notin {"off", "backup"} /\ answer[r] = "none" => backups[stamp[r]].entries = prior[r].entries
OneInv == \A r, s \in Served : r = s
ByOneInv ==
    Concurrency = 1 =>
        OneInv /\ \A r \in Requests : Past(r) /\ BackedUp(r) /\ \A s \in Requests : StampsApart(r, s)

\* In time, a script that works has its request waiting for it, and nothing fails it.
Working(r) == inGuest[r] \in {"backup", "read", "write", "replace"}
Waited(r) ==
    /\ applyPc[r] # "dead" /\ inGuest[r] # "failed"
    /\ Working(r) => applyPc[r] = "script"
    /\ inGuest[r] = "read" /\ existed[r] => automations.there
    /\ inGuest[r] = "replace" => tmp = WithEntries(data[r])
\* What was applied is in the file and runs; it is in whatever may replace the file,
\* and a request that has not changed the file is in none of them.
Kept == {r \in Requests : answer[r] = "ok"}
HasBackup(r) == r \in Served /\ inGuest[r] \notin {"off", "backup"}
Holding(r) == inGuest[r] \in {"write", "replace"}
KeepsAll(r) ==
    /\ answer[r] = "ok" => r \in automations.entries \cap running
    /\ inGuest[r] # "done" => r \notin automations.entries /\ \A n \in 1..Seconds : r \notin backups[n].entries
    /\ HasBackup(r) => Kept \subseteq FromBackup(r).entries
    /\ Holding(r) => Kept \subseteq data[r] /\ \A s \in data[r] \cap Requests : s = r \/ inGuest[s] = "done"
    /\ applyPc[r] \in {"verify", "record"} => running = automations.entries
    /\ applyPc[r] = "record" => r \in automations.entries
InTimeInv == InTime => \A r \in Requests : Waited(r) /\ KeepsAll(r)

\* If nothing fails the restoration, every other entry is of a request under way.
Clean == applyBudget["undo"] = granted["undo"] /\ granted["record"] = 0
Mine == Kept \cup {r \in Served : inGuest[r] = "done"}
LeavesNone(r) ==
    /\ HasBackup(r) => Requests \cap FromBackup(r).entries \subseteq Kept
    /\ Holding(r) => Requests \cap data[r] \subseteq Kept \cup {r}
    /\ applyPc[r] = "restart back" => Requests \cap automations.entries \subseteq Kept
CleanInv ==
    InTime /\ Clean => /\ Requests \cap (automations.entries \cup running) \subseteq Mine
                       /\ \A r \in Requests : LeavesNone(r)

\* If the re-check can read the automations, the targets differ wherever entries are kept.
TargetsApart(E) == \A r, s \in E \cap Requests : Target[wants[r]] = Target[wants[s]] => r = s
Controls(r) ==
    /\ HasBackup(r) => TargetsApart(FromBackup(r).entries)
    /\ Holding(r) => TargetsApart(data[r])
    /\ inGuest[r] \in {"backup", "read"} => ~Conflict(r)
TargetInv ==
    InTime /\ granted["blind"] = 0 => TargetsApart(automations.entries) /\ \A r \in Requests : Controls(r)

ApplyBase == ApplyTypeOK /\ SpentInv /\ StampInv /\ FiledInv /\ PhaseInv
ApplyIInv == ApplyBase /\ ByOneInv /\ InTimeInv /\ CleanInv /\ TargetInv

\* What the operations spend, and which they are.
LEMMA SpendingApply ==
  ASSUME ApplyTypeOK, SpentInv, NEW m \in ApplyMishaps, SpendApply(m)
  PROVE  /\ {applyBudget', granted'} \subseteq [ApplyMishaps -> Nat] /\ SpentInv' /\ granted' = granted
         /\ granted[m] # 0 /\ applyBudget'[m] # granted[m]
         /\ Clean' => Clean
<1>1. /\ applyBudget \in [ApplyMishaps -> Nat] /\ granted \in [ApplyMishaps -> Nat] /\ granted' = granted
      /\ applyBudget[m] > 0 /\ applyBudget' = [applyBudget EXCEPT ![m] = @ - 1]
  BY DEF ApplyTypeOK, SpendApply
<1>2. \A k \in ApplyMishaps : /\ applyBudget[k] \in Nat /\ granted[k] \in Nat /\ applyBudget[k] <= granted[k]
                               /\ applyBudget'[k] = IF k = m THEN applyBudget[k] - 1 ELSE applyBudget[k]
  BY <1>1 DEF SpentInv
<1>3. \A k \in ApplyMishaps : applyBudget'[k] \in Nat /\ applyBudget'[k] <= applyBudget[k] /\ applyBudget'[k] <= granted[k]
  BY <1>1, <1>2
<1>4. applyBudget' \in [ApplyMishaps -> Nat]
  BY <1>1, <1>3
<1>5. SpentInv'
  BY <1>1, <1>3 DEF SpentInv
<1>6. granted[m] # 0 /\ applyBudget'[m] # granted[m]
  BY <1>1, <1>2
<1>7. "undo" \in ApplyMishaps
  BY DEF ApplyMishaps
<1>8. Clean' => Clean
  <2> SUFFICES ASSUME applyBudget'["undo"] = granted["undo"] PROVE applyBudget["undo"] = granted["undo"]
    BY <1>1 DEF Clean
  <2> QED BY <1>2, <1>3, <1>7
<1> QED BY <1>1, <1>4, <1>5, <1>6, <1>8

LEMMA TicksApply ==
  ASSUME ApplyTypeOK, Tick
  PROVE  /\ clock \in Nat /\ clock' \in 1..Seconds /\ clock' = clock + 1
         /\ \A n \in 1..Seconds : n <= clock => n < clock' /\ n <= clock'
<1>1. Seconds \in Nat /\ clock \in 1..Seconds /\ clock < Seconds /\ clock' = clock + 1
  BY ApplyAssumption DEF ApplyTypeOK, Tick
<1> QED BY <1>1

LEMMA MishapsAre == {"command", "undo", "lost", "blind", "record", "crash", "post"} = ApplyMishaps
BY DEF ApplyMishaps

LEMMA ClockIs ==
  ASSUME ApplyTypeOK
  PROVE  clock \in Nat /\ clock <= clock /\ \A r \in Requests : stamp[r] \in Nat
<1>1. Seconds \in Nat /\ clock \in 1..Seconds /\ stamp \in [Requests -> 1..Seconds]
  BY ApplyAssumption DEF ApplyTypeOK
<1> QED BY <1>1

-----------------------------------------------------------------------------
(* Types, and where a request is.                                          *)

LEMMA ApplyInitBase == ApplyInit => ApplyBase
<1> SUFFICES ASSUME ApplyInit PROVE ApplyBase
  OBVIOUS
<1>1. 1 \in 1..Seconds /\ (CHOOSE p \in Proposals : TRUE) \in Proposals
  BY ApplyAssumption
<1>2. NoFile \in YamlFiles /\ WithEntries({}) \in YamlFiles /\ Filed(NoFile) /\ Filed(WithEntries({}))
  BY DEF NoFile, WithEntries, YamlFiles, Filed
<1>3. granted \in [ApplyMishaps -> Nat] /\ applyBudget = granted
  BY ApplyAssumption DEF ApplyInit
<1>4. ApplyTypeOK
  BY <1>1, <1>2, <1>3 DEF ApplyInit, ApplyTypeOK
<1>5. SpentInv
  BY <1>3 DEF SpentInv
<1>6. StampInv /\ FiledInv
  BY <1>2 DEF StampInv, FiledInv, ApplyInit
<1>7. PhaseInv
  BY DEF PhaseInv, Phase, ApplyInit
<1> QED BY <1>4, <1>5, <1>6, <1>7 DEF ApplyBase

\* The steps of a request after its script: the script has ended, or is left.
After(r) ==
    Meta(r) \/ Lost(r) \/ CheckConfig(r) \/ RestartCore(r) \/ VerifyEntry(r) \/ RecordSuccess(r)
        \/ RestoreBackup(r) \/ RestartBack(r)
\* What goes on besides the requests.
Around == (\E p \in Proposals : Expire(p)) \/ (\E e \in Additions : EditYaml(e)) \/ SecondPasses \/ UNCHANGED applyVars

\* A step of one request leaves the others where they are.
Alike(s) ==
    /\ applyPc'[s] = applyPc[s] /\ inGuest'[s] = inGuest[s] /\ answer'[s] = answer[s] /\ wants'[s] = wants[s]
    /\ stamp'[s] = stamp[s] /\ existed'[s] = existed[s] /\ data'[s] = data[s] /\ prior'[s] = prior[s]
OthersStay(r) == \A s \in Requests : s # r => Alike(s)

LEMMA PostStep ==
  ASSUME ApplyTypeOK, NEW r \in Requests, NEW p \in Proposals, Post(r, p)
  PROVE  /\ OthersStay(r) /\ UNCHANGED <<automations, tmp, backups, running, clock, stamp, inGuest, existed, data, prior>>
         /\ applyPc[r] = "idle" /\ wants'[r] = p
         /\ \/ applyPc'[r] = "recheck" /\ answer'[r] = answer[r]
            \/ applyPc'[r] = "done" /\ answer'[r] = "refused"
BY DEF ApplyTypeOK, OthersStay, Alike, Post, Say, yaml, inGuestVars

LEMMA RecheckStep ==
  ASSUME ApplyTypeOK, NEW r \in Requests, Recheck(r) \/ RecheckBlind(r)
  PROVE  /\ OthersStay(r) /\ UNCHANGED <<automations, tmp, backups, running, clock, wants, existed, data, prior>>
         /\ applyPc[r] = "recheck"
         /\ \/ /\ applyPc'[r] = "script" /\ answer'[r] = answer[r] /\ inGuest'[r] = "backup" /\ stamp'[r] = clock
               /\ ~Conflict(r) \/ RecheckBlind(r)
            \/ applyPc'[r] = "done" /\ answer'[r] = "refused" /\ inGuest'[r] = inGuest[r] /\ stamp'[r] = stamp[r]
BY DEF ApplyTypeOK, OthersStay, Alike, Recheck, RecheckBlind, Launch, Say, yaml, inGuestVars

LEMMA ScriptStep ==
  ASSUME ApplyTypeOK, NEW r \in Requests, ApplyScriptStep(r)
  PROVE  /\ OthersStay(r) /\ UNCHANGED <<running, clock, applyPc, wants, stamp, answer, grants>>
         /\ \/ BackUp(r) /\ inGuest[r] = "backup" /\ inGuest'[r] = "read"
            \/ ReadYaml(r) /\ inGuest[r] = "read" /\ inGuest'[r] \in {"write", "failed"}
            \/ WriteTmp(r) /\ inGuest[r] = "write" /\ inGuest'[r] = "replace"
            \/ ReplaceYaml(r) /\ inGuest[r] = "replace" /\ inGuest'[r] \in {"done", "failed"}
<1>1. OthersStay(r)
  BY DEF ApplyTypeOK, OthersStay, Alike, ApplyScriptStep, BackUp, ReadYaml, WriteTmp, ReplaceYaml, ScriptGoes
<1>2. UNCHANGED <<running, clock, applyPc, wants, stamp, answer, grants>>
  BY DEF ApplyScriptStep, BackUp, ReadYaml, WriteTmp, ReplaceYaml
<1>3. CASE BackUp(r)
  BY <1>1, <1>2, <1>3 DEF ApplyTypeOK, BackUp, ScriptGoes
<1>4. CASE ReadYaml(r)
  BY <1>1, <1>2, <1>4 DEF ApplyTypeOK, ReadYaml, ScriptGoes
<1>5. CASE WriteTmp(r)
  BY <1>1, <1>2, <1>5 DEF ApplyTypeOK, WriteTmp, ScriptGoes
<1>6. CASE ReplaceYaml(r)
  BY <1>1, <1>2, <1>6 DEF ApplyTypeOK, ReplaceYaml, ScriptGoes
<1> QED BY <1>3, <1>4, <1>5, <1>6 DEF ApplyScriptStep

LEMMA AfterStep ==
  ASSUME ApplyTypeOK, NEW r \in Requests, After(r)
  PROVE  /\ OthersStay(r) /\ UNCHANGED <<tmp, backups, inGuest, existed, data, prior, wants, stamp>>
         /\ \/ Meta(r) /\ applyPc[r] = "script" /\ answer'[r] = answer[r] /\ inGuest[r] = "done" /\ applyPc'[r] = "check"
            \/ Meta(r) /\ applyPc[r] = "script" /\ answer'[r] = "error" /\ inGuest[r] = "failed" /\ applyPc'[r] = "done"
            \/ Lost(r) /\ applyPc[r] = "script" /\ answer'[r] = "error" /\ applyPc'[r] = "done"
            \/ CheckConfig(r) /\ applyPc[r] = "check" /\ answer'[r] = answer[r] /\ applyPc'[r] \in {"restart", "restore"}
            \/ RestartCore(r) /\ applyPc[r] = "restart" /\ answer'[r] = answer[r] /\ applyPc'[r] \in {"verify", "restore"}
            \/ VerifyEntry(r) /\ applyPc[r] = "verify" /\ answer'[r] = answer[r] /\ applyPc'[r] \in {"record", "restore"}
            \/ RecordSuccess(r) /\ applyPc[r] = "record" /\ answer'[r] \in {"ok", "error"} /\ applyPc'[r] = "done"
            \/ RestoreBackup(r) /\ applyPc[r] = "restore" /\ answer'[r] = answer[r] /\ applyPc'[r] = "restart back"
            \/ RestoreBackup(r) /\ applyPc[r] = "restore" /\ answer'[r] = "error" /\ applyPc'[r] = "done"
            \/ RestartBack(r) /\ applyPc[r] = "restart back" /\ answer'[r] = "error" /\ applyPc'[r] = "done"
<1> USE DEF ApplyTypeOK, OthersStay, Alike, Say, Proceed, yaml, inGuestVars
<1>1. CASE Meta(r) \/ Lost(r)
  BY <1>1 DEF Meta, Lost
<1>2. CASE CheckConfig(r) \/ RestartCore(r)
  BY <1>2 DEF CheckConfig, RestartCore
<1>3. CASE VerifyEntry(r)
  BY <1>3 DEF VerifyEntry
<1>4. CASE RecordSuccess(r)
  BY <1>4 DEF RecordSuccess
<1>5. CASE RestoreBackup(r) \/ RestartBack(r)
  BY <1>5 DEF RestoreBackup, RestartBack
<1> QED BY <1>1, <1>2, <1>3, <1>4, <1>5 DEF After

LEMMA PostBase ==
  ASSUME ApplyBase, NEW r \in Requests, NEW p \in Proposals, Post(r, p)
  PROVE  ApplyBase'
<1>1. /\ {applyBudget', granted'} \subseteq [ApplyMishaps -> Nat] /\ SpentInv' /\ granted' = granted
  BY SpendingApply, MishapsAre DEF ApplyBase, Post
<1>2. ApplyTypeOK'
  BY <1>1 DEF ApplyBase, ApplyTypeOK, Post, Say, yaml, inGuestVars
<1>3. StampInv' /\ FiledInv'
  BY DEF ApplyBase, StampInv, FiledInv, Filed, Post, yaml
<1>4. PhaseInv'
  <2>1. /\ UNCHANGED inGuest /\ applyPc[r] = "idle" /\ answer[r] = "none" /\ inGuest[r] = "off"
        /\ \A s \in Requests : s # r => applyPc'[s] = applyPc[s] /\ answer'[s] = answer[s]
        /\ \/ applyPc'[r] = "recheck" /\ answer'[r] = answer[r]
           \/ applyPc'[r] = "done" /\ answer'[r] = "refused"
    BY PostStep DEF ApplyBase, PhaseInv, Phase, OthersStay, Alike
  <2> QED BY <2>1 DEF ApplyBase, PhaseInv, Phase
<1> QED BY <1>1, <1>2, <1>3, <1>4 DEF ApplyBase

LEMMA RecheckBase ==
  ASSUME ApplyBase, NEW r \in Requests, Recheck(r) \/ RecheckBlind(r)
  PROVE  ApplyBase'
<1>1. /\ {applyBudget', granted'} \subseteq [ApplyMishaps -> Nat] /\ SpentInv' /\ granted' = granted
  BY SpendingApply, MishapsAre DEF ApplyBase, ApplyTypeOK, Recheck, RecheckBlind, grants, SpentInv
<1>2. ApplyTypeOK'
  <2>1. clock \in 1..Seconds
    BY DEF ApplyBase, ApplyTypeOK
  <2>2. stamp' \in [Requests -> 1..Seconds]
    BY <2>1 DEF ApplyBase, ApplyTypeOK, Recheck, RecheckBlind, Launch
  <2>3. /\ applyPc' \in [Requests -> {"idle", "recheck", "script", "check", "restart", "verify", "record",
                            "restore", "restart back", "done", "dead"}]
        /\ inGuest' \in [Requests -> {"off", "backup", "read", "write", "replace", "done", "failed"}]
        /\ answer' \in [Requests -> {"none", "ok", "refused", "error"}]
    BY DEF ApplyBase, ApplyTypeOK, Recheck, RecheckBlind, Launch, Say
  <2> QED BY <1>1, <2>2, <2>3 DEF ApplyBase, ApplyTypeOK, Recheck, RecheckBlind, yaml
<1>3. StampInv'
  BY ClockIs DEF ApplyBase, ApplyTypeOK, StampInv, Recheck, RecheckBlind, Launch
<1>4. FiledInv'
  BY DEF ApplyBase, FiledInv, Filed, Recheck, RecheckBlind, yaml
<1>5. PhaseInv'
  BY RecheckStep DEF ApplyBase, PhaseInv, Phase, OthersStay, Alike
<1> QED BY <1>1, <1>2, <1>3, <1>4, <1>5 DEF ApplyBase

LEMMA ScriptBase ==
  ASSUME ApplyBase, NEW r \in Requests, ApplyScriptStep(r)
  PROVE  ApplyBase'
<1>1. SpentInv' /\ StampInv'
  BY DEF ApplyBase, SpentInv, StampInv, ApplyScriptStep, BackUp, ReadYaml, WriteTmp, ReplaceYaml, grants
<1>2. /\ WithEntries(automations.entries) \in YamlFiles /\ WithEntries(data[r]) \in YamlFiles /\ NoFile \in YamlFiles
      /\ Appended(r) \in SUBSET Entries /\ {r} \in SUBSET Entries
      /\ Filed(WithEntries(automations.entries)) /\ Filed(WithEntries(data[r])) /\ Filed(NoFile)
  BY DEF ApplyBase, ApplyTypeOK, WithEntries, YamlFiles, NoFile, Appended, Entries, Filed
<1>3. ApplyTypeOK'
  <2>1. CASE BackUp(r)
    BY <2>1, <1>2 DEF ApplyBase, ApplyTypeOK, BackUp, ScriptGoes, grants, YamlFiles
  <2>2. CASE ReadYaml(r)
    BY <2>2, <1>2 DEF ApplyBase, ApplyTypeOK, ReadYaml, ScriptGoes, grants, yaml
  <2>3. CASE WriteTmp(r)
    BY <2>3, <1>2 DEF ApplyBase, ApplyTypeOK, WriteTmp, ScriptGoes, grants
  <2>4. CASE ReplaceYaml(r)
    BY <2>4, <1>2 DEF ApplyBase, ApplyTypeOK, ReplaceYaml, ScriptGoes, grants
  <2> QED BY <2>1, <2>2, <2>3, <2>4 DEF ApplyScriptStep
<1>4. FiledInv'
  BY <1>2 DEF ApplyBase, ApplyTypeOK, FiledInv, ApplyScriptStep, BackUp, ReadYaml, WriteTmp, ReplaceYaml, yaml, Filed
<1>5. PhaseInv'
  BY ScriptStep DEF ApplyBase, PhaseInv, Phase, OthersStay, Alike
<1> QED BY <1>1, <1>3, <1>4, <1>5 DEF ApplyBase

LEMMA AfterBase ==
  ASSUME ApplyBase, NEW r \in Requests, After(r)
  PROVE  ApplyBase'
<1>1. /\ {applyBudget', granted'} \subseteq [ApplyMishaps -> Nat] /\ SpentInv' /\ granted' = granted
  <2>1. UNCHANGED grants \/ \E m \in ApplyMishaps : SpendApply(m)
    BY MishapsAre DEF After, Meta, Lost, CheckConfig, RestartCore, VerifyEntry, RecordSuccess, RestoreBackup, RestartBack
  <2> QED BY <2>1, SpendingApply DEF ApplyBase, ApplyTypeOK, SpentInv, grants
<1>2. clock' = clock \/ Tick
  BY DEF After, Meta, Lost, CheckConfig, RestartCore, VerifyEntry, RecordSuccess, RestoreBackup, RestartBack
<1>3. clock' \in 1..Seconds /\ StampInv'
  BY <1>2, TicksApply DEF ApplyBase, ApplyTypeOK, StampInv, After, Meta, Lost, CheckConfig, RestartCore, VerifyEntry, RecordSuccess, RestoreBackup, RestartBack
<1>4. FromBackup(r) \in YamlFiles /\ Filed(FromBackup(r)) /\ automations.entries \subseteq Entries
  BY DEF ApplyBase, ApplyTypeOK, FiledInv, FromBackup, NoFile, YamlFiles, Filed
<1>5. /\ applyPc' \in [Requests -> {"idle", "recheck", "script", "check", "restart", "verify", "record",
                            "restore", "restart back", "done", "dead"}]
      /\ answer' \in [Requests -> {"none", "ok", "refused", "error"}]
  BY DEF ApplyBase, ApplyTypeOK, After, Meta, Lost, CheckConfig, RestartCore, VerifyEntry, RecordSuccess, RestoreBackup, RestartBack, Say, Proceed
<1>6. /\ present' \subseteq Proposals /\ running' \subseteq Entries /\ automations' \in YamlFiles
      /\ UNCHANGED <<tmp, backups, inGuestVars, wants, stamp>>
  BY <1>4 DEF ApplyBase, ApplyTypeOK, After, Meta, Lost, CheckConfig, RestartCore, VerifyEntry, RecordSuccess, RestoreBackup, RestartBack, yaml
<1>7. ApplyTypeOK'
  BY <1>1, <1>3, <1>5, <1>6 DEF ApplyBase, ApplyTypeOK, inGuestVars
<1>8. FiledInv'
  BY <1>4, <1>6 DEF ApplyBase, FiledInv, Filed, After, Meta, Lost, CheckConfig, RestartCore, VerifyEntry, RecordSuccess, RestoreBackup, RestartBack, yaml
<1>9. PhaseInv'
  BY AfterStep DEF ApplyBase, PhaseInv, Phase, OthersStay, Alike
<1> QED BY <1>1, <1>3, <1>7, <1>8, <1>9 DEF ApplyBase

LEMMA AroundBase ==
  ASSUME ApplyBase, Around
  PROVE  ApplyBase'
<1>1. UNCHANGED <<tmp, backups, inGuestVars, applyPc, wants, stamp, answer, grants>>
  BY DEF Around, Expire, EditYaml, SecondPasses, applyVars, yaml, grants
<1>2. clock' \in 1..Seconds /\ StampInv'
  BY TicksApply DEF ApplyBase, ApplyTypeOK, StampInv, Around, Expire, EditYaml, SecondPasses, applyVars
<1>3. automations' = automations \/ \E e \in Additions : automations' = WithEntries(automations.entries \cup {e})
  BY DEF Around, Expire, EditYaml, SecondPasses, applyVars, yaml
<1>4. automations' \in YamlFiles /\ Filed(automations')
  <2>1. automations \in YamlFiles /\ Filed(automations)
    BY DEF ApplyBase, ApplyTypeOK, FiledInv
  <2>2. \A e \in Additions : WithEntries(automations.entries \cup {e}) \in YamlFiles /\ Filed(WithEntries(automations.entries \cup {e}))
    BY <2>1 DEF YamlFiles, WithEntries, Entries, Filed
  <2> QED BY <1>3, <2>1, <2>2
<1>5. present' \subseteq Proposals /\ running' \subseteq Entries
  BY <1>4 DEF ApplyBase, ApplyTypeOK, YamlFiles, Around, Expire, EditYaml, SecondPasses, applyVars
<1>6. ApplyTypeOK'
  BY <1>1, <1>2, <1>4, <1>5 DEF ApplyBase, ApplyTypeOK, inGuestVars, grants
<1>7. SpentInv' /\ PhaseInv' /\ FiledInv'
  BY <1>1, <1>4 DEF ApplyBase, SpentInv, PhaseInv, Phase, FiledInv, inGuestVars, grants, Filed
<1> QED BY <1>2, <1>6, <1>7 DEF ApplyBase

LEMMA ServiceDiesBase ==
  ASSUME ApplyBase, ServiceDies
  PROVE  ApplyBase'
<1>1. /\ {applyBudget', granted'} \subseteq [ApplyMishaps -> Nat] /\ SpentInv'
  BY SpendingApply, MishapsAre DEF ApplyBase, ServiceDies
<1>2. clock' \in 1..Seconds /\ StampInv'
  BY TicksApply DEF ApplyBase, ApplyTypeOK, StampInv, ServiceDies
<1>3. ApplyTypeOK'
  BY <1>1, <1>2 DEF ApplyBase, ApplyTypeOK, ServiceDies, yaml, inGuestVars
<1>4. FiledInv'
  BY DEF ApplyBase, FiledInv, Filed, ServiceDies, yaml
<1>5. PhaseInv'
  BY DEF ApplyBase, ApplyTypeOK, PhaseInv, Phase, ServiceDies, Served, inGuestVars
<1> QED BY <1>1, <1>2, <1>3, <1>4, <1>5 DEF ApplyBase

-----------------------------------------------------------------------------
(* One request at a time.                                                  *)

LEMMA NoneServed ==
  ASSUME Concurrency = 1, NEW r \in Requests, NEW p \in Proposals, Post(r, p)
  PROVE  Served = {}
<1>1. Served \in SUBSET Requests /\ IsFiniteSet(Requests)
  BY ApplyAssumption DEF Served
<1>2. IsFiniteSet(Served)
  BY <1>1, FS_Subset
<1>3. Cardinality(Served) \in Nat /\ Cardinality(Served) < 1
  BY <1>2, FS_CardinalityType DEF Post
<1> QED BY <1>2, <1>3, FS_EmptySet

LEMMA ByOneInit == ApplyInit => ByOneInv
BY DEF ApplyInit, ByOneInv, OneInv, Served, Past, BackedUp, StampsApart

LEMMA PostByOne ==
  ASSUME ApplyBase, ByOneInv, Concurrency = 1, NEW r \in Requests, NEW p \in Proposals, Post(r, p)
  PROVE  ByOneInv'
<1>1. ApplyTypeOK /\ PhaseInv
  BY DEF ApplyBase
<1>2. Served' \subseteq {r}
  BY <1>1, PostStep, NoneServed DEF Served, OthersStay, Alike
<1>3. OneInv'
  BY <1>2 DEF OneInv
<1>4. /\ UNCHANGED <<stamp, inGuest, backups, prior, clock>> /\ inGuest[r] = "off"
      /\ \A s \in Requests : s # r => applyPc'[s] = applyPc[s] /\ answer'[s] = answer[s]
  BY <1>1, PostStep DEF OthersStay, Alike, PhaseInv, Phase
<1>5. ASSUME NEW s \in Requests PROVE Past(s)' /\ BackedUp(s)'
  BY <1>4 DEF ByOneInv, Past, BackedUp
<1>6. ASSUME NEW s \in Requests, NEW t \in Requests PROVE StampsApart(s, t)'
  BY <1>4 DEF ByOneInv, StampsApart
<1> QED BY <1>3, <1>5, <1>6 DEF ByOneInv

LEMMA RecheckByOne ==
  ASSUME ApplyBase, ByOneInv, Concurrency = 1, NEW r \in Requests, Recheck(r) \/ RecheckBlind(r)
  PROVE  ByOneInv'
<1>1. ApplyTypeOK /\ PhaseInv /\ clock \in Nat /\ \A s \in Requests : stamp[s] \in Nat
  BY ClockIs DEF ApplyBase
<1>2. r \in Served /\ Served' \subseteq Served
  BY <1>1, RecheckStep DEF Served, OthersStay, Alike
<1>3. OneInv'
  BY <1>2 DEF OneInv, ByOneInv
<1>4. \A s \in Requests : Past(s)' /\ BackedUp(s)'
  BY <1>1, RecheckStep DEF ByOneInv, Past, BackedUp, OthersStay, Alike, PhaseInv, Phase
<1>5. \A s \in Requests : s # r => applyPc[s] \in {"idle", "done", "dead"}
  BY <1>2 DEF ByOneInv, OneInv, Served
<1>6. ASSUME NEW s \in Requests, NEW t \in Requests PROVE StampsApart(s, t)'
  <2>1. CASE s # r /\ t # r
    BY <2>1, <1>1, RecheckStep DEF ByOneInv, StampsApart, OthersStay, Alike
  <2>2. CASE s = r /\ t # r
    <3>1. inGuest[t] = "backup" => stamp[t] < clock
      BY <2>2, <1>1, <1>5 DEF ByOneInv, Past, PhaseInv, Phase
    <3>2. /\ stamp'[t] = stamp[t] /\ inGuest'[t] = inGuest[t]
          /\ stamp'[r] = clock \/ answer'[r] = "refused"
      BY <2>2, <1>1, RecheckStep DEF OthersStay, Alike
    <3>3. clock \in Nat /\ stamp[t] \in Nat
      BY <1>1
    <3> QED BY <2>2, <3>1, <3>2, <3>3 DEF StampsApart
  <2>3. CASE s # r /\ t = r
    <3>1. inGuest[s] # "off" /\ answer[s] = "none" => stamp[s] < clock
      BY <2>3, <1>1, <1>5 DEF ByOneInv, Past, PhaseInv, Phase
    <3>2. /\ stamp'[s] = stamp[s] /\ inGuest'[s] = inGuest[s] /\ answer'[s] = answer[s]
          /\ stamp'[r] = clock \/ inGuest'[r] = "off"
      BY <2>3, <1>1, RecheckStep DEF OthersStay, Alike, PhaseInv, Phase
    <3>3. clock \in Nat /\ stamp[s] \in Nat
      BY <1>1
    <3> QED BY <2>3, <3>1, <3>2, <3>3 DEF StampsApart
  <2>4. CASE s = t
    BY <2>4 DEF StampsApart
  <2> QED BY <2>1, <2>2, <2>3, <2>4
<1> QED BY <1>3, <1>4, <1>6 DEF ByOneInv

LEMMA ScriptByOne ==
  ASSUME ApplyBase, ByOneInv, Concurrency = 1, NEW r \in Requests, ApplyScriptStep(r)
  PROVE  ByOneInv'
<1>1. ApplyTypeOK /\ PhaseInv
  BY DEF ApplyBase
<1>2. Served' = Served
  BY <1>1, ScriptStep DEF Served
<1>3. OneInv'
  BY <1>2 DEF OneInv, ByOneInv
<1>4. \A s \in Requests : Past(s)'
  BY <1>1, ScriptStep DEF ByOneInv, Past, OthersStay, Alike
<1>5. \A s, t \in Requests : StampsApart(s, t)'
  BY <1>1, ScriptStep DEF ByOneInv, StampsApart, OthersStay, Alike
<1>6. ASSUME NEW s \in Requests PROVE BackedUp(s)'
  <2>1. CASE BackUp(r)
    <3>1. /\ stamp[r] \in 1..Seconds /\ stamp[s] \in 1..Seconds /\ backups \in [1..Seconds -> YamlFiles]
          /\ backups' = [backups EXCEPT ![stamp[r]] = WithEntries(automations.entries)]
          /\ prior' = [prior EXCEPT ![r] = automations] /\ prior \in [Requests -> YamlFiles]
      BY <2>1, <1>1 DEF ApplyTypeOK, BackUp
    <3>2. inGuest[r] = "backup"
      BY <2>1 DEF BackUp, ScriptGoes
    <3>3. CASE s = r
      <4>1. backups'[stamp[r]].entries = automations.entries /\ prior'[r].entries = automations.entries
        BY <3>1 DEF WithEntries
      <4> QED BY <3>3, <4>1, <1>1, ScriptStep DEF BackedUp
    <3>4. CASE s # r
      <4>1. inGuest[s] # "off" /\ answer[s] = "none" => stamp[s] # stamp[r]
        BY <3>2, <3>4 DEF ByOneInv, StampsApart
      <4>2. inGuest[s] # "off" /\ answer[s] = "none" => backups'[stamp[s]] = backups[stamp[s]]
        BY <3>1, <4>1
      <4> QED BY <3>4, <4>2, <1>1, ScriptStep DEF ByOneInv, BackedUp, OthersStay, Alike
    <3> QED BY <3>3, <3>4
  <2>2. CASE ~BackUp(r)
    <3>1. backups' = backups /\ prior' = prior /\ inGuest[r] \notin {"off", "backup"}
      BY <2>2, <1>1, ScriptStep DEF ReadYaml, WriteTmp, ReplaceYaml, yaml
    <3> QED BY <3>1, <1>1, ScriptStep DEF ByOneInv, BackedUp, OthersStay, Alike
  <2> QED BY <2>1, <2>2
<1> QED BY <1>3, <1>4, <1>5, <1>6 DEF ByOneInv

LEMMA AfterByOne ==
  ASSUME ApplyBase, ByOneInv, Concurrency = 1, NEW r \in Requests, After(r)
  PROVE  ByOneInv'
<1>1. /\ ApplyTypeOK /\ PhaseInv /\ clock \in Nat
      /\ \A s \in Requests : stamp[s] \in Nat /\ stamp[s] <= clock
  BY ClockIs DEF ApplyBase, StampInv
<1>2. Served' \subseteq Served
  BY <1>1, AfterStep DEF Served, OthersStay, Alike
<1>3. OneInv'
  BY <1>2 DEF OneInv, ByOneInv
<1>4. (clock' = clock /\ ~Lost(r)) \/ (Lost(r) /\ clock' = clock + 1)
  BY DEF After, Meta, Lost, CheckConfig, RestartCore, VerifyEntry, RecordSuccess, RestoreBackup, RestartBack, Tick
<1>5. \A s \in Requests : stamp'[s] = stamp[s] /\ inGuest'[s] = inGuest[s]
  BY <1>1, AfterStep
<1>6. \A s \in Requests : Past(s)'
  <2>1. CASE Lost(r)
    BY <2>1, <1>1, <1>4, <1>5 DEF Past
  <2>2. CASE ~Lost(r)
    BY <2>2, <1>1, <1>4, <1>5, AfterStep DEF ByOneInv, Past, OthersStay, Alike, PhaseInv, Phase
  <2> QED BY <2>1, <2>2
<1>7. \A s \in Requests : BackedUp(s)'
  BY <1>1, AfterStep DEF ByOneInv, BackedUp, OthersStay, Alike
<1>8. ASSUME NEW s \in Requests, NEW t \in Requests PROVE StampsApart(s, t)'
  <2>1. answer'[s] = "none" => answer[s] = "none"
    BY <1>1, AfterStep DEF OthersStay, Alike
  <2> QED BY <1>5, <2>1 DEF ByOneInv, StampsApart
<1> QED BY <1>3, <1>6, <1>7, <1>8 DEF ByOneInv

LEMMA AroundByOne ==
  ASSUME ApplyBase, ByOneInv, Around
  PROVE  ByOneInv'
<1>1. /\ clock \in Nat /\ \A s \in Requests : stamp[s] \in Nat
  BY ClockIs DEF ApplyBase
<1>2. UNCHANGED <<tmp, backups, inGuestVars, applyPc, wants, stamp, answer, grants>>
  BY DEF Around, Expire, EditYaml, SecondPasses, applyVars, yaml, grants
<1>3. clock' = clock \/ clock' = clock + 1
  BY DEF Around, Expire, EditYaml, SecondPasses, applyVars, Tick
<1>4. \A s \in Requests : stamp[s] < clock => stamp[s] < clock'
  BY <1>1, <1>3
<1> QED BY <1>2, <1>4 DEF ByOneInv, OneInv, Served, Past, BackedUp, StampsApart, inGuestVars

LEMMA ServiceDiesByOne ==
  ASSUME ApplyBase, ByOneInv, ServiceDies
  PROVE  ByOneInv'
<1>1. clock \in Nat /\ clock' = clock + 1 /\ \A s \in Requests : stamp[s] \in Nat /\ stamp[s] <= clock
  BY ClockIs DEF ApplyBase, StampInv, ServiceDies, Tick
<1>2. \A s \in Requests : stamp[s] < clock'
  BY <1>1
<1>3. Served' = {}
  BY DEF ApplyBase, ApplyTypeOK, ServiceDies, Served
<1> QED BY <1>2, <1>3 DEF ServiceDies, ByOneInv, OneInv, Past, BackedUp, StampsApart, yaml, inGuestVars

-----------------------------------------------------------------------------
(* In time: what was applied is kept.                                      *)

ByInTime == ApplyBase /\ ByOneInv /\ InTimeInv

\* The other requests are answered, or have not been posted.
LEMMA OnlyOne ==
  ASSUME ByInTime, InTime, NEW r \in Served, NEW s \in Requests, s # r
  PROVE  applyPc[s] \in {"idle", "done"} /\ ~Working(s) /\ ~Holding(s) /\ ~HasBackup(s)
<1>1. Concurrency = 1 /\ PhaseInv /\ applyPc[s] # "dead" /\ (Working(s) => applyPc[s] = "script")
  BY DEF ByInTime, InTime, InTimeInv, Waited, ApplyBase
<1>2. s \notin Served
  BY <1>1 DEF ByInTime, ByOneInv, OneInv
<1> QED BY <1>1, <1>2 DEF Served, HasBackup, Holding, Working

\* They keep what they have if the files do.
LEMMA OthersKeep ==
  ASSUME ByInTime, InTime, NEW r \in Served, OthersStay(r), NEW s \in Requests, s # r,
         answer[s] = "ok" => s \in automations'.entries \cap running',
         inGuest[s] # "done" => s \notin automations'.entries /\ \A n \in 1..Seconds : s \notin backups'[n].entries
  PROVE  Waited(s)' /\ KeepsAll(s)'
<1>1. applyPc[s] \in {"idle", "done"} /\ ~Working(s) /\ inGuest[s] # "failed"
  BY OnlyOne DEF ByInTime, InTimeInv, Waited
<1>2. applyPc'[s] = applyPc[s] /\ inGuest'[s] = inGuest[s] /\ answer'[s] = answer[s]
  BY DEF OthersStay, Alike
<1>3. Waited(s)'
  BY <1>1, <1>2 DEF Waited, Working
<1>4. ~HasBackup(s)' /\ ~Holding(s)'
  BY <1>1, <1>2 DEF HasBackup, Served, Holding, Working
<1> QED BY <1>1, <1>2, <1>3, <1>4 DEF KeepsAll

LEMMA FromBackupStays ==
  ASSUME NEW r, existed'[r] = existed[r], stamp'[r] = stamp[r], backups' = backups
  PROVE  FromBackup(r)' = FromBackup(r)
BY DEF FromBackup

LEMMA BackUpGives ==
  ASSUME ApplyBase, NEW r \in Requests, BackUp(r)
  PROVE  /\ FromBackup(r)'.entries = automations.entries /\ (existed'[r] <=> automations.there)
         /\ \A n \in 1..Seconds : backups'[n].entries \in {backups[n].entries, automations.entries}
         /\ UNCHANGED <<automations, tmp, data>> /\ inGuest[r] = "backup" /\ inGuest'[r] = "read"
<1>1. /\ stamp[r] \in 1..Seconds /\ backups \in [1..Seconds -> YamlFiles] /\ stamp' = stamp
      /\ backups' = [backups EXCEPT ![stamp[r]] = WithEntries(automations.entries)]
      /\ existed' = [existed EXCEPT ![r] = automations.there] /\ existed \in [Requests -> BOOLEAN]
      /\ UNCHANGED <<automations, tmp, data>> /\ inGuest[r] = "backup" /\ inGuest'[r] = "read"
  BY DEF ApplyBase, ApplyTypeOK, BackUp, ScriptGoes
<1>2. existed'[r] <=> automations.there
  BY <1>1
<1>3. \A n \in 1..Seconds : backups'[n] = IF n = stamp[r] THEN WithEntries(automations.entries) ELSE backups[n]
  BY <1>1
<1>4. WithEntries(automations.entries).entries = automations.entries /\ NoFile.entries = {}
  BY DEF WithEntries, NoFile
<1>5. automations.there \/ automations.entries = {}
  BY DEF ApplyBase, FiledInv, Filed
<1>6. FromBackup(r)'.entries = automations.entries
  BY <1>1, <1>2, <1>3, <1>4, <1>5 DEF FromBackup
<1> QED BY <1>1, <1>2, <1>3, <1>4, <1>6

LEMMA ReadGives ==
  ASSUME ByInTime, InTime, NEW r \in Requests, ReadYaml(r)
  PROVE  /\ inGuest[r] = "read" /\ inGuest'[r] = "write" /\ UNCHANGED <<automations, tmp, backups, existed>>
         /\ data'[r] = IF existed[r] THEN Appended(r) ELSE {r}
<1>1. ApplyTypeOK /\ (inGuest[r] = "read" /\ existed[r] => automations.there)
  BY DEF ByInTime, ApplyBase, InTimeInv, Waited
<1> QED BY <1>1 DEF ApplyTypeOK, ReadYaml, ScriptGoes, yaml

LEMMA ReplaceGives ==
  ASSUME ByInTime, InTime, NEW r \in Requests, ReplaceYaml(r)
  PROVE  /\ inGuest[r] = "replace" /\ inGuest'[r] = "done" /\ UNCHANGED <<backups, existed, data>>
         /\ automations'.there /\ automations'.entries = data[r]
<1>1. inGuest[r] = "replace" /\ ApplyTypeOK
  BY DEF ByInTime, ApplyBase, ReplaceYaml, ScriptGoes
<1>2. tmp = WithEntries(data[r])
  BY <1>1 DEF ByInTime, InTimeInv, Waited
<1>3. tmp.there /\ tmp.entries = data[r]
  BY <1>2 DEF WithEntries
<1> QED BY <1>1, <1>3 DEF ApplyTypeOK, ReplaceYaml, ScriptGoes

\* Whoever goes on after its script has had it done.
LEMMA ScriptDone ==
  ASSUME ByInTime, InTime, NEW r \in Requests, After(r)
  PROVE  /\ r \in Served /\ inGuest[r] = "done" /\ inGuest'[r] = "done" /\ ~Lost(r) /\ answer[r] = "none"
         /\ applyPc[r] = "script" => applyPc'[r] = "check"
<1>1. ApplyTypeOK /\ SpentInv /\ PhaseInv /\ inGuest[r] # "failed" /\ granted["lost"] = 0
  BY DEF ByInTime, ApplyBase, InTimeInv, Waited, InTime
<1>2. ~Lost(r)
  <2>1. SpendApply("lost") => granted["lost"] # 0
    BY <1>1, SpendingApply, MishapsAre
  <2> QED BY <1>1, <2>1 DEF Lost
<1> QED BY <1>1, <1>2, AfterStep DEF Served, PhaseInv, Phase

LEMMA InTimeInit == ApplyInit => InTimeInv
<1> SUFFICES ASSUME ApplyInit PROVE InTimeInv
  OBVIOUS
<1>1. automations.entries = {} /\ \A n \in 1..Seconds : backups[n].entries = {}
  BY DEF ApplyInit, NoFile, WithEntries
<1> QED BY <1>1 DEF ApplyInit, InTimeInv, Waited, Working, KeepsAll, HasBackup, Holding, Served

LEMMA PostInTime ==
  ASSUME ByInTime, NEW r \in Requests, NEW p \in Proposals, Post(r, p)
  PROVE  InTimeInv'
<1> SUFFICES ASSUME InTime PROVE \A s \in Requests : Waited(s)' /\ KeepsAll(s)'
  BY DEF InTimeInv, InTime, Post, SpendApply
<1>1. ApplyTypeOK /\ PhaseInv /\ Concurrency = 1
  BY DEF ByInTime, ApplyBase, InTime
<1>2. /\ UNCHANGED <<automations, tmp, backups, running, stamp, inGuest, existed, data>> /\ inGuest[r] = "off"
      /\ \A s \in Requests : s # r => applyPc'[s] = applyPc[s] /\ answer'[s] = answer[s]
      /\ applyPc'[r] \in {"recheck", "done"} /\ answer'[r] # "ok"
  BY <1>1, PostStep DEF OthersStay, Alike, PhaseInv, Phase
<1>3. \A s \in Requests : applyPc[s] \in {"idle", "done", "dead"}
  BY <1>1, NoneServed DEF Served
<1>4. \A s \in Requests : ~Working(s) /\ ~Holding(s)
  BY <1>3 DEF ByInTime, InTimeInv, Waited, Working, Holding
<1>5. ASSUME NEW s \in Requests PROVE Waited(s)'
  BY <1>2, <1>4 DEF ByInTime, InTimeInv, Waited, Working
<1>6. ASSUME NEW s \in Requests PROVE KeepsAll(s)'
  <2>1. ~HasBackup(s)' /\ ~Holding(s)'
    BY <1>2, <1>3, <1>4 DEF HasBackup, Served, Holding
  <2>2. applyPc'[s] \notin {"verify", "record"} /\ (answer'[s] = "ok" => answer[s] = "ok")
    BY <1>2, <1>3
  <2> QED BY <1>2, <2>1, <2>2 DEF ByInTime, InTimeInv, KeepsAll
<1> QED BY <1>5, <1>6

LEMMA RecheckInTime ==
  ASSUME ByInTime, NEW r \in Requests, Recheck(r) \/ RecheckBlind(r)
  PROVE  InTimeInv'
<1> SUFFICES ASSUME InTime PROVE \A s \in Requests : Waited(s)' /\ KeepsAll(s)'
  BY DEF InTimeInv, InTime, Recheck, RecheckBlind, SpendApply, grants
<1>1. ApplyTypeOK /\ PhaseInv /\ Waited(r) /\ \A s \in Requests : KeepsAll(s)
  BY DEF ByInTime, ApplyBase, InTimeInv
<1>2. /\ OthersStay(r) /\ UNCHANGED <<automations, backups, running>> /\ r \in Served /\ inGuest[r] = "off"
      /\ \/ applyPc'[r] = "script" /\ inGuest'[r] = "backup" /\ answer'[r] = "none"
         \/ applyPc'[r] = "done" /\ inGuest'[r] = "off" /\ answer'[r] = "refused"
  BY <1>1, RecheckStep DEF Served, PhaseInv, Phase
<1>3. Waited(r)'
  BY <1>2 DEF Waited, Working
<1>4. KeepsAll(r)'
  BY <1>1, <1>2 DEF KeepsAll, HasBackup, Holding
<1>5. \A s \in Requests : s # r => Waited(s)' /\ KeepsAll(s)'
  BY <1>1, <1>2, OthersKeep DEF KeepsAll
<1> QED BY <1>3, <1>4, <1>5

LEMMA KeptIs == \A s : s \in Kept <=> s \in Requests /\ answer[s] = "ok"
BY DEF Kept

LEMMA ScriptInTime ==
  ASSUME ByInTime, NEW r \in Requests, ApplyScriptStep(r)
  PROVE  InTimeInv'
<1>0. ApplyTypeOK
  BY DEF ByInTime, ApplyBase
<1>1. /\ OthersStay(r) /\ UNCHANGED <<running, applyPc, stamp, answer, granted>> /\ Working(r)
  BY <1>0, ScriptStep DEF grants, Working
<1> SUFFICES ASSUME InTime PROVE \A s \in Requests : Waited(s)' /\ KeepsAll(s)'
  BY <1>1 DEF InTimeInv, InTime
<1>2. /\ PhaseInv /\ applyPc[r] = "script" /\ r \in Served /\ answer[r] = "none"
      /\ Waited(r) /\ \A s \in Requests : KeepsAll(s)
  BY <1>1 DEF ByInTime, ApplyBase, InTimeInv, Waited, Served, PhaseInv, Phase
<1>3. Kept \subseteq automations.entries \cap running /\ Kept' = Kept /\ r \notin Kept
  BY <1>1, <1>2 DEF Kept, KeepsAll
<1>4. CASE BackUp(r)
  <2>1. /\ FromBackup(r)'.entries = automations.entries /\ (existed'[r] <=> automations.there)
        /\ \A n \in 1..Seconds : backups'[n].entries \in {backups[n].entries, automations.entries}
        /\ UNCHANGED <<automations, tmp, data>> /\ inGuest[r] = "backup" /\ inGuest'[r] = "read"
    BY <1>4, BackUpGives DEF ByInTime
  <2>2. \A s \in Requests : inGuest[s] # "done" => s \notin automations.entries /\ \A n \in 1..Seconds : s \notin backups'[n].entries
    BY <1>2, <2>1 DEF KeepsAll
  <2>3. Waited(r)'
    <3>1. applyPc'[r] = "script" /\ inGuest'[r] = "read" /\ (existed'[r] => automations'.there)
      BY <1>1, <1>2, <2>1
    <3> QED BY <3>1 DEF Waited
  <2>4. KeepsAll(r)'
    <3>1. Kept' \subseteq FromBackup(r)'.entries /\ inGuest'[r] = "read" /\ answer'[r] = "none" /\ applyPc'[r] = "script"
      BY <1>1, <1>2, <1>3, <2>1
    <3>2. r \notin automations'.entries /\ \A n \in 1..Seconds : r \notin backups'[n].entries
      BY <2>1, <2>2
    <3> QED BY <3>1, <3>2 DEF KeepsAll, Holding
  <2>5. \A s \in Requests : s # r => Waited(s)' /\ KeepsAll(s)'
    BY <1>1, <1>2, <2>1, <2>2, OthersKeep DEF KeepsAll
  <2> QED BY <2>3, <2>4, <2>5
<1>5. CASE ReadYaml(r)
  <2>1. /\ inGuest[r] = "read" /\ inGuest'[r] = "write" /\ UNCHANGED <<automations, tmp, backups, existed>>
        /\ data'[r] = IF existed[r] THEN Appended(r) ELSE {r}
    BY <1>5, ReadGives
  <2>2. HasBackup(r) /\ FromBackup(r)' = FromBackup(r)
    BY <1>1, <1>2, <2>1, FromBackupStays DEF HasBackup
  <2>3. ~existed[r] => Kept = {}
    BY <1>2, <2>2 DEF KeepsAll, FromBackup, NoFile
  <2>4. Kept \subseteq data'[r]
    BY <1>3, <2>1, <2>3 DEF Appended
  <2>5. \A s \in data'[r] \cap Requests : s = r \/ inGuest'[s] = "done"
    BY <1>1, <1>2, <2>1 DEF Appended, KeepsAll, OthersStay, Alike
  <2>6. Waited(r)'
    BY <1>1, <1>2, <2>1 DEF Waited, Working
  <2>7. KeepsAll(r)'
    BY <1>1, <1>2, <1>3, <2>1, <2>2, <2>4, <2>5 DEF KeepsAll
  <2>8. \A s \in Requests : s # r => Waited(s)' /\ KeepsAll(s)'
    BY <1>1, <1>2, <2>1, OthersKeep DEF KeepsAll
  <2> QED BY <2>6, <2>7, <2>8
<1>6. CASE WriteTmp(r)
  <2>1. /\ inGuest[r] = "write" /\ inGuest'[r] = "replace" /\ UNCHANGED <<automations, backups, existed, data>>
        /\ tmp' = WithEntries(data[r])
    BY <1>0, <1>6 DEF ApplyTypeOK, WriteTmp, ScriptGoes
  <2>2. HasBackup(r) /\ Holding(r) /\ FromBackup(r)' = FromBackup(r)
    BY <1>1, <1>2, <2>1, FromBackupStays DEF HasBackup, Holding
  <2>3. Waited(r)'
    BY <1>1, <1>2, <2>1 DEF Waited, Working
  <2>4. \A s \in data[r] \cap Requests : s = r \/ inGuest'[s] = "done"
    BY <1>1, <1>2, <2>2 DEF KeepsAll, OthersStay, Alike
  <2>5. KeepsAll(r)'
    BY <1>1, <1>2, <1>3, <2>1, <2>2, <2>4 DEF KeepsAll
  <2>6. \A s \in Requests : s # r => Waited(s)' /\ KeepsAll(s)'
    BY <1>1, <1>2, <2>1, OthersKeep DEF KeepsAll
  <2> QED BY <2>3, <2>5, <2>6
<1>7. CASE ReplaceYaml(r)
  <2>1. /\ inGuest[r] = "replace" /\ inGuest'[r] = "done" /\ UNCHANGED <<backups, existed, data>>
        /\ automations'.there /\ automations'.entries = data[r]
    BY <1>7, ReplaceGives
  <2>2. HasBackup(r) /\ Holding(r) /\ FromBackup(r)' = FromBackup(r)
    BY <1>1, <1>2, <2>1, FromBackupStays DEF HasBackup, Holding
  <2>3. Waited(r)'
    BY <1>1, <1>2, <2>1 DEF Waited, Working
  <2>4. Kept \subseteq data[r] /\ \A s \in data[r] \cap Requests : s = r \/ inGuest[s] = "done"
    BY <1>2, <2>2 DEF KeepsAll
  <2>5. KeepsAll(r)'
    BY <1>1, <1>2, <1>3, <2>1, <2>2 DEF KeepsAll, Holding
  <2>6. \A s \in Requests : s # r => Waited(s)' /\ KeepsAll(s)'
    BY <1>1, <1>2, <1>3, <2>1, <2>4, OthersKeep, KeptIs DEF KeepsAll
  <2> QED BY <2>3, <2>5, <2>6
<1> QED BY <1>4, <1>5, <1>6, <1>7 DEF ApplyScriptStep

\* After the script, the file can only become the backup, and what runs the file.
LEMMA AfterFiles ==
  ASSUME NEW r \in Requests, After(r)
  PROVE  automations' \in {automations, FromBackup(r)} /\ running' \in {running, automations.entries}
BY DEF After, Meta, Lost, CheckConfig, RestartCore, VerifyEntry, RecordSuccess, RestoreBackup, RestartBack, yaml

LEMMA AfterInTime ==
  ASSUME ByInTime, NEW r \in Requests, After(r)
  PROVE  InTimeInv'
<1>0. granted' = granted
  BY DEF After, Meta, Lost, CheckConfig, RestartCore, VerifyEntry, RecordSuccess, RestoreBackup, RestartBack, SpendApply, grants
<1> SUFFICES ASSUME InTime PROVE \A s \in Requests : Waited(s)' /\ KeepsAll(s)'
  BY <1>0 DEF InTimeInv, InTime
<1>1. /\ ApplyTypeOK /\ PhaseInv /\ \A s \in Requests : KeepsAll(s)
  BY DEF ByInTime, ApplyBase, InTimeInv
<1>2. /\ r \in Served /\ inGuest[r] = "done" /\ inGuest'[r] = "done" /\ ~Lost(r) /\ answer[r] = "none"
      /\ applyPc[r] = "script" => applyPc'[r] = "check"
  BY ScriptDone
<1>3. /\ OthersStay(r) /\ UNCHANGED <<backups, existed, stamp>> /\ applyPc'[r] # "dead"
      /\ applyPc'[r] # "done" => answer'[r] = answer[r]
      /\ applyPc'[r] = "verify" => RestartCore(r)
      /\ applyPc'[r] = "record" => VerifyEntry(r) /\ applyPc[r] = "verify"
      /\ answer'[r] = "ok" => RecordSuccess(r) /\ applyPc[r] = "record"
  BY <1>1, <1>2, AfterStep
<1>4. HasBackup(r) /\ FromBackup(r)' = FromBackup(r)
  BY <1>2, <1>3, FromBackupStays DEF HasBackup
<1>5. Kept \subseteq automations.entries \cap running /\ Kept \subseteq FromBackup(r).entries
  BY <1>1, <1>4 DEF Kept, KeepsAll
<1>6. automations' \in {automations, FromBackup(r)} /\ running' \in {running, automations.entries}
  BY AfterFiles
<1>7. Kept \subseteq automations'.entries \cap running'
  BY <1>5, <1>6
<1>8. \A s \in Requests : inGuest[s] # "done" => s \notin automations'.entries /\ \A n \in 1..Seconds : s \notin backups'[n].entries
  <2>1. SUFFICES ASSUME NEW s \in Requests, inGuest[s] # "done"
                 PROVE  s \notin automations'.entries /\ \A n \in 1..Seconds : s \notin backups[n].entries
    BY <1>3
  <2>2. s \notin automations.entries /\ \A n \in 1..Seconds : s \notin backups[n].entries
    BY <1>1, <2>1 DEF KeepsAll
  <2>3. stamp[r] \in 1..Seconds
    BY <1>1 DEF ApplyTypeOK
  <2>4. s \notin FromBackup(r).entries
    BY <2>2, <2>3 DEF FromBackup, NoFile
  <2> QED BY <1>6, <2>2, <2>4
<1>9. \A s \in Requests : s # r => Waited(s)' /\ KeepsAll(s)'
  BY <1>2, <1>3, <1>7, <1>8, OthersKeep, KeptIs
<1>10. Waited(r)'
  BY <1>2, <1>3 DEF Waited, Working
<1>11. applyPc'[r] \in {"verify", "record"} => running' = automations'.entries
  <2>1. CASE applyPc'[r] = "verify"
    BY <2>1, <1>1, <1>3 DEF RestartCore, Proceed, yaml, ApplyTypeOK
  <2>2. CASE applyPc'[r] = "record"
    BY <2>2, <1>1, <1>3 DEF VerifyEntry, Proceed, yaml, KeepsAll
  <2> QED BY <2>1, <2>2
<1>12. applyPc'[r] = "record" => r \in automations'.entries
  BY <1>1, <1>3 DEF VerifyEntry, Proceed, yaml, ApplyTypeOK
<1>13. answer'[r] = "ok" => r \in automations'.entries \cap running'
  BY <1>1, <1>3 DEF RecordSuccess, KeepsAll, yaml
<1>14. HasBackup(r)' => Kept' \subseteq FromBackup(r)'.entries
  <2>1. HasBackup(r)' => Kept' = Kept
    BY <1>2, <1>3 DEF HasBackup, Served, Kept, OthersStay, Alike
  <2> QED BY <2>1, <1>4, <1>5
<1>15. KeepsAll(r)'
  BY <1>2, <1>11, <1>12, <1>13, <1>14 DEF KeepsAll, Holding
<1> QED BY <1>9, <1>10, <1>15

LEMMA AroundInTime ==
  ASSUME ByInTime, Around
  PROVE  InTimeInv'
<1>1. UNCHANGED <<tmp, backups, inGuest, existed, data, applyPc, stamp, answer, granted>>
  BY DEF Around, Expire, EditYaml, SecondPasses, applyVars, yaml, grants, inGuestVars
<1> SUFFICES ASSUME InTime PROVE \A s \in Requests : Waited(s)' /\ KeepsAll(s)'
  BY <1>1 DEF InTimeInv, InTime
<1>2. \/ automations' = automations /\ running' = running
      \/ /\ automations'.there /\ running' = automations'.entries
         /\ \E e \in Additions : automations'.entries = automations.entries \cup {e}
  BY DEF Around, Expire, EditYaml, SecondPasses, applyVars, yaml, WithEntries
<1>3. ASSUME NEW s \in Requests PROVE Waited(s)' /\ KeepsAll(s)'
  <2>1. Waited(s) /\ KeepsAll(s) /\ \A e \in Additions : s # e
    BY ApplyAssumption DEF ByInTime, InTimeInv
  <2>2. FromBackup(s)' = FromBackup(s) /\ Kept' = Kept /\ HasBackup(s)' = HasBackup(s) /\ Holding(s)' = Holding(s)
    BY <1>1 DEF FromBackup, Kept, HasBackup, Served, Holding
  <2>3. Waited(s)'
    BY <1>1, <1>2, <2>1 DEF Waited, Working
  <2>4. /\ s \in automations'.entries <=> s \in automations.entries
        /\ s \in automations.entries \cap running => s \in automations'.entries \cap running'
        /\ running = automations.entries => running' = automations'.entries
    BY <1>2, <2>1
  <2>5. KeepsAll(s)'
    BY <1>1, <2>1, <2>2, <2>4 DEF KeepsAll
  <2> QED BY <2>3, <2>5
<1> QED BY <1>3

LEMMA ServiceDiesInTime ==
  ASSUME ByInTime, ServiceDies
  PROVE  ~InTime'
<1>1. SpendApply("crash") /\ ApplyTypeOK /\ SpentInv
  BY DEF ServiceDies, ByInTime, ApplyBase
<1>2. granted["crash"] # 0 /\ granted' = granted
  BY <1>1, SpendingApply, MishapsAre
<1> QED BY <1>2 DEF InTime

-----------------------------------------------------------------------------
(* In time: a failure leaves nothing, and no target gets two.              *)

ByClean == ByInTime /\ CleanInv /\ TargetInv

LEMMA OthersRest ==
  ASSUME ByInTime, InTime, NEW r \in Served, OthersStay(r), NEW s \in Requests, s # r
  PROVE  LeavesNone(s)' /\ Controls(s)'
<1>1. applyPc[s] \in {"idle", "done"} /\ ~Working(s)
  BY OnlyOne
<1>2. applyPc'[s] \in {"idle", "done"} /\ ~Working(s)'
  BY <1>1 DEF OthersStay, Alike, Working
<1> QED BY <1>2 DEF LeavesNone, Controls, HasBackup, Served, Holding, Working

\* Until its script has ended, what is in the file is of requests before it.
LEMMA MineIs ==
  ASSUME ByInTime, InTime, NEW r \in Served
  PROVE  Mine = IF inGuest[r] = "done" THEN Kept \cup {r} ELSE Kept
<1>1. \A s \in Served : s = r
  BY DEF ByInTime, ByOneInv, OneInv, InTime
<1> QED BY <1>1 DEF Mine

LEMMA CleanInit == ApplyInit => CleanInv /\ TargetInv
<1> SUFFICES ASSUME ApplyInit PROVE CleanInv /\ TargetInv
  OBVIOUS
<1>1. automations.entries = {} /\ running = {}
  BY DEF ApplyInit, NoFile, WithEntries
<1>2. \A r \in Requests : LeavesNone(r) /\ Controls(r)
  BY DEF ApplyInit, LeavesNone, Controls, HasBackup, Served, Holding
<1> QED BY <1>1, <1>2 DEF CleanInv, TargetInv, TargetsApart

LEMMA PostClean ==
  ASSUME ByClean, NEW r \in Requests, NEW p \in Proposals, Post(r, p)
  PROVE  CleanInv' /\ TargetInv'
<1>1. ApplyTypeOK /\ PhaseInv /\ SpentInv /\ SpendApply("post") /\ granted' = granted
  BY DEF ByClean, ByInTime, ApplyBase, Post, SpendApply
<1>2. Clean' => Clean
  BY <1>1, SpendingApply, MishapsAre
<1> SUFFICES ASSUME InTime PROVE CleanInv' /\ TargetInv'
  BY <1>1 DEF CleanInv, TargetInv, InTime
<1>3. /\ UNCHANGED <<automations, backups, running, stamp, inGuest, existed, data>> /\ inGuest[r] = "off"
      /\ \A s \in Requests : s # r => applyPc'[s] = applyPc[s] /\ answer'[s] = answer[s] /\ wants'[s] = wants[s]
      /\ applyPc'[r] \in {"recheck", "done"} /\ answer'[r] # "ok" /\ answer[r] # "ok"
  BY <1>1, PostStep DEF OthersStay, Alike, PhaseInv, Phase
<1>4. Served = {} /\ \A s \in Requests : applyPc[s] \in {"idle", "done", "dead"}
  BY NoneServed DEF Served, InTime
<1>5. \A s \in Requests : ~Working(s)
  BY <1>4 DEF ByClean, ByInTime, InTimeInv, Waited, Working
<1>6. \A s \in Requests : LeavesNone(s)' /\ Controls(s)'
  BY <1>3, <1>4, <1>5 DEF LeavesNone, Controls, HasBackup, Served, Holding, Working
<1>7. Mine \subseteq Mine'
  BY <1>3, <1>4 DEF Mine, Kept
<1>8. CleanInv'
  BY <1>2, <1>3, <1>6, <1>7 DEF ByClean, CleanInv, InTime
<1>9. r \notin automations.entries
  BY <1>3 DEF ByClean, ByInTime, InTimeInv, KeepsAll
<1>10. TargetsApart(automations.entries) => TargetsApart(automations.entries)'
  BY <1>3, <1>9 DEF TargetsApart
<1>11. TargetInv'
  BY <1>1, <1>6, <1>10 DEF ByClean, TargetInv, InTime
<1> QED BY <1>8, <1>11

LEMMA RecheckClean ==
  ASSUME ByClean, NEW r \in Requests, Recheck(r) \/ RecheckBlind(r)
  PROVE  CleanInv' /\ TargetInv'
<1>1. /\ ApplyTypeOK /\ PhaseInv /\ SpentInv /\ granted' = granted
      /\ (RecheckBlind(r) /\ SpendApply("blind")) \/ applyBudget' = applyBudget
  BY DEF ByClean, ByInTime, ApplyBase, Recheck, RecheckBlind, SpendApply, grants
<1>2. SpendApply("blind") => (Clean' => Clean) /\ granted["blind"] # 0
  BY <1>1, SpendingApply, MishapsAre
<1>3. Clean' => Clean
  BY <1>1, <1>2 DEF Clean
<1>4. granted["blind"] = 0 => ~RecheckBlind(r)
  BY <1>2 DEF RecheckBlind
<1> SUFFICES ASSUME InTime PROVE CleanInv' /\ TargetInv'
  BY <1>1 DEF CleanInv, TargetInv, InTime
<1>5. /\ OthersStay(r) /\ UNCHANGED <<automations, running, wants>> /\ r \in Served /\ inGuest[r] = "off"
      /\ \/ applyPc'[r] = "script" /\ inGuest'[r] = "backup" /\ answer'[r] = "none" /\ (~Conflict(r) \/ RecheckBlind(r))
         \/ applyPc'[r] = "done" /\ inGuest'[r] = "off" /\ answer'[r] = "refused"
      /\ answer[r] = "none"
  BY <1>1, RecheckStep DEF Served, PhaseInv, Phase
<1>6. \A s \in Requests : s # r => LeavesNone(s)' /\ Controls(s)'
  BY <1>5, OthersRest DEF ByClean
<1>7. LeavesNone(r)'
  BY <1>5 DEF LeavesNone, HasBackup, Holding
<1>8. Mine = Kept /\ Kept' = Kept /\ Kept' \subseteq Mine'
  BY <1>5, MineIs DEF ByClean, Kept, OthersStay, Alike, Mine
<1>9. CleanInv'
  BY <1>3, <1>5, <1>6, <1>7, <1>8 DEF ByClean, CleanInv, InTime
<1>10. Conflict(r)' = Conflict(r) /\ TargetsApart(automations.entries)' = TargetsApart(automations.entries)
  BY <1>5 DEF Conflict, TargetsApart
<1>11. granted["blind"] = 0 => Controls(r)'
  BY <1>4, <1>5, <1>10 DEF Controls, HasBackup, Holding
<1>12. TargetInv'
  BY <1>1, <1>6, <1>10, <1>11 DEF ByClean, TargetInv, InTime
<1> QED BY <1>9, <1>12

LEMMA ScriptClean ==
  ASSUME ByClean, NEW r \in Requests, ApplyScriptStep(r)
  PROVE  CleanInv' /\ TargetInv'
<1>0. ApplyTypeOK /\ ByInTime
  BY DEF ByClean, ByInTime, ApplyBase
<1>1. /\ OthersStay(r) /\ UNCHANGED <<running, applyPc, wants, stamp, answer, applyBudget, granted>> /\ Working(r)
  BY <1>0, ScriptStep DEF grants, Working
<1> SUFFICES ASSUME InTime PROVE CleanInv' /\ TargetInv'
  BY <1>1 DEF CleanInv, TargetInv, InTime
<1>2. r \in Served /\ inGuest[r] # "done"
  BY <1>0, <1>1 DEF ByInTime, InTimeInv, Waited, Served, Working
<1>3. Mine = Kept /\ Kept' = Kept /\ Kept' \subseteq Mine' /\ r \in Served' /\ (inGuest'[r] = "done" => r \in Mine')
  BY <1>0, <1>1, <1>2, MineIs DEF Kept, Mine, Served
<1>4. applyPc'[r] # "restart back"
  BY <1>0, <1>1 DEF ByInTime, InTimeInv, Waited
<1>5. \A s \in Requests : s # r => LeavesNone(s)' /\ Controls(s)'
  BY <1>0, <1>1, <1>2, OthersRest
<1>6. CASE BackUp(r)
  <2>1. /\ FromBackup(r)'.entries = automations.entries /\ automations' = automations /\ inGuest[r] = "backup" /\ inGuest'[r] = "read"
    BY <1>0, <1>6, BackUpGives DEF ByInTime
  <2>2. InTime /\ Clean => LeavesNone(r)'
    BY <1>3, <1>4, <2>1 DEF ByClean, CleanInv, LeavesNone, Holding
  <2>3. CleanInv'
    BY <1>1, <1>3, <1>5, <2>1, <2>2 DEF ByClean, CleanInv, InTime, Clean
  <2>4. ~Conflict(r) => ~Conflict(r)'
    BY <1>1, <2>1 DEF Conflict
  <2>5. TargetsApart(automations.entries) => TargetsApart(FromBackup(r).entries)' /\ TargetsApart(automations.entries)'
    BY <1>1, <2>1 DEF TargetsApart
  <2>6. InTime /\ granted["blind"] = 0 => TargetsApart(automations.entries) /\ ~Conflict(r)
    BY <2>1 DEF ByClean, TargetInv, Controls
  <2>7. InTime /\ granted["blind"] = 0 => Controls(r)' /\ TargetsApart(automations.entries)'
    BY <2>1, <2>4, <2>5, <2>6 DEF Controls, Holding
  <2> QED BY <1>1, <1>5, <2>3, <2>7 DEF TargetInv, InTime
<1>7. CASE ReadYaml(r)
  <2>1. /\ inGuest[r] = "read" /\ inGuest'[r] = "write" /\ UNCHANGED <<automations, tmp, backups, existed>>
        /\ data'[r] = IF existed[r] THEN Appended(r) ELSE {r}
    BY <1>0, <1>7, ReadGives
  <2>2. HasBackup(r) /\ FromBackup(r)' = FromBackup(r)
    BY <1>1, <1>2, <2>1, FromBackupStays DEF HasBackup
  <2>3. Clean => Requests \cap data'[r] \subseteq Kept \cup {r}
    BY <1>3, <2>1 DEF ByClean, CleanInv, Appended
  <2>4. Clean => LeavesNone(r)'
    BY <1>3, <1>4, <2>2, <2>3 DEF ByClean, CleanInv, LeavesNone
  <2>5. CleanInv'
    BY <1>1, <1>3, <1>5, <2>1, <2>4 DEF ByClean, CleanInv, InTime, Clean
  <2>6. granted["blind"] = 0 => TargetsApart(automations.entries) /\ ~Conflict(r) /\ TargetsApart(FromBackup(r).entries)
    BY <2>1, <2>2 DEF ByClean, TargetInv, Controls
  <2>7. granted["blind"] = 0 => TargetsApart(data[r])'
    BY <1>1, <2>1, <2>6 DEF TargetsApart, Conflict, Appended
  <2>8. granted["blind"] = 0 => TargetsApart(automations.entries)' /\ TargetsApart(FromBackup(r).entries)'
    BY <1>1, <2>1, <2>2, <2>6 DEF TargetsApart
  <2>9. granted["blind"] = 0 => Controls(r)'
    BY <2>1, <2>7, <2>8 DEF Controls
  <2> QED BY <1>1, <1>5, <2>5, <2>8, <2>9 DEF TargetInv, InTime
<1>8. CASE WriteTmp(r)
  <2>1. inGuest[r] = "write" /\ inGuest'[r] = "replace" /\ UNCHANGED <<automations, backups, existed, data>>
    BY <1>0, <1>8 DEF ApplyTypeOK, WriteTmp, ScriptGoes
  <2>2. HasBackup(r) /\ Holding(r) /\ FromBackup(r)' = FromBackup(r)
    BY <1>1, <1>2, <2>1, FromBackupStays DEF HasBackup, Holding
  <2>3. Clean => LeavesNone(r)'
    BY <1>3, <1>4, <2>1, <2>2 DEF ByClean, CleanInv, LeavesNone
  <2>4. CleanInv'
    BY <1>1, <1>3, <1>5, <2>1, <2>3 DEF ByClean, CleanInv, InTime, Clean
  <2>5. granted["blind"] = 0 => TargetsApart(automations.entries) /\ TargetsApart(data[r]) /\ TargetsApart(FromBackup(r).entries)
    BY <2>2 DEF ByClean, TargetInv, Controls
  <2>6. granted["blind"] = 0 => TargetsApart(automations.entries)' /\ TargetsApart(data[r])' /\ TargetsApart(FromBackup(r).entries)'
    BY <1>1, <2>1, <2>2, <2>5 DEF TargetsApart
  <2>7. granted["blind"] = 0 => Controls(r)'
    BY <2>1, <2>6 DEF Controls
  <2> QED BY <1>1, <1>5, <2>4, <2>6, <2>7 DEF TargetInv, InTime
<1>9. CASE ReplaceYaml(r)
  <2>1. /\ inGuest[r] = "replace" /\ inGuest'[r] = "done" /\ UNCHANGED <<backups, existed, data>>
        /\ automations'.entries = data[r]
    BY <1>0, <1>9, ReplaceGives
  <2>2. HasBackup(r) /\ Holding(r) /\ FromBackup(r)' = FromBackup(r)
    BY <1>1, <1>2, <2>1, FromBackupStays DEF HasBackup, Holding
  <2>3. Clean => LeavesNone(r)' /\ Requests \cap automations'.entries \subseteq Mine'
    BY <1>3, <1>4, <2>1, <2>2 DEF ByClean, CleanInv, LeavesNone, Holding
  <2>4. CleanInv'
    BY <1>1, <1>3, <1>5, <2>1, <2>3 DEF ByClean, CleanInv, InTime, Clean
  <2>5. granted["blind"] = 0 => TargetsApart(data[r]) /\ TargetsApart(FromBackup(r).entries)
    BY <2>2 DEF ByClean, TargetInv, Controls
  <2>6. granted["blind"] = 0 => TargetsApart(automations.entries)' /\ TargetsApart(FromBackup(r).entries)'
    BY <1>1, <2>1, <2>2, <2>5 DEF TargetsApart
  <2>7. granted["blind"] = 0 => Controls(r)'
    BY <2>1, <2>6 DEF Controls, Holding
  <2> QED BY <1>1, <1>5, <2>4, <2>6, <2>7 DEF TargetInv, InTime
<1> QED BY <1>6, <1>7, <1>8, <1>9 DEF ApplyScriptStep

LEMMA AfterClean ==
  ASSUME ByClean, NEW r \in Requests, After(r)
  PROVE  CleanInv' /\ TargetInv'
<1>0. ApplyTypeOK /\ SpentInv /\ ByInTime
  BY DEF ByClean, ByInTime, ApplyBase
<1>1. UNCHANGED grants \/ \E m \in ApplyMishaps : SpendApply(m)
  BY MishapsAre DEF After, Meta, Lost, CheckConfig, RestartCore, VerifyEntry, RecordSuccess, RestoreBackup, RestartBack
<1>2. granted' = granted /\ (Clean' => Clean)
  BY <1>0, <1>1, SpendingApply DEF Clean, grants
<1>3. Clean' => ~SpendApply("undo") /\ ~SpendApply("record")
  <2>1. SpendApply("undo") => ~Clean'
    BY <1>0, <1>2, SpendingApply, MishapsAre DEF Clean
  <2>2. SpendApply("record") => ~Clean'
    BY <1>0, <1>2, SpendingApply, MishapsAre DEF Clean
  <2> QED BY <2>1, <2>2
<1> SUFFICES ASSUME InTime PROVE CleanInv' /\ TargetInv'
  BY <1>2 DEF CleanInv, TargetInv, InTime
<1>4. /\ r \in Served /\ inGuest[r] = "done" /\ inGuest'[r] = "done" /\ ~Lost(r) /\ answer[r] = "none"
      /\ applyPc[r] = "script" => applyPc'[r] = "check"
  BY <1>0, ScriptDone
<1>5. /\ OthersStay(r) /\ UNCHANGED <<backups, existed, stamp, wants>>
      /\ applyPc'[r] # "done" => answer'[r] = answer[r] /\ applyPc'[r] \notin {"idle", "dead"}
      /\ applyPc'[r] = "restart back" => RestoreBackup(r)
      /\ applyPc'[r] = "done" => RecordSuccess(r) \/ RestoreBackup(r) \/ (RestartBack(r) /\ applyPc[r] = "restart back")
  BY <1>0, <1>4, AfterStep
<1>6. HasBackup(r) /\ FromBackup(r)' = FromBackup(r)
  BY <1>4, <1>5, FromBackupStays DEF HasBackup
<1>7. automations' \in {automations, FromBackup(r)} /\ running' \in {running, automations.entries}
  BY AfterFiles
<1>8. Mine = Kept \cup {r} /\ r \notin Kept /\ Kept \subseteq Kept'
  BY <1>0, <1>4, <1>5, MineIs DEF Kept, OthersStay, Alike
<1>9. \A s \in Requests : s # r => LeavesNone(s)' /\ Controls(s)'
  BY <1>0, <1>4, <1>5, OthersRest
<1>10. ASSUME Clean' PROVE Requests \cap (automations.entries \cup running)' \subseteq Mine' /\ LeavesNone(r)'
  <2>1. /\ Clean /\ ~SpendApply("undo") /\ ~SpendApply("record") /\ LeavesNone(r)
        /\ Requests \cap (automations.entries \cup running) \subseteq Mine
    BY <1>2, <1>3, <1>10 DEF ByClean, CleanInv
  <2>2. Requests \cap FromBackup(r).entries \subseteq Kept
    BY <1>6, <2>1 DEF LeavesNone
  <2>3. RestoreBackup(r) => automations' = FromBackup(r) /\ applyPc'[r] = "restart back"
    BY <1>0, <2>1 DEF RestoreBackup, Proceed, ApplyTypeOK
  <2>4. LeavesNone(r)'
    BY <1>4, <1>5, <1>6, <1>8, <2>2, <2>3 DEF LeavesNone, Holding
  <2>5. Requests \cap (automations'.entries \cup running') \subseteq Kept \cup {r}
    BY <1>7, <1>8, <2>1, <2>2
  <2>6. CASE applyPc'[r] # "done"
    <3>1. Kept \cup {r} \subseteq Mine'
      BY <1>4, <1>5, <1>8, <2>6 DEF Mine, Served
    <3> QED BY <2>4, <2>5, <3>1
  <2>7. CASE applyPc'[r] = "done" /\ RecordSuccess(r)
    <3>1. r \in Kept'
      BY <1>0, <2>1, <2>7 DEF RecordSuccess, Say, Kept, ApplyTypeOK
    <3> QED BY <1>8, <2>4, <2>5, <3>1 DEF Mine
  <2>8. CASE applyPc'[r] = "done" /\ RestartBack(r) /\ applyPc[r] = "restart back"
    <3>1. running' = automations.entries /\ automations' = automations
      BY <2>1, <2>8 DEF RestartBack, yaml
    <3>2. Requests \cap automations.entries \subseteq Kept
      BY <2>1, <2>8 DEF LeavesNone
    <3> QED BY <1>8, <2>4, <3>1, <3>2 DEF Mine
  <2> QED BY <1>5, <2>3, <2>6, <2>7, <2>8
<1>11. CleanInv'
  BY <1>2, <1>9, <1>10 DEF CleanInv
<1>12. ASSUME granted["blind"] = 0 PROVE TargetsApart(automations.entries)' /\ Controls(r)'
  <2>1. TargetsApart(automations.entries) /\ TargetsApart(FromBackup(r).entries)
    BY <1>6, <1>12 DEF ByClean, TargetInv, Controls
  <2>2. TargetsApart(automations.entries)' /\ TargetsApart(FromBackup(r).entries)'
    BY <1>5, <1>6, <1>7, <2>1 DEF TargetsApart
  <2> QED BY <1>4, <2>2 DEF Controls, Holding
<1> QED BY <1>2, <1>9, <1>11, <1>12 DEF TargetInv

LEMMA AroundClean ==
  ASSUME ByClean, Around
  PROVE  CleanInv' /\ TargetInv'
<1>1. UNCHANGED <<backups, inGuest, existed, data, applyPc, stamp, answer, wants, applyBudget, granted>>
  BY DEF Around, Expire, EditYaml, SecondPasses, applyVars, yaml, grants, inGuestVars
<1>2. \/ automations' = automations /\ running' = running
      \/ running' = automations'.entries /\ \E e \in Additions : automations'.entries = automations.entries \cup {e}
  BY DEF Around, Expire, EditYaml, SecondPasses, applyVars, yaml, WithEntries
<1>3. /\ Requests \cap automations'.entries = Requests \cap automations.entries
      /\ Requests \cap running' \subseteq Requests \cap (automations.entries \cup running)
  BY <1>2, ApplyAssumption
<1>4. Kept' = Kept /\ Mine' = Mine
  BY <1>1 DEF Kept, Mine, Served
<1>5. \A r \in Requests : FromBackup(r)' = FromBackup(r) /\ HasBackup(r)' = HasBackup(r) /\ Holding(r)' = Holding(r)
  BY <1>1 DEF FromBackup, HasBackup, Served, Holding
<1>6. CleanInv'
  BY <1>1, <1>3, <1>4, <1>5 DEF ByClean, CleanInv, InTime, Clean, LeavesNone
<1>7. TargetsApart(automations.entries) => TargetsApart(automations.entries)'
  BY <1>1, <1>3 DEF TargetsApart
<1>8. \A r \in Requests : Controls(r) => Controls(r)'
  BY <1>1, <1>3, <1>5 DEF Controls, TargetsApart, Conflict
<1>9. TargetInv'
  BY <1>1, <1>7, <1>8 DEF ByClean, TargetInv, InTime
<1> QED BY <1>6, <1>9

LEMMA ApplyStepInv == ApplyIInv /\ [ApplyNext]_applyVars => ApplyIInv'
<1> SUFFICES ASSUME ApplyIInv, [ApplyNext]_applyVars PROVE ApplyIInv'
  OBVIOUS
<1>0. ApplyBase /\ ByOneInv /\ ByInTime /\ ByClean
  BY DEF ApplyIInv, ByInTime, ByClean
<1>1. ASSUME NEW r \in Requests, NEW p \in Proposals, Post(r, p) PROVE ApplyIInv'
  <2>1. Concurrency' = Concurrency /\ (Concurrency # 1 => ByOneInv')
    BY DEF ByOneInv
  <2> QED BY <1>0, <1>1, <2>1, PostBase, PostByOne, PostInTime, PostClean DEF ApplyIInv
<1>2. ASSUME NEW r \in Requests, Recheck(r) \/ RecheckBlind(r) PROVE ApplyIInv'
  <2>1. Concurrency # 1 => ByOneInv'
    BY DEF ByOneInv
  <2> QED BY <1>0, <1>2, <2>1, RecheckBase, RecheckByOne, RecheckInTime, RecheckClean DEF ApplyIInv
<1>3. ASSUME NEW r \in Requests, ApplyScriptStep(r) PROVE ApplyIInv'
  <2>1. Concurrency # 1 => ByOneInv'
    BY DEF ByOneInv
  <2> QED BY <1>0, <1>3, <2>1, ScriptBase, ScriptByOne, ScriptInTime, ScriptClean DEF ApplyIInv
<1>4. ASSUME NEW r \in Requests, After(r) PROVE ApplyIInv'
  <2>1. Concurrency # 1 => ByOneInv'
    BY DEF ByOneInv
  <2> QED BY <1>0, <1>4, <2>1, AfterBase, AfterByOne, AfterInTime, AfterClean DEF ApplyIInv
<1>5. CASE Around
  BY <1>0, <1>5, AroundBase, AroundByOne, AroundInTime, AroundClean DEF ApplyIInv
<1>6. CASE ServiceDies
  BY <1>0, <1>6, ServiceDiesBase, ServiceDiesByOne, ServiceDiesInTime DEF ApplyIInv, InTimeInv, CleanInv, TargetInv
<1> QED BY <1>1, <1>2, <1>3, <1>4, <1>5, <1>6 DEF ApplyNext, ApplyHandlerStep, After, Around

\* Applying an automation is transactional, for any requests, proposals, targets and
\* entries of the editor, any seconds and any limits of what may go wrong: the
\* invariant knows what may replace the file, the backup and what a script has read,
\* and that each of them holds all that was applied, what is under way, and no more.
THEOREM AppliedTransactionally == ApplySpec => []ApplyIsTransactional
<1>1. ApplyInit => ApplyIInv
  BY ApplyInitBase, ByOneInit, InTimeInit, CleanInit DEF ApplyIInv
<1>2. ApplyIInv => ApplyIsTransactional
  <2> SUFFICES ASSUME ApplyIInv PROVE ApplyIsTransactional
    OBVIOUS
  <2>1. ApplyTypeOK /\ PhaseInv
    BY DEF ApplyIInv, ApplyBase
  <2>2. AppliedIsKept
    BY DEF ApplyIInv, InTimeInv, KeepsAll, AppliedIsKept
  <2>3. FailedIsUndone
    BY <2>1 DEF ApplyIInv, CleanInv, Clean, Mine, Kept, Served, FailedIsUndone, PhaseInv, Phase
  <2>4. OneController
    BY DEF ApplyIInv, TargetInv, TargetsApart, OneController
  <2>5. BackupIsPrior
    BY DEF ApplyIInv, ByOneInv, BackedUp, BackupIsPrior
  <2> QED BY <2>1, <2>2, <2>3, <2>4, <2>5 DEF ApplyIsTransactional
<1> QED BY <1>1, <1>2, ApplyStepInv, PTL DEF ApplySpec

=============================================================================
