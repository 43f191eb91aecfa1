---------------------------- MODULE GatewayQueue ----------------------------
(***************************************************************************)
(* The job queue of the Node C gateway: jobs are files committed to the    *)
(* repository, a workflow (jns-nodec-gateway.yml) checks the triggering    *)
(* commit out, dispatcher.sh runs what has no result yet, and the results  *)
(* are pushed back while others push too.                                  *)
(*                                                                         *)
(* External: GitHub keeps one run of the concurrency group in progress and *)
(* the newest one pending; a checkout removes what an earlier run left.    *)
(***************************************************************************)
EXTENDS Naturals, FiniteSets

CONSTANTS
    JsonJobs,    \* job files with the suffix .json, numbered in the order of their names
    LegacyJobs,  \* revisions of request.sh, numbered above them
    Attempts,    \* publish attempts (five)
    MaxExec,     \* bound: executions
    Limits       \* bounds: how often each kind of mishap may happen, in each of the plans

QueueMishaps == {"kill",     \* the dispatcher is stopped: the workflow's hour is over
            "die",      \* the runner stops
            "foreign",  \* somebody pushes an unrelated commit
            "overlap"}  \* a job is submitted while a run is in progress

Jobs == JsonJobs \cup LegacyJobs
ASSUME JobAssumption == Jobs \subseteq Nat \ {0} /\ JsonJobs \cap LegacyJobs = {}
ASSUME QueueAssumption == {Attempts, MaxExec} \subseteq Nat /\ Limits \subseteq [QueueMishaps -> Nat]

States == {"none", "running", "done", "timeout", "failed"}
Final == {"done", "timeout", "failed"}

\* A tree of the repository: which jobs are queued, the execution whose result
\* is recorded for a job (0: none), and its status.
Trees == [queue : SUBSET Jobs, result : [Jobs -> 0..MaxExec], status : [Jobs -> States]]

VARIABLES
    main,     \* the tree of origin/main
    tip,      \* commits on main
    pending,  \* the run that waits: a tree and the request its commit changed
    queuePc,       \* the run in progress
    ws,       \* its workspace
    base,     \* the tree it checked out
    todo,     \* job files the dispatcher has still to look at
    exec,     \* executions so far
    seen,     \* the commit a publish attempt started from
    attempt,  \* its number
    asked,    \* ghost: what was submitted
    queueBudget, \* mishaps left
    limits    \* of those there were

repo == <<main, tip>>
run == <<queuePc, ws, base, todo, seen, attempt>>
left == <<queueBudget, limits>>
queueVars == <<repo, pending, run, exec, asked, left>>

Empty == [queue |-> {}, result |-> [j \in Jobs |-> 0], status |-> [j \in Jobs |-> "none"]]
NoRun == [tree |-> Empty, request |-> 0, waits |-> FALSE]

QueueInit ==
    /\ main = Empty /\ tip = 0 /\ pending = NoRun
    /\ queuePc = "idle" /\ ws = Empty /\ base = Empty /\ todo = {} /\ seen = 0 /\ attempt = 0
    /\ exec = 0 /\ asked = {} /\ limits \in Limits /\ queueBudget = limits

SpendQueue(mishap) ==
    /\ queueBudget[mishap] > 0 /\ queueBudget' = [queueBudget EXCEPT ![mishap] = @ - 1]
    /\ UNCHANGED limits
MayPush == IF queuePc = "idle" /\ ~pending.waits THEN UNCHANGED left ELSE SpendQueue("overlap")

-----------------------------------------------------------------------------
(* Commits to main.                                                        *)

\* A push that touches the queue, or request.sh, triggers a run for its commit.
Submit(j) ==
    /\ j \in JsonJobs \ asked /\ MayPush
    /\ main' = [main EXCEPT !.queue = @ \cup {j}]
    /\ pending' = [tree |-> main', request |-> 0, waits |-> TRUE]
    /\ tip' = tip + 1 /\ asked' = asked \cup {j}
    /\ UNCHANGED <<run, exec>>

EditRequest(j) ==
    /\ j \in LegacyJobs \ asked /\ MayPush
    /\ pending' = [tree |-> main, request |-> j, waits |-> TRUE]
    /\ tip' = tip + 1 /\ asked' = asked \cup {j}
    /\ UNCHANGED <<main, run, exec>>

Foreign ==
    /\ SpendQueue("foreign") /\ queuePc = "push"
    /\ tip' = tip + 1
    /\ UNCHANGED <<main, pending, run, exec, asked>>

-----------------------------------------------------------------------------
(* A run of the workflow.                                                  *)

\* actions/checkout takes the commit that triggered the run, then the request
\* it changed becomes a job file.
Checkout ==
    /\ queuePc = "idle" /\ pending.waits
    /\ base' = pending.tree
    /\ ws' = IF pending.request = 0 THEN pending.tree
             ELSE [pending.tree EXCEPT !.queue = @ \cup {pending.request}]
    /\ queuePc' = "dispatch" /\ pending' = NoRun
    /\ UNCHANGED <<repo, todo, seen, attempt, exec, asked, left>>

\* find -name '*.json' | sort: the first of those still to look at is next.
Scan ==
    /\ queuePc = "dispatch"
    /\ todo' = ws.queue \cap JsonJobs
    /\ queuePc' = "next"
    /\ UNCHANGED <<repo, pending, ws, base, seen, attempt, exec, asked, left>>

First == {j \in todo : \A k \in todo : j <= k}

\* Mutant: only jobs that went well are skipped.
SkipsDone(j) == ws.result[j] # 0 /\ ws.status[j] = "done"

Skips(j) == ws.result[j] # 0 /\ ws.status[j] # "none"

WithStatus(j, s) == [ws EXCEPT !.status = [ws.status EXCEPT ![j] = s]]

Exhausted == todo = {} /\ queuePc' = "publish" /\ UNCHANGED <<ws, todo>>

SkipJob(j) == Skips(j) /\ todo' = todo \ {j} /\ UNCHANGED <<queuePc, ws>>

StartJob(j) == ~Skips(j) /\ ws' = WithStatus(j, "running") /\ queuePc' = "execute" /\ UNCHANGED todo

TakeJob ==
    /\ queuePc = "next"
    /\ Exhausted \/ \E j \in First : SkipJob(j) \/ StartJob(j)
    /\ UNCHANGED <<repo, pending, base, seen, attempt, exec, asked, left>>

\* The trusted executor runs the job, at most TIMEOUT_SECONDS long; its output
\* becomes the result.
Execute ==
    /\ queuePc = "execute" /\ exec < MaxExec
    /\ exec' = exec + 1
    /\ queuePc' = "result"
    /\ UNCHANGED <<repo, pending, ws, base, todo, seen, attempt, asked, left>>

MoveResult ==
    /\ queuePc = "result" /\ queuePc' = "settle"
    /\ \E j \in First : ws' = [ws EXCEPT !.result = [ws.result EXCEPT ![j] = exec]]
    /\ UNCHANGED <<repo, pending, base, todo, seen, attempt, exec, asked, left>>

Settle ==
    /\ queuePc = "settle" /\ queuePc' = "next"
    /\ \E j \in First, s \in Final : ws' = WithStatus(j, s) /\ todo' = todo \ {j}
    /\ UNCHANGED <<repo, pending, base, seen, attempt, exec, asked, left>>

\* The publishing step runs always.
Kill ==
    /\ SpendQueue("kill") /\ queuePc \in {"dispatch", "next", "execute", "result", "settle"}
    /\ queuePc' = "publish" /\ todo' = {}
    /\ UNCHANGED <<repo, pending, ws, base, seen, attempt, exec, asked>>

Die ==
    /\ SpendQueue("die") /\ queuePc # "idle"
    /\ queuePc' = "idle" /\ todo' = {} /\ ws' = Empty /\ base' = Empty /\ seen' = 0 /\ attempt' = 0
    /\ UNCHANGED <<repo, pending, exec, asked>>

\* The files this run changed, laid over the latest tree of main.
LaidOver ==
    [queue |-> main.queue \cup (ws.queue \ base.queue),
     result |-> [j \in Jobs |-> IF ws.result[j] # base.result[j] THEN ws.result[j] ELSE main.result[j]],
     status |-> [j \in Jobs |-> IF ws.status[j] # base.status[j] THEN ws.status[j] ELSE main.status[j]]]

EndRun ==
    /\ queuePc' = "idle" /\ ws' = Empty /\ base' = Empty /\ seen' = 0 /\ attempt' = 0

\* git fetch; nothing is pushed when main has it all.
Fetch ==
    /\ queuePc = "publish"
    /\ IF ws = base \/ LaidOver = main \/ attempt = Attempts THEN EndRun
       ELSE queuePc' = "push" /\ seen' = tip /\ attempt' = attempt + 1 /\ UNCHANGED <<ws, base>>
    /\ UNCHANGED <<repo, pending, todo, exec, asked, left>>

\* The remote takes the push only if nobody pushed since the fetch.
Push ==
    /\ queuePc = "push"
    /\ IF tip = seen THEN main' = LaidOver /\ tip' = tip + 1 /\ EndRun
       ELSE queuePc' = "publish" /\ UNCHANGED <<repo, ws, base, seen, attempt>>
    /\ UNCHANGED <<pending, todo, exec, asked, left>>

Runner == Checkout \/ Scan \/ TakeJob \/ Execute \/ MoveResult \/ Settle \/ Fetch \/ Push

QueueNext == \/ \E j \in Jobs : Submit(j) \/ EditRequest(j)
        \/ Runner \/ Foreign \/ Kill \/ Die

QueueSpec == QueueInit /\ [][QueueNext]_queueVars
\* The runner takes the pending run and its steps go on.
QueueFairSpec == QueueSpec /\ WF_queueVars(Runner)

-----------------------------------------------------------------------------
(* Properties.                                                             *)

QueueTypeOK ==
    /\ {main, ws, base, pending.tree} \subseteq Trees
    /\ {tip, exec, seen} \subseteq Nat /\ attempt \in 0..Attempts
    /\ pending.request \in LegacyJobs \cup {0} /\ pending.waits \in BOOLEAN
    /\ queuePc \in {"idle", "dispatch", "next", "execute", "result", "settle", "publish", "push"}
    /\ todo \subseteq JsonJobs /\ asked \subseteq Jobs
    /\ {queueBudget, limits} \subseteq [QueueMishaps -> Nat]

Complete(tree, j) == tree.result[j] # 0 /\ tree.status[j] \in Final

\* No job is executed that main shows as completed, when nothing is submitted
\* while a run is in progress.
CompletedNotRerun ==
    (limits["overlap"] = 0 /\ exec' # exec) => \A j \in First : ~Complete(main, j)

\* Publishing never takes a queued job, a result or a status from main,
\* whatever was pushed while the run was in progress.
NothingIsErased ==
    /\ main.queue \subseteq main'.queue
    /\ \A j \in Jobs : /\ main.result[j] # 0 => main'.result[j] # 0
                       /\ main.status[j] # "none" => main'.status[j] # "none"

\* What main shows as a result has a status that is final, unless a run was stopped.
NoneKilled == queueBudget["kill"] = limits["kill"]
ResultIsSettled ==
    NoneKilled => \A j \in Jobs : main.result[j] # 0 => main.status[j] \in Final

\* Nobody's job is lost or done twice: publishing takes nothing from main,
\* whatever was pushed meanwhile, a result there has a final status (unless a run
\* was stopped), and a job main shows as completed is not executed again (when
\* nothing is submitted while a run is in progress).
JobsAreKept ==
    [][QueueTypeOK' /\ ResultIsSettled' /\ NothingIsErased /\ CompletedNotRerun]_queueVars

\* Every submitted job ends up with its result and its status on main.
Asked(j) == j \in asked
Shown(j) == Complete(main, j)
JobsAnswered == \A j \in JsonJobs : Asked(j) ~> Shown(j)
=============================================================================
