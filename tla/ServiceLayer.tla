--------------------------- MODULE ServiceLayer ---------------------------
(***************************************************************************)
(* The Home Assistant services of jns_deployment (__init__.py) on top of   *)
(* the engine: several calls at a time, an asyncio lock that a reload of   *)
(* the config entry replaces, the engine's thread lock (one per manager)   *)
(* and file lock (one per machine), the configuration check after an       *)
(* install and the rollback when it fails.                                 *)
(*                                                                         *)
(* What the engine does to files is the subject of PackageTransactions;    *)
(* here an operation has a begin and an end, and a transaction a status.   *)
(***************************************************************************)
EXTENDS Naturals, Sequences

CONSTANTS
    Calls,    \* service calls that may be in progress at a time
    MaxTx,    \* bound: transactions ever created
    Budget    \* bound: how often each kind of mishap may happen

Mishaps == {"reload",   \* the config entry is reloaded
            "crash",    \* Home Assistant dies
            "edit",     \* a file of a committed transaction is edited
            "check"}    \* the configuration check raises

BoundAssumption == MaxTx \in Nat /\ Budget \in [Mishaps -> Nat]
CallAssumption == "none" \notin Calls
ASSUME ServiceAssumption == BoundAssumption /\ CallAssumption

TxIds == 1..MaxTx
Gens == 1..(1 + Budget["reload"] + Budget["crash"])   \* set-ups of the entry

\* "quarantine" stands for the platform update services too: one engine
\* operation that touches no package transaction.
Kinds == {"install", "rollback", "uninstall", "recover", "quarantine"}
LooksUpLate == {"recover", "quarantine"}
Statuses == {"none", "staging", "committed", "interrupted", "recovered", "rolled_back", "failed"}

VARIABLES
    gen,      \* the last set-up: its manager and its asyncio lock
    loaded,   \* hass.data holds them
    queue,    \* [Gens -> Seq(Calls)]: each asyncio lock, its holder first
    tlock,    \* [Gens -> call or none]: each manager's thread lock
    flock,    \* the lock file
    pc,       \* [Calls -> step]
    kind,     \* [Calls -> Kinds]
    lockgen,  \* [Calls -> Gens]: whose asyncio lock the call uses
    mgr,      \* [Calls -> Gens]: whose manager
    tx,       \* [Calls -> transaction it works on]
    check,    \* [Calls -> BOOLEAN]: check_config
    status,   \* [TxIds -> Statuses]: the records
    count,    \* transactions created
    bad,      \* transactions that break the configuration
    drift,    \* committed transactions one of whose files was edited
    checked,  \* ghost: transactions whose install asked for the check
    budget    \* mishaps left

locks == <<queue, tlock, flock>>
call == <<pc, kind, lockgen, mgr, tx, check>>
record == <<status, count, bad, drift, checked>>
vars == <<gen, loaded, locks, call, record, budget>>

Init ==
    /\ gen = 1 /\ loaded = TRUE
    /\ queue = [g \in Gens |-> <<>>] /\ tlock = [g \in Gens |-> "none"] /\ flock = "none"
    /\ pc = [c \in Calls |-> "idle"] /\ kind = [c \in Calls |-> "install"]
    /\ lockgen = [c \in Calls |-> 1] /\ mgr = [c \in Calls |-> 1]
    /\ tx = [c \in Calls |-> 0] /\ check = [c \in Calls |-> FALSE]
    /\ status = [x \in TxIds |-> "none"] /\ count = 0
    /\ bad = {} /\ drift = {} /\ checked = {}
    /\ budget = Budget

Spend(mishap) == budget[mishap] > 0 /\ budget' = [budget EXCEPT ![mishap] = @ - 1]
Go(c, step) == pc' = [pc EXCEPT ![c] = step]

\* The service returns or raises: "async with" releases the lock to the next.
Return(c) ==
    /\ pc' = [pc EXCEPT ![c] = "idle"] /\ tx' = [tx EXCEPT ![c] = 0]
    /\ queue' = [queue EXCEPT ![lockgen[c]] = Tail(@)]
    /\ UNCHANGED <<kind, lockgen, mgr, check>>

SetStatus(x, s) == status' = [status EXCEPT ![x] = s]

-----------------------------------------------------------------------------
(* A service call.                                                         *)

\* Manager and lock are looked up when the call comes in.
Call(c, k, x, b) ==
    /\ pc[c] = "idle" /\ loaded
    /\ kind' = [kind EXCEPT ![c] = k] /\ tx' = [tx EXCEPT ![c] = x] /\ check' = [check EXCEPT ![c] = b]
    /\ lockgen' = [lockgen EXCEPT ![c] = gen] /\ mgr' = [mgr EXCEPT ![c] = gen]
    /\ queue' = [queue EXCEPT ![gen] = Append(@, c)]
    /\ Go(c, "wait")
    /\ UNCHANGED <<gen, loaded, tlock, flock, record, budget>>

\* handle_recover and handle_quarantine look the manager up only now.
Enter(c) ==
    /\ pc[c] = "wait" /\ Head(queue[lockgen[c]]) = c
    /\ IF kind[c] \notin LooksUpLate THEN Go(c, "engine") /\ UNCHANGED <<queue, kind, lockgen, mgr, tx, check>>
       ELSE IF ~loaded THEN Return(c)
       ELSE /\ Go(c, "engine") /\ mgr' = [mgr EXCEPT ![c] = gen]
            /\ UNCHANGED <<queue, kind, lockgen, tx, check>>
    /\ UNCHANGED <<gen, loaded, tlock, flock, record, budget>>

\* Mutant: only the manager's own lock counts.
FreeForManager(c) == tlock[mgr[c]] = "none"

\* _exclusive_operation takes both locks or raises at once.
Free(c) == tlock[mgr[c]] = "none" /\ flock = "none"
Acquire(c) == tlock' = [tlock EXCEPT ![mgr[c]] = c] /\ flock' = c
Release(c) == tlock' = [tlock EXCEPT ![mgr[c]] = "none"] /\ flock' = "none"

Refused(c) ==
    /\ pc[c] \in {"engine", "undo"} /\ ~Free(c)
    /\ Return(c)
    /\ UNCHANGED <<gen, loaded, tlock, flock, record, budget>>

BeginInstall(c) ==
    /\ pc[c] = "engine" /\ kind[c] = "install" /\ Free(c) /\ count < MaxTx
    /\ Acquire(c) /\ Go(c, "run")
    /\ count' = count + 1 /\ tx' = [tx EXCEPT ![c] = count']
    /\ SetStatus(count', "staging")
    /\ checked' = IF check[c] THEN checked \cup {count'} ELSE checked
    /\ UNCHANGED <<gen, loaded, queue, kind, lockgen, mgr, check, bad, drift, budget>>

\* The package is not valid, or a dry run ends: no transaction is made.
RejectInstall(c) ==
    /\ pc[c] = "engine" /\ kind[c] = "install" /\ Free(c)
    /\ Return(c)
    /\ UNCHANGED <<gen, loaded, tlock, flock, record, budget>>

BeginUndo(c) ==
    /\ \/ pc[c] = "engine" /\ kind[c] # "install" /\ Go(c, "run")
       \/ pc[c] = "undo" /\ Go(c, "undo_run")
    /\ Free(c) /\ Acquire(c)
    /\ UNCHANGED <<gen, loaded, queue, kind, lockgen, mgr, tx, check, record, budget>>

\* install_package commits, from memory, whatever the record says by now.
EndInstall(c, broken) ==
    /\ pc[c] = "run" /\ kind[c] = "install"
    /\ Release(c)
    /\ SetStatus(tx[c], "committed")
    /\ bad' = IF broken THEN bad \cup {tx[c]} ELSE bad
    /\ IF check[c] THEN Go(c, "check") /\ UNCHANGED <<queue, kind, lockgen, mgr, tx, check>>
       ELSE Return(c)
    /\ UNCHANGED <<gen, loaded, count, drift, checked, budget>>

FailInstall(c) ==
    /\ pc[c] = "run" /\ kind[c] = "install"
    /\ Release(c) /\ Return(c)
    /\ SetStatus(tx[c], "failed")
    /\ UNCHANGED <<gen, loaded, count, bad, drift, checked, budget>>

\* rollback_transaction(x, force=False) of the service, or of a failed check.
EndRollback(c) ==
    /\ \/ pc[c] = "run" /\ kind[c] = "rollback"
       \/ pc[c] = "undo_run"
    /\ Release(c)
    /\ IF status[tx[c]] = "committed" /\ tx[c] \notin drift
       THEN /\ SetStatus(tx[c], "rolled_back")
            /\ IF pc[c] = "run" /\ check[c]
               THEN Go(c, "check") /\ UNCHANGED <<queue, kind, lockgen, mgr, tx, check>>
               ELSE Return(c)
       ELSE Return(c) /\ UNCHANGED status
    /\ UNCHANGED <<gen, loaded, count, bad, drift, checked, budget>>

\* Mutant: an early return keeps the asyncio lock.
EndRecoverHolding(c) ==
    /\ pc[c] = "run" /\ kind[c] = "recover"
    /\ Release(c)
    /\ IF status[tx[c]] = "interrupted"
       THEN SetStatus(tx[c], "recovered") /\ Return(c)
       ELSE UNCHANGED <<status, call, queue>>
    /\ UNCHANGED <<gen, loaded, count, bad, drift, checked, budget>>

EndRecover(c) ==
    /\ pc[c] = "run" /\ kind[c] = "recover"
    /\ Release(c) /\ Return(c)
    /\ IF status[tx[c]] = "interrupted" THEN SetStatus(tx[c], "recovered") ELSE UNCHANGED status
    /\ UNCHANGED <<gen, loaded, count, bad, drift, checked, budget>>

\* The configuration on disk is broken while a broken transaction stands.
EndOther(c) ==
    /\ pc[c] = "run" /\ kind[c] \in {"uninstall", "quarantine"}
    /\ Release(c)
    /\ IF check[c] THEN Go(c, "check") /\ UNCHANGED <<queue, kind, lockgen, mgr, tx, check>>
       ELSE Return(c)
    /\ UNCHANGED <<gen, loaded, record, budget>>

Broken == \E x \in bad : status[x] = "committed"

\* Mutant: a check that raises does not roll the install back.
CheckConfigLeniently(c) ==
    /\ pc[c] = "check"
    /\ \/ Spend("check") /\ Return(c)
       \/ /\ UNCHANGED budget
          /\ IF kind[c] = "install" /\ Broken
             THEN Go(c, "undo") /\ UNCHANGED <<queue, kind, lockgen, mgr, tx, check>>
             ELSE Return(c)
    /\ UNCHANGED <<gen, loaded, tlock, flock, record>>

\* _check_config: passes, fails, or raises; an install is then rolled back.
CheckConfig(c) ==
    /\ pc[c] = "check"
    /\ \/ /\ Spend("check")
          /\ IF kind[c] = "install"
             THEN Go(c, "undo") /\ UNCHANGED <<queue, kind, lockgen, mgr, tx, check>>
             ELSE Return(c)
       \/ /\ UNCHANGED budget
          /\ IF kind[c] = "install" /\ Broken
             THEN Go(c, "undo") /\ UNCHANGED <<queue, kind, lockgen, mgr, tx, check>>
             ELSE Return(c)
    /\ UNCHANGED <<gen, loaded, tlock, flock, record>>

-----------------------------------------------------------------------------
(* The life of the config entry.                                           *)

\* async_unload_entry; calls in progress keep their manager and their lock.
Unload ==
    /\ loaded /\ Spend("reload")
    /\ loaded' = FALSE
    /\ UNCHANGED <<gen, locks, call, record>>

\* async_setup_entry: a new manager, whose constructor marks what it finds
\* unfinished, and a new asyncio lock.
Setup ==
    /\ ~loaded /\ loaded' = TRUE /\ gen' = gen + 1
    /\ status' = [x \in TxIds |-> IF status[x] = "staging" THEN "interrupted" ELSE status[x]]
    /\ UNCHANGED <<locks, call, count, bad, drift, checked, budget>>

Crash ==
    /\ Spend("crash") /\ \E c \in Calls : pc[c] # "idle"
    /\ loaded' = FALSE
    /\ queue' = [g \in Gens |-> <<>>] /\ tlock' = [g \in Gens |-> "none"] /\ flock' = "none"
    /\ pc' = [c \in Calls |-> "idle"] /\ tx' = [c \in Calls |-> 0]
    /\ UNCHANGED <<gen, kind, lockgen, mgr, check, record>>

Edit(x) ==
    /\ Spend("edit") /\ status[x] = "committed"
    /\ drift' = drift \cup {x}
    /\ UNCHANGED <<gen, loaded, locks, call, status, count, bad, checked>>

Step(c) ==
    \/ Enter(c) \/ Refused(c) \/ BeginInstall(c) \/ RejectInstall(c) \/ BeginUndo(c)
    \/ \E broken \in BOOLEAN : EndInstall(c, broken)
    \/ FailInstall(c) \/ EndRollback(c) \/ EndRecover(c) \/ EndOther(c) \/ CheckConfig(c)

NewCall(c) ==
    \/ \E b \in BOOLEAN : count < MaxTx /\ Call(c, "install", 0, b)
    \/ Call(c, "uninstall", 0, TRUE) \/ Call(c, "quarantine", 0, FALSE)
    \/ \E x \in TxIds : status[x] # "none" /\ (Call(c, "rollback", x, TRUE) \/ Call(c, "recover", x, FALSE))

Next == \/ \E c \in Calls : NewCall(c) \/ Step(c)
        \/ Unload \/ Setup \/ Crash
        \/ \E x \in TxIds : Edit(x)

Spec == Init /\ [][Next]_vars
\* The event loop and the executor run what was accepted.
FairSpec == Spec /\ \A c \in Calls : WF_vars(Step(c))

-----------------------------------------------------------------------------
(* Properties.                                                             *)

TypeOK ==
    /\ gen \in Gens /\ loaded \in BOOLEAN
    /\ queue \in [Gens -> Seq(Calls)] /\ tlock \in [Gens -> Calls \cup {"none"}] /\ flock \in Calls \cup {"none"}
    /\ pc \in [Calls -> {"idle", "wait", "engine", "run", "check", "undo", "undo_run"}]
    /\ kind \in [Calls -> Kinds] /\ lockgen \in [Calls -> Gens] /\ mgr \in [Calls -> Gens]
    /\ tx \in [Calls -> 0..MaxTx] /\ check \in [Calls -> BOOLEAN]
    /\ status \in [TxIds -> Statuses] /\ count \in 0..MaxTx
    /\ {bad, drift, checked} \subseteq SUBSET TxIds
    /\ budget \in [Mishaps -> Nat]

Running == {c \in Calls : pc[c] \in {"run", "undo_run"}}

\* Two operations never run at once, however often the entry is reloaded
\* under them.
OneRuns == \A c, d \in Running : c = d
\* As long as the entry is not reloaded, no call is turned away because
\* another one is in progress: it waits for its turn.
SinceStart == gen = 1 /\ loaded
NobodyTurnedAway == SinceStart => \A c \in Calls : ~(pc[c] \in {"engine", "undo"} /\ ~Free(c))
EngineExclusive == OneRuns /\ NobodyTurnedAway

\* An install that asked for the check and broke the configuration is not left
\* committed without a call that still checks it or rolls it back; as long as
\* nobody reloads, edits or crashes in between.
BrokenIsUndone ==
    SinceStart /\ drift = {} =>
        \A x \in bad \cap checked :
            status[x] = "committed" => \E c \in Calls : tx[c] = x /\ pc[c] \in {"check", "undo", "undo_run"}

\* Every accepted call returns.
Accepted(c) == pc[c] = "wait"
Returned(c) == pc[c] = "idle"
CallsReturn == \A c \in Calls : Accepted(c) ~> Returned(c)
=============================================================================
