------------------------- MODULE ServiceLayerProofs ------------------------
(***************************************************************************)
(* ServiceLayer for any number of calls, transactions, reloads and crashes.*)
(*                                                                         *)
(* EngineExclusive: the lock file names the one call whose operation runs, *)
(* whatever manager it uses (LockInv); each asyncio lock is with the call  *)
(* at the head of its queue (QueueInv), and until the first reload there   *)
(* is one such lock (GenInv).  BrokenIsUndone: the install itself stays    *)
(* with its transaction (InstallInv, AttendedInv).                         *)
(***************************************************************************)
EXTENDS ServiceLayer, TLAPS

Past(c) == pc[c] \notin {"idle", "wait"}

\* The lock file and one manager's thread lock are with the running operation.
LockInv ==
    /\ \A c \in Running : flock = c /\ tlock[mgr[c]] = c
    /\ flock # "none" => flock \in Running
    /\ \A g \in Gens : tlock[g] # "none" => tlock[g] \in Running /\ mgr[tlock[g]] = g

\* A call in progress is in the queue of its asyncio lock; one that is past
\* waiting is its head.
Queued(c) == \E i \in 1..Len(queue[lockgen[c]]) : queue[lockgen[c]][i] = c
AtHead(c) == queue[lockgen[c]][1] = c
QueueInv == \A c \in Calls : (pc[c] # "idle" => Queued(c)) /\ (Past(c) => AtHead(c))

\* Locks and managers are of set-ups there have been; each set-up after the
\* first has cost a reload or a crash.
GenInv == \A c \in Calls : lockgen[c] <= gen /\ mgr[c] <= gen
GenBound ==
    gen + (IF loaded THEN 0 ELSE 1) + budget["reload"] + budget["crash"]
        <= 1 + Budget["reload"] + Budget["crash"]

\* An install that runs remembers what its transaction was asked.
InstallInv ==
    \A c \in Calls :
        /\ pc[c] = "run" /\ kind[c] = "install" => tx[c] \in 1..count /\ (check[c] <=> tx[c] \in checked)
        /\ pc[c] \in {"undo", "undo_run"} => kind[c] = "install"

\* The install that broke the configuration is still at it.
Attends(c, x) == kind[c] = "install" /\ tx[c] = x /\ pc[c] \in {"check", "undo", "undo_run"}
AttendedInv ==
    SinceStart /\ drift = {} =>
        \A x \in bad \cap checked : status[x] = "committed" => \E c \in Calls : Attends(c, x)

FreshInv == \A x \in checked : x <= count

SafeInv == TypeOK /\ GenBound /\ GenInv /\ QueueInv /\ LockInv
IInv == SafeInv /\ InstallInv /\ FreshInv /\ AttendedInv

-----------------------------------------------------------------------------
(* One call moves, the others stay where they are.                         *)

Others(c) ==
    \A d \in Calls \ {c} : /\ pc'[d] = pc[d] /\ kind'[d] = kind[d] /\ lockgen'[d] = lockgen[d]
                           /\ mgr'[d] = mgr[d] /\ tx'[d] = tx[d] /\ check'[d] = check[d]
CallTypes ==
    /\ pc' \in [Calls -> {"idle", "wait", "engine", "run", "check", "undo", "undo_run"}]
    /\ kind' \in [Calls -> Kinds] /\ lockgen' \in [Calls -> Gens] /\ mgr' \in [Calls -> Gens]
    /\ tx' \in [Calls -> 0..MaxTx] /\ check' \in [Calls -> BOOLEAN]
    /\ queue' \in [Gens -> Seq(Calls)]

LEMMA GensType == Gens \subseteq Nat \ {0} /\ MaxTx \in Nat /\ TxIds \subseteq Nat
  BY ServiceAssumption DEF Gens, TxIds, BoundAssumption, Mishaps

\* Going on to another step with the asyncio lock.
LEMMA GoEffect ==
    ASSUME TypeOK, QueueInv, NEW c \in Calls, Past(c) \/ AtHead(c), pc[c] # "idle",
           NEW step \in {"engine", "run", "check", "undo", "undo_run"}, Go(c, step),
           UNCHANGED <<queue, kind, lockgen, mgr, tx, check>>
    PROVE  CallTypes /\ Others(c) /\ QueueInv' /\ pc'[c] = step
  <1>1. CallTypes /\ Others(c) /\ pc'[c] = step
    BY DEF Go, TypeOK, CallTypes, Others
  <1> QED
    BY <1>1 DEF QueueInv, Queued, AtHead, Past, Others

\* Returning passes the asyncio lock on.
LEMMA ReturnEffect ==
    ASSUME TypeOK, QueueInv, NEW c \in Calls, Past(c) \/ AtHead(c), pc[c] # "idle", Return(c)
    PROVE  /\ CallTypes /\ Others(c) /\ QueueInv'
           /\ pc'[c] = "idle" /\ UNCHANGED <<kind, lockgen, mgr, check>>
  <1> DEFINE g == lockgen[c]
             q == queue[g]
  <1>1. g \in Gens /\ q \in Seq(Calls) /\ Len(q) >= 1 /\ q[1] = c
    BY DEF TypeOK, QueueInv, Queued, AtHead
  <1>2. Tail(q) \in Seq(Calls) /\ Len(Tail(q)) = Len(q) - 1 /\ \A i \in 1..(Len(q) - 1) : Tail(q)[i] = q[i + 1]
    BY <1>1
  <1>3. queue' = [queue EXCEPT ![g] = Tail(q)]
    BY DEF Return
  <1>4. CallTypes
    BY <1>2, <1>3, GensType DEF Return, TypeOK, CallTypes
  <1>5. Others(c) /\ pc'[c] = "idle" /\ UNCHANGED <<kind, lockgen, mgr, check>>
    BY DEF Return, TypeOK, Others
  <1>6. ASSUME NEW d \in Calls \ {c}, pc[d] # "idle"
        PROVE  Queued(d)' /\ (Past(d)' => AtHead(d)')
    <2>1. lockgen[d] \in Gens /\ lockgen'[d] = lockgen[d] /\ pc'[d] = pc[d]
      BY <1>5 DEF Others, TypeOK
    <2>2. CASE lockgen[d] # g
      <3>1. queue'[lockgen[d]] = queue[lockgen[d]]
        BY <1>3, <2>1, <2>2 DEF TypeOK
      <3> QED
        BY <1>6, <2>1, <3>1 DEF QueueInv, Queued, AtHead, Past
    <2>3. CASE lockgen[d] = g
      <3>1. queue'[lockgen[d]] = Tail(q)
        BY <1>3, <2>1, <2>3 DEF TypeOK
      <3>2. PICK i \in 1..Len(q) : q[i] = d
        BY <1>6, <2>3 DEF QueueInv, Queued
      <3>3. i - 1 \in 1..(Len(q) - 1) /\ Tail(q)[i - 1] = d
        BY <1>1, <1>2, <3>2
      <3>4. ~Past(d)
        BY <1>1, <2>3 DEF QueueInv, AtHead
      <3> QED
        BY <1>2, <2>1, <3>1, <3>3, <3>4 DEF Queued, Past
    <2> QED
      BY <2>2, <2>3
  <1>7. QueueInv'
    <2>1. \A d \in Calls \ {c} : pc[d] = "idle" => pc'[d] = "idle"
      BY <1>5 DEF Others
    <2> QED
      BY <1>5, <1>6, <2>1 DEF QueueInv, Past
  <1> QED
    BY <1>4, <1>5, <1>7

\* A call that comes in queues up.
LEMMA CallEffect ==
    ASSUME TypeOK, QueueInv, NEW c \in Calls, NEW k \in Kinds, NEW x \in 0..MaxTx, NEW b \in BOOLEAN,
           Call(c, k, x, b)
    PROVE  /\ CallTypes /\ Others(c) /\ QueueInv'
           /\ pc[c] = "idle" /\ pc'[c] = "wait" /\ lockgen'[c] = gen /\ mgr'[c] = gen
  <1> DEFINE q == queue[gen]
  <1>1. gen \in Gens /\ q \in Seq(Calls) /\ queue' = [queue EXCEPT ![gen] = Append(q, c)]
    BY DEF TypeOK, Call
  <1>2. Append(q, c) \in Seq(Calls) /\ Len(Append(q, c)) = Len(q) + 1 /\ Append(q, c)[Len(q) + 1] = c
        /\ \A i \in 1..Len(q) : Append(q, c)[i] = q[i]
    BY <1>1
  <1>3. CallTypes
    BY <1>1, <1>2 DEF Call, Go, TypeOK, CallTypes
  <1>4. Others(c) /\ pc[c] = "idle" /\ pc'[c] = "wait" /\ lockgen'[c] = gen /\ mgr'[c] = gen
    BY DEF Call, Go, TypeOK, Others
  <1>5. ASSUME NEW d \in Calls \ {c}, pc[d] # "idle"
        PROVE  Queued(d)' /\ (Past(d)' => AtHead(d)')
    <2>1. lockgen[d] \in Gens /\ lockgen'[d] = lockgen[d] /\ pc'[d] = pc[d]
      BY <1>4 DEF Others, TypeOK
    <2>2. CASE lockgen[d] # gen
      <3>1. queue'[lockgen[d]] = queue[lockgen[d]]
        BY <1>1, <2>1, <2>2 DEF TypeOK
      <3> QED
        BY <1>5, <2>1, <3>1 DEF QueueInv, Queued, AtHead, Past
    <2>3. CASE lockgen[d] = gen
      <3>1. queue'[lockgen[d]] = Append(q, c)
        BY <1>1, <2>1, <2>3 DEF TypeOK
      <3>2. PICK i \in 1..Len(q) : q[i] = d
        BY <1>5, <2>3 DEF QueueInv, Queued
      <3>3. i \in 1..(Len(q) + 1) /\ Append(q, c)[i] = d /\ Append(q, c)[1] = q[1]
        BY <1>1, <1>2, <3>2
      <3> QED
        BY <1>2, <2>1, <2>3, <3>1, <3>3 DEF QueueInv, Queued, AtHead, Past
    <2> QED
      BY <2>2, <2>3
  <1>6. Queued(c)' /\ ~Past(c)'
    <2>1. queue'[lockgen'[c]] = Append(q, c) /\ Len(q) + 1 \in 1..(Len(q) + 1)
      BY <1>1, <1>4 DEF TypeOK
    <2> QED
      BY <1>2, <1>4, <2>1 DEF Queued, Past
  <1>7. QueueInv'
    <2>1. \A d \in Calls \ {c} : pc[d] = "idle" => pc'[d] = "idle"
      BY <1>4 DEF Others
    <2> QED
      BY <1>5, <1>6, <2>1 DEF QueueInv, Past
  <1> QED
    BY <1>3, <1>4, <1>7

\* Every step of a call is one or the other.
LEMMA StepEffect ==
    ASSUME TypeOK, QueueInv, NEW c \in Calls, Step(c)
    PROVE  /\ CallTypes /\ Others(c) /\ QueueInv'
           /\ UNCHANGED <<gen, loaded, kind, lockgen, check>>
           /\ mgr'[c] = mgr[c] \/ (pc[c] = "wait" /\ mgr'[c] = gen)
  <1>1. Past(c) => AtHead(c)
    BY DEF QueueInv
  <1>2. CASE Enter(c)
    <2>1. pc[c] = "wait" /\ Queued(c) /\ lockgen[c] \in Gens
      BY <1>2 DEF Enter, QueueInv, TypeOK
    <2>2. AtHead(c)
      <3>1. queue[lockgen[c]] \in Seq(Calls) /\ Len(queue[lockgen[c]]) >= 1
        BY <2>1 DEF TypeOK, Queued
      <3> QED
        BY <1>2, <3>1 DEF Enter, AtHead
    <2>3. CASE kind[c] \in LooksUpLate /\ loaded
      <3>1. CallTypes
        BY <1>2, <2>1, <2>3 DEF Enter, Go, TypeOK, CallTypes
      <3>2. Others(c) /\ mgr'[c] = gen /\ pc'[c] = "engine"
        BY <1>2, <2>1, <2>3 DEF Enter, Go, TypeOK, Others
      <3>3. QueueInv'
        BY <1>2, <2>1, <2>2, <2>3, <3>2 DEF Enter, QueueInv, Queued, AtHead, Past, Others
      <3> QED
        BY <1>2, <2>1, <2>3, <3>1, <3>2, <3>3 DEF Enter
    <2>4. CASE ~(kind[c] \in LooksUpLate /\ loaded)
      BY <1>2, <2>1, <2>2, <2>4, GoEffect, ReturnEffect DEF Enter
    <2> QED
      BY <2>3, <2>4
  <1>3. CASE ~Enter(c)
    <2>1. Past(c)
      BY <1>3 DEF Step, Refused, BeginInstall, RejectInstall, BeginUndo, EndInstall, FailInstall,
                  EndRollback, EndRecover, EndOther, CheckConfig, Past
    <2>2. CASE BeginInstall(c)
      <3>1. CallTypes
        <4>1. count + 1 \in 0..MaxTx
          BY <2>2, GensType DEF BeginInstall, TypeOK
        <4> QED
          BY <2>2, <4>1 DEF BeginInstall, Go, TypeOK, CallTypes
      <3>2. Others(c) /\ pc'[c] = "run" /\ mgr' = mgr
        BY <2>2 DEF BeginInstall, Go, TypeOK, Others
      <3>3. QueueInv'
        BY <2>1, <2>2, <3>2 DEF BeginInstall, QueueInv, Queued, AtHead, Past, Others
      <3> QED
        BY <2>2, <3>1, <3>2, <3>3 DEF BeginInstall
    <2>3. CASE ~BeginInstall(c)
      <3>1. /\ UNCHANGED <<gen, loaded>>
            /\ \/ Return(c)
               \/ /\ \E step \in {"run", "check", "undo", "undo_run"} : Go(c, step)
                  /\ UNCHANGED <<queue, kind, lockgen, mgr, tx, check>>
        BY <1>3, <2>3
        DEF Step, Refused, RejectInstall, BeginUndo, EndInstall, FailInstall, EndRollback,
            EndRecover, EndOther, CheckConfig
      <3> QED
        BY <2>1, <3>1, GoEffect, ReturnEffect DEF Past
    <2> QED
      BY <2>2, <2>3
  <1> QED
    BY <1>2, <1>3

LEMMA NewCallEffect ==
    ASSUME TypeOK, QueueInv, NEW c \in Calls, NewCall(c)
    PROVE  /\ CallTypes /\ Others(c) /\ QueueInv'
           /\ UNCHANGED <<gen, loaded, tlock, flock, record, budget>>
           /\ pc[c] = "idle" /\ pc'[c] = "wait" /\ lockgen'[c] = gen /\ mgr'[c] = gen
  <1>1. PICK k \in Kinds, x \in 0..MaxTx, b \in BOOLEAN : Call(c, k, x, b)
    <2>1. \A x \in TxIds : x \in 0..MaxTx
      BY GensType DEF TxIds
    <2>2. 0 \in 0..MaxTx
      BY GensType
    <2> QED
      BY <2>1, <2>2 DEF NewCall, Kinds
  <1>2. UNCHANGED <<gen, loaded, tlock, flock, record, budget>>
    BY <1>1 DEF Call
  <1> QED
    BY <1>1, <1>2, CallEffect

-----------------------------------------------------------------------------
(* The engine's locks.                                                     *)

LEMMA KeepLocks ==
    ASSUME TypeOK, LockInv, NEW c \in Calls, Others(c), UNCHANGED <<tlock, flock>>,
           c \notin Running, pc'[c] \notin {"run", "undo_run"}
    PROVE  LockInv'
  <1>1. Running' = Running
    BY DEF Running, Others
  <1>2. \A d \in Running : mgr'[d] = mgr[d]
    BY DEF Running, Others
  <1> QED
    BY <1>1, <1>2 DEF LockInv

LEMMA TakeLocks ==
    ASSUME TypeOK, LockInv, NEW c \in Calls, Others(c), UNCHANGED mgr, Free(c), Acquire(c),
           pc'[c] \in {"run", "undo_run"}
    PROVE  /\ LockInv'
           /\ tlock' \in [Gens -> Calls \cup {"none"}] /\ flock' \in Calls \cup {"none"}
  <1>1. Running = {}
    BY ServiceAssumption DEF LockInv, Free, CallAssumption, Running
  <1>2. Running' = {c}
    BY <1>1 DEF Running, Others
  <1>3. \A g \in Gens : tlock[g] = "none"
    BY <1>1 DEF LockInv
  <1>4. mgr[c] \in Gens /\ tlock' = [tlock EXCEPT ![mgr[c]] = c] /\ flock' = c
    BY DEF TypeOK, Acquire
  <1> QED
    BY <1>2, <1>3, <1>4 DEF LockInv, TypeOK

LEMMA GiveLocks ==
    ASSUME TypeOK, LockInv, NEW c \in Running, Others(c), UNCHANGED mgr, Release(c),
           pc'[c] \notin {"run", "undo_run"}
    PROVE  /\ LockInv'
           /\ tlock' \in [Gens -> Calls \cup {"none"}] /\ flock' \in Calls \cup {"none"}
  <1>1. Running = {c}
    BY DEF LockInv, Running
  <1>2. Running' = {}
    BY <1>1 DEF Running, Others
  <1>3. mgr[c] \in Gens /\ tlock' = [tlock EXCEPT ![mgr[c]] = "none"] /\ flock' = "none"
    BY DEF TypeOK, Release, Running
  <1>4. \A g \in Gens : tlock'[g] = "none"
    BY <1>1, <1>3 DEF LockInv, TypeOK
  <1> QED
    BY <1>2, <1>3, <1>4 DEF LockInv, TypeOK

\* What a step of a call does to the locks.
LEMMA StepLocks ==
    ASSUME TypeOK, QueueInv, LockInv, NEW c \in Calls, Step(c)
    PROVE  /\ LockInv'
           /\ tlock' \in [Gens -> Calls \cup {"none"}] /\ flock' \in Calls \cup {"none"}
  <1>0. Others(c)
    BY StepEffect
  <1>1. CASE Enter(c) \/ Refused(c) \/ RejectInstall(c) \/ CheckConfig(c)
    <2>1. UNCHANGED <<tlock, flock>> /\ c \notin Running /\ pc'[c] \notin {"run", "undo_run"}
      BY <1>1 DEF Enter, Refused, RejectInstall, CheckConfig, Return, Go, Running, TypeOK
    <2> QED
      BY <1>0, <2>1, KeepLocks DEF TypeOK
  <1>2. CASE BeginInstall(c) \/ BeginUndo(c)
    <2>1. UNCHANGED mgr /\ Free(c) /\ Acquire(c) /\ pc'[c] \in {"run", "undo_run"}
      BY <1>2 DEF BeginInstall, BeginUndo, Go, TypeOK
    <2> QED
      BY <1>0, <2>1, TakeLocks
  <1>3. CASE \/ \E broken \in BOOLEAN : EndInstall(c, broken)
             \/ FailInstall(c) \/ EndRollback(c) \/ EndRecover(c) \/ EndOther(c)
    <2>1. c \in Running /\ UNCHANGED mgr /\ Release(c) /\ pc'[c] \notin {"run", "undo_run"}
      BY <1>3 DEF EndInstall, FailInstall, EndRollback, EndRecover, EndOther, Return, Go, Running, TypeOK
    <2> QED
      BY <1>0, <2>1, GiveLocks
  <1> QED
    BY <1>1, <1>2, <1>3 DEF Step

-----------------------------------------------------------------------------
(* Types, and what an install remembers.                                   *)

\* What an install that runs and one that ends do to the records.
LEMMA StepRecord ==
    ASSUME TypeOK, InstallInv, NEW c \in Calls, Step(c)
    PROVE  /\ status' \in [TxIds -> Statuses] /\ count' \in 0..MaxTx
           /\ {bad', drift', checked'} \subseteq SUBSET TxIds
           /\ budget' \in [Mishaps -> Nat]
           /\ UNCHANGED <<budget, drift>> \/ (UNCHANGED drift /\ Spend("check"))
  <1>1. CASE BeginInstall(c)
    <2>1. count + 1 \in TxIds /\ count + 1 \in 0..MaxTx
      BY <1>1, GensType DEF BeginInstall, TypeOK, TxIds
    <2> QED
      BY <1>1, <2>1 DEF BeginInstall, SetStatus, TypeOK, Statuses
  <1>2. ASSUME NEW broken \in BOOLEAN, EndInstall(c, broken)
        PROVE  /\ status' \in [TxIds -> Statuses] /\ bad' \subseteq TxIds
               /\ UNCHANGED <<count, drift, checked, budget>>
    <2>1. tx[c] \in TxIds
      BY <1>2, GensType DEF EndInstall, InstallInv, TypeOK, TxIds
    <2> QED
      BY <1>2, <2>1 DEF EndInstall, SetStatus, TypeOK, Statuses
  <1>3. CASE FailInstall(c) \/ EndRollback(c) \/ EndRecover(c)
    BY <1>3 DEF FailInstall, EndRollback, EndRecover, SetStatus, TypeOK, Statuses
  <1>4. CASE CheckConfig(c)
    BY <1>4 DEF CheckConfig, Spend, TypeOK, record, Mishaps
  <1>5. CASE Enter(c) \/ Refused(c) \/ RejectInstall(c) \/ BeginUndo(c) \/ EndOther(c)
    BY <1>5 DEF Enter, Refused, RejectInstall, BeginUndo, EndOther, TypeOK, record
  <1> QED
    BY <1>1, <1>2, <1>3, <1>4, <1>5 DEF Step, TypeOK

LEMMA StepInstall ==
    ASSUME TypeOK, QueueInv, InstallInv, FreshInv, NEW c \in Calls, Step(c)
    PROVE  InstallInv' /\ FreshInv'
  <1>0. Others(c) /\ UNCHANGED <<kind, check>>
    BY StepEffect
  <1>1. CASE BeginInstall(c)
    <2>1. /\ count' = count + 1 /\ tx'[c] = count' /\ pc'[c] = "run" /\ count \in Nat
          /\ checked' = IF check[c] THEN checked \cup {count'} ELSE checked
      BY <1>1, GensType DEF BeginInstall, Go, TypeOK
    <2>2. \A x \in checked : x <= count /\ x \in Nat
      BY GensType DEF FreshInv, TypeOK
    <2>3. FreshInv'
      BY <2>1, <2>2 DEF FreshInv
    <2>4. tx'[c] \in 1..count' /\ (check[c] <=> tx'[c] \in checked')
      BY <2>1, <2>2
    <2>5. ASSUME NEW d \in Calls \ {c}, pc'[d] = "run", kind'[d] = "install"
          PROVE  tx'[d] \in 1..count' /\ (check'[d] <=> tx'[d] \in checked')
      <3>1. tx[d] \in 1..count /\ (check[d] <=> tx[d] \in checked) /\ tx'[d] = tx[d] /\ tx[d] # count'
        BY <1>0, <2>1, <2>5 DEF InstallInv, Others
      <3> QED
        BY <1>0, <2>1, <3>1
    <2> QED
      BY <1>0, <2>1, <2>3, <2>4, <2>5 DEF InstallInv, Others
  <1>2. CASE ~BeginInstall(c)
    <2>1. UNCHANGED <<count, checked>>
      BY <1>2
      DEF Step, Enter, Refused, RejectInstall, BeginUndo, EndInstall, FailInstall, EndRollback,
          EndRecover, EndOther, CheckConfig, record
    <2>2. pc'[c] = "run" => kind[c] # "install"
      BY <1>2
      DEF Step, Enter, Refused, RejectInstall, BeginUndo, EndInstall, FailInstall, EndRollback,
          EndRecover, EndOther, CheckConfig, Go, Return, TypeOK
    <2>3. pc'[c] \in {"undo", "undo_run"} => kind[c] = "install"
      BY <1>2
      DEF Step, Enter, Refused, RejectInstall, BeginUndo, EndInstall, FailInstall, EndRollback,
          EndRecover, EndOther, CheckConfig, Go, Return, TypeOK, InstallInv
    <2> QED
      BY <1>0, <2>1, <2>2, <2>3 DEF InstallInv, FreshInv, Others
  <1> QED
    BY <1>1, <1>2

LEMMA NewCallInstall ==
    ASSUME TypeOK, QueueInv, InstallInv, FreshInv, NEW c \in Calls, NewCall(c)
    PROVE  InstallInv' /\ FreshInv'
  BY NewCallEffect DEF InstallInv, FreshInv, Others, record

-----------------------------------------------------------------------------
(* Both of the first parts of the invariant, for every step.               *)

StableInv == SafeInv /\ InstallInv /\ FreshInv

LEMMA StepStable == ASSUME StableInv, NEW c \in Calls, Step(c) PROVE StableInv'
  <1>1. CallTypes /\ Others(c) /\ QueueInv' /\ UNCHANGED <<gen, loaded, kind, lockgen, check>>
        /\ (mgr'[c] = mgr[c] \/ mgr'[c] = gen)
    BY StepEffect DEF StableInv, SafeInv
  <1>2. LockInv' /\ tlock' \in [Gens -> Calls \cup {"none"}] /\ flock' \in Calls \cup {"none"}
    BY StepLocks DEF StableInv, SafeInv
  <1>3. TypeOK'
    BY <1>1, <1>2, StepRecord DEF StableInv, SafeInv, TypeOK, CallTypes
  <1>4. GenInv'
    <2>1. gen <= gen
      BY GensType DEF StableInv, SafeInv, TypeOK
    <2> QED
      BY <1>1, <2>1 DEF StableInv, SafeInv, GenInv, Others
  <1>5. GenBound'
    <2>1. budget'["reload"] = budget["reload"] /\ budget'["crash"] = budget["crash"]
      BY StepRecord DEF StableInv, SafeInv, Spend, TypeOK, Mishaps
    <2> QED
      BY <1>1, <2>1 DEF StableInv, SafeInv, GenBound
  <1> QED
    BY <1>1, <1>2, <1>3, <1>4, <1>5, StepInstall DEF StableInv, SafeInv

LEMMA NewCallStable == ASSUME StableInv, NEW c \in Calls, NewCall(c) PROVE StableInv'
  <1>1. /\ CallTypes /\ Others(c) /\ QueueInv'
        /\ UNCHANGED <<gen, loaded, tlock, flock, record, budget>>
        /\ pc[c] = "idle" /\ pc'[c] = "wait" /\ lockgen'[c] = gen /\ mgr'[c] = gen
    BY NewCallEffect DEF StableInv, SafeInv
  <1>2. LockInv'
    BY <1>1, KeepLocks DEF StableInv, SafeInv, Running
  <1>3. TypeOK'
    BY <1>1 DEF StableInv, SafeInv, TypeOK, CallTypes, record
  <1>4. GenInv' /\ GenBound'
    <2>1. gen <= gen
      BY GensType DEF StableInv, SafeInv, TypeOK
    <2> QED
      BY <1>1, <2>1 DEF StableInv, SafeInv, GenInv, GenBound, Others
  <1> QED
    BY <1>1, <1>2, <1>3, <1>4, NewCallInstall DEF StableInv, SafeInv

\* What the entry and the rest of the world do.
LEMMA LifeStable == ASSUME StableInv, Unload \/ Setup \/ Crash \/ \E x \in TxIds : Edit(x) PROVE StableInv'
  <1> USE DEF StableInv, SafeInv
  <1>0. /\ \A m \in Mishaps : budget[m] \in Nat /\ Budget[m] \in Nat
        /\ {"reload", "crash", "edit"} \subseteq Mishaps /\ gen \in Nat
    BY ServiceAssumption, GensType DEF TypeOK, Mishaps, BoundAssumption
  <1>1. ASSUME NEW m \in {"reload", "crash", "edit"}, Spend(m)
        PROVE  /\ budget' \in [Mishaps -> Nat] /\ budget'[m] = budget[m] - 1 /\ budget[m] > 0
               /\ \A n \in Mishaps \ {m} : budget'[n] = budget[n]
    BY <1>0, <1>1 DEF Spend, TypeOK
  <1>2. CASE Unload
    <2>1. budget' \in [Mishaps -> Nat] /\ budget'["reload"] = budget["reload"] - 1
          /\ budget'["crash"] = budget["crash"] /\ loaded' = FALSE /\ loaded /\ gen' = gen
      BY <1>0, <1>1, <1>2 DEF Unload
    <2>2. TypeOK'
      BY <1>2, <2>1 DEF Unload, TypeOK, locks, call, record
    <2>3. GenBound'
      BY <1>0, <2>1 DEF GenBound
    <2> QED
      BY <1>2, <2>2, <2>3
      DEF Unload, GenInv, QueueInv, Queued, AtHead, Past, LockInv, Running, InstallInv, FreshInv,
          locks, call, record
  <1>3. CASE Setup
    <2>1. gen + 1 \in Gens /\ GenBound'
      BY <1>0, <1>3 DEF Setup, GenBound, Gens, Mishaps
    <2>2. TypeOK'
      BY <1>3, <2>1 DEF Setup, TypeOK, Statuses, locks, call
    <2>3. GenInv'
      <3>1. \A c \in Calls : lockgen[c] \in Nat /\ mgr[c] \in Nat
        BY GensType DEF TypeOK
      <3> QED
        BY <1>0, <1>3, <3>1 DEF Setup, GenInv, call
    <2> QED
      BY <1>3, <2>1, <2>2, <2>3
      DEF Setup, QueueInv, Queued, AtHead, Past, LockInv, Running, InstallInv, FreshInv, locks, call
  <1>4. CASE Crash
    <2>1. budget' \in [Mishaps -> Nat] /\ budget'["crash"] = budget["crash"] - 1
          /\ budget'["reload"] = budget["reload"] /\ loaded' = FALSE /\ gen' = gen
      BY <1>0, <1>1, <1>4 DEF Crash
    <2>2. TypeOK'
      <3>1. queue' \in [Gens -> Seq(Calls)] /\ tlock' \in [Gens -> Calls \cup {"none"}]
            /\ flock' = "none"
        BY <1>4 DEF Crash
      <3>2. /\ pc' \in [Calls -> {"idle", "wait", "engine", "run", "check", "undo", "undo_run"}]
            /\ tx' \in [Calls -> 0..MaxTx]
        BY <1>4, GensType DEF Crash
      <3> QED
        BY <1>4, <2>1, <3>1, <3>2 DEF Crash, TypeOK, record
    <2>3. GenBound'
      BY <1>0, <2>1 DEF GenBound
    <2> QED
      BY <1>4, <2>2, <2>3
      DEF Crash, GenInv, QueueInv, Past, LockInv, Running, InstallInv, FreshInv, record
  <1>5. ASSUME NEW x \in TxIds, Edit(x)
        PROVE  StableInv'
    <2>1. TypeOK' /\ GenBound'
      BY <1>0, <1>1, <1>5 DEF Edit, TypeOK, GenBound, locks, call, Mishaps
    <2> QED
      BY <1>5, <2>1
      DEF Edit, GenInv, QueueInv, Queued, AtHead, Past, LockInv, Running, InstallInv, FreshInv,
          locks, call
  <1> QED
    BY <1>2, <1>3, <1>4, <1>5

LEMMA InitInv == Init => IInv
  <1> SUFFICES ASSUME Init PROVE IInv
    OBVIOUS
  <1>1. 1 \in Gens /\ Budget["reload"] \in Nat /\ Budget["crash"] \in Nat
    BY ServiceAssumption DEF Gens, BoundAssumption, Mishaps
  <1>2. TypeOK
    BY <1>1, GensType, ServiceAssumption DEF Init, TypeOK, BoundAssumption, Kinds, Statuses
  <1>3. GenBound
    BY <1>1 DEF Init, GenBound
  <1> QED
    BY <1>1, <1>2, <1>3
    DEF Init, IInv, SafeInv, GenInv, QueueInv, Past, LockInv, Running, InstallInv, FreshInv,
        AttendedInv

LEMMA NextStable == ASSUME StableInv, [Next]_vars PROVE StableInv'
  <1>1. CASE UNCHANGED vars
    BY <1>1
    DEF StableInv, SafeInv, TypeOK, GenBound, GenInv, QueueInv, Queued, AtHead, Past, LockInv,
        Running, InstallInv, FreshInv, vars, locks, call, record
  <1> QED
    BY <1>1, StepStable, NewCallStable, LifeStable DEF Next

-----------------------------------------------------------------------------
(* Nobody is turned away.                                                  *)

LEMMA TurnsTaken == ASSUME StableInv PROVE EngineExclusive
  <1> USE DEF StableInv, SafeInv
  <1>1. OneRuns
    BY DEF OneRuns, LockInv
  <1>2. ASSUME SinceStart, NEW c \in Calls, pc[c] \in {"engine", "undo"}, ~Free(c)
        PROVE  FALSE
    <2>1. \A d \in Calls : lockgen[d] = 1 /\ mgr[d] = 1
      <3> SUFFICES ASSUME NEW d \in Calls PROVE lockgen[d] = 1 /\ mgr[d] = 1
        OBVIOUS
      <3>1. lockgen[d] \in Nat \ {0} /\ mgr[d] \in Nat \ {0}
        BY GensType DEF TypeOK
      <3>2. lockgen[d] <= 1 /\ mgr[d] <= 1
        BY <1>2 DEF SinceStart, GenInv
      <3> QED
        BY <3>1, <3>2
    <2>2. PICK d \in Running : TRUE
      BY <1>2 DEF Free, LockInv, TypeOK
    <2>3. Past(c) /\ Past(d) /\ d \in Calls /\ d # c
      BY <1>2, <2>2 DEF Past, Running
    <2>4. AtHead(c) /\ AtHead(d)
      BY <2>3 DEF QueueInv
    <2> QED
      BY <2>1, <2>3, <2>4 DEF AtHead
  <1> QED
    BY <1>1, <1>2 DEF EngineExclusive, NobodyTurnedAway

\* Two operations never run at once, however often the entry is reloaded
\* under them; until then no call is turned away (_exclusive_operation and the
\* asyncio lock of async_setup_entry).
THEOREM Exclusion == Spec => []EngineExclusive
  <1>1. Init => StableInv
    BY InitInv DEF IInv, StableInv
  <1>2. StableInv /\ [Next]_vars => StableInv'
    BY NextStable
  <1>3. StableInv => EngineExclusive
    BY TurnsTaken
  <1> QED
    BY <1>1, <1>2, <1>3, PTL DEF Spec

-----------------------------------------------------------------------------
(* A broken install is attended to.                                        *)

LEMMA OtherAttends ==
    ASSUME NEW c \in Calls, Others(c), NEW d \in Calls \ {c}, NEW x, Attends(d, x)
    PROVE  Attends(d, x)'
  BY DEF Others, Attends

LEMMA StepAttended ==
    ASSUME StableInv, AttendedInv, SinceStart, drift = {}, NEW c \in Calls, Step(c),
           NEW x \in bad' \cap checked', status'[x] = "committed"
    PROVE  \E d \in Calls : Attends(d, x)'
  <1>1. Others(c) /\ UNCHANGED <<kind, check>> /\ TypeOK
    BY StepEffect DEF StableInv, SafeInv
  <1>2. x \in TxIds
    BY StepStable DEF StableInv, SafeInv, TypeOK
  <1>3. ASSUME x \in bad \cap checked, status[x] = "committed", ~Attends(c, x)
        PROVE  \E d \in Calls : Attends(d, x)'
    <2>1. PICK d \in Calls : Attends(d, x)
      BY <1>3 DEF AttendedInv
    <2> QED
      BY <1>1, <1>3, <2>1, OtherAttends
  <1>4. CASE BeginInstall(c)
    <2>1. x # count + 1
      BY <1>1, <1>2, <1>4 DEF BeginInstall, SetStatus, TypeOK
    <2>2. x \in bad \cap checked /\ status[x] = "committed" /\ ~Attends(c, x)
      BY <1>1, <1>4, <2>1 DEF BeginInstall, SetStatus, TypeOK, Attends
    <2> QED
      BY <1>3, <2>2
  <1>5. ASSUME NEW broken \in BOOLEAN, EndInstall(c, broken)
        PROVE  \E d \in Calls : Attends(d, x)'
    <2>1. CASE x = tx[c]
      <3>1. check[c]
        BY <1>5, <2>1 DEF EndInstall, StableInv, InstallInv
      <3>2. Attends(c, x)'
        BY <1>1, <1>5, <2>1, <3>1 DEF EndInstall, Go, Attends, TypeOK
      <3> QED
        BY <3>2
    <2>2. CASE x # tx[c]
      <3>1. x \in bad \cap checked /\ status[x] = "committed" /\ ~Attends(c, x)
        BY <1>1, <1>5, <2>2 DEF EndInstall, SetStatus, TypeOK, Attends
      <3> QED
        BY <1>3, <3>1
    <2> QED
      BY <2>1, <2>2
  <1>6. CASE FailInstall(c) \/ EndRecover(c) \/ EndOther(c)
    <2>1. x \in bad \cap checked /\ status[x] = "committed" /\ ~Attends(c, x)
      BY <1>1, <1>2, <1>6
      DEF FailInstall, EndRecover, EndOther, SetStatus, TypeOK, Attends, record
    <2> QED
      BY <1>3, <2>1
  <1>7. CASE EndRollback(c)
    <2>1. x \in bad \cap checked /\ status[x] = "committed"
      BY <1>1, <1>2, <1>7 DEF EndRollback, SetStatus, TypeOK
    <2>2. x # tx[c]
      BY <1>1, <1>2, <1>7, <2>1 DEF EndRollback, SetStatus, TypeOK
    <2> QED
      BY <1>3, <2>1, <2>2 DEF Attends
  <1>8. CASE Refused(c)
    <2>1. pc[c] # "undo"
      BY <1>8, TurnsTaken DEF Refused, EngineExclusive, NobodyTurnedAway
    <2>2. x \in bad \cap checked /\ status[x] = "committed" /\ ~Attends(c, x)
      BY <1>8, <2>1 DEF Refused, record, Attends
    <2> QED
      BY <1>3, <2>2
  <1>9. CASE Enter(c) \/ RejectInstall(c)
    <2>1. x \in bad \cap checked /\ status[x] = "committed" /\ ~Attends(c, x)
      BY <1>9 DEF Enter, RejectInstall, record, Attends
    <2> QED
      BY <1>3, <2>1
  <1>10. CASE BeginUndo(c) \/ CheckConfig(c)
    <2>1. x \in bad \cap checked /\ status[x] = "committed"
      BY <1>10 DEF BeginUndo, CheckConfig, record
    <2>2. CASE Attends(c, x)
      <3>1. Attends(c, x)'
        BY <1>1, <1>10, <2>1, <2>2 DEF BeginUndo, CheckConfig, Broken, Go, Attends, TypeOK
      <3> QED
        BY <3>1
    <2> QED
      BY <1>3, <2>1, <2>2
  <1> QED
    BY <1>4, <1>5, <1>6, <1>7, <1>8, <1>9, <1>10 DEF Step

LEMMA NextAttended == ASSUME StableInv, AttendedInv, [Next]_vars PROVE AttendedInv'
  <1> SUFFICES ASSUME SinceStart', drift' = {}, NEW x \in (bad \cap checked)', status'[x] = "committed"
               PROVE  \E d \in Calls : Attends(d, x)'
    BY DEF AttendedInv
  <1>1. CASE UNCHANGED vars
    BY <1>1 DEF AttendedInv, SinceStart, Attends, vars, locks, call, record
  <1>2. ASSUME NEW c \in Calls, Step(c)
        PROVE  \E d \in Calls : Attends(d, x)'
    <2>1. SinceStart /\ drift = {}
      BY <1>2, StepEffect, StepRecord DEF StableInv, SafeInv, SinceStart
    <2> QED
      BY <1>2, <2>1, StepAttended
  <1>3. ASSUME NEW c \in Calls, NewCall(c)
        PROVE  \E d \in Calls : Attends(d, x)'
    <2>1. Others(c) /\ pc[c] = "idle" /\ UNCHANGED <<gen, loaded, record>>
      BY <1>3, NewCallEffect DEF StableInv, SafeInv
    <2>2. PICK d \in Calls : Attends(d, x)
      BY <2>1 DEF AttendedInv, SinceStart, record
    <2>3. d # c
      BY <2>1, <2>2 DEF Attends
    <2> QED
      BY <2>1, <2>2, <2>3, OtherAttends
  <1>4. ~Unload /\ ~Crash /\ ~(\E y \in TxIds : Edit(y))
    BY DEF Unload, Crash, Edit, SinceStart
  <1>5. ~Setup
    <2>1. gen \in Nat \ {0}
      BY GensType DEF StableInv, SafeInv, TypeOK
    <2> QED
      BY <2>1 DEF Setup, SinceStart
  <1> QED
    BY <1>1, <1>2, <1>3, <1>4, <1>5 DEF Next

\* The invariant the results rest on.
THEOREM Invariance == Spec => []IInv
  <1>1. IInv /\ [Next]_vars => IInv'
    BY NextStable, NextAttended DEF IInv, StableInv
  <1> QED
    BY <1>1, InitInv, PTL DEF Spec

\* Every variable keeps its type.
THEOREM TypeCorrect == Spec => []TypeOK
  <1>1. IInv => TypeOK
    BY DEF IInv, SafeInv
  <1> QED
    BY <1>1, Invariance, PTL

\* An install that broke the configuration is not left committed without a
\* call that still checks it or rolls it back (handle_install).
THEOREM BrokenUndone == Spec => []BrokenIsUndone
  <1>1. IInv => BrokenIsUndone
    BY DEF IInv, AttendedInv, Attends, BrokenIsUndone
  <1> QED
    BY <1>1, Invariance, PTL
=============================================================================
