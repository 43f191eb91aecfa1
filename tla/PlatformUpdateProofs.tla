------------------------ MODULE PlatformUpdateProofs ------------------------
(***************************************************************************)
(* Proofs about PlatformUpdate: for any number of updates and versions and *)
(* any number of crashes, failing writes, swapped archives and reloads the *)
(* integration is never lost, and the tree that an operation makes live is *)
(* the right one.                                                          *)
(***************************************************************************)
EXTENDS PlatformUpdate, TLAPS

\* The steps of install_platform_update, those after its backup is complete, and
\* those of its except clause.
Installing == {"stage", "copy", "copied", "committing", "away", "in", "verify", "drop",
               "pending", "pfile", "announce"}
Copied == Installing \ {"stage", "copy", "copied"}
Undoing == {"undo", "undo_in", "undo_copy", "undo_record"}

\* No mishap happens more often than bounds says, so that Never, once false,
\* stays false.
LeftInv == \A m \in UpdateMishaps : left[m] <= bounds.mishaps[m]

\* Whoever is at work, loaded code or the emergency tool, works on a transaction
\* whose record it could read; the tool has one with a backup.
PlaceInv ==
    /\ step # "idle" => running # "down" /\ current \in 1..begun /\ Readable(current)
    /\ step \in Installing => pkg \in Updates /\ to[current] = ToOf[pkg]
    /\ boot # "none" => running # "down"
    /\ tool # "none" => /\ running = "down" /\ ttx \in UpdateIds
                        /\ backup[ttx] # Missing /\ Readable(ttx)
    /\ tool = "record" => live = backup[ttx]

\* Transactions that have not begun have left nothing, the one that has just begun
\* has no backup, no hold and is not in the pending file.
FreshInv ==
    /\ \A x \in UpdateIds : x > begun =>
           state[x] = "none" /\ hold[x] = Missing /\ backup[x] = Missing /\ pre[x] = Missing
    /\ pending.tx <= begun /\ bpend.tx <= begun
    /\ step \in {"stage", "copy"} => backup[current] = Missing /\ pre[current] = Missing
    /\ step = "copied" => backup[current] = Partial
    /\ step \in {"stage", "copy", "copied"} =>
           /\ state[current] \in {"staging", "interrupted"}
           /\ current \notin {pending.tx, bpend.tx}
    /\ step \in {"stage", "copy", "copied", "committing", "away"} => hold[current] = Missing

\* A backup is cut off or is the tree that the update replaced, and is that tree
\* once the update has gone on to replace it or has been confirmed.
CopyInv ==
    /\ \A x \in UpdateIds : backup[x] \in {Missing, Partial, pre[x]}
    /\ \A x \in UpdateIds :
           (\/ state[x] \in {"committing", "pending_restart", "confirmed"}
            \/ x \in {pending.tx, bpend.tx}) => backup[x] = pre[x]
    /\ step \in Copied => backup[current] = pre[current]

\* What NeverLost needs of each step: before a tree is moved away or deleted there
\* is a whole backup of it.
Guarded == Never("foreign") /\ ~spoilt
Backed == \E x \in UpdateIds : Whole(x)
SafeInv == Guarded =>
    /\ live \in Versions \/ Backed
    /\ step \in {"committing", "away"} => backup[current] = live
    /\ step \in Installing \cup Undoing /\ hold[current] # Missing => Backed
    /\ step \in {"in", "verify", "drop", "undo_in"} => hold[current] # Missing
    /\ step = "undo_copy" => live \notin Versions
    /\ step \in {"rb_copy", "rb_copied"} => Whole(current)
    /\ tool # "none" => Whole(ttx)

\* What is live when a rollback or an installation is about to be recorded.
TrueInv == Never("foreign") =>
    /\ step = "rb_record" => live = backup[current]
    /\ step \in {"drop", "pending"} => live = to[current]

\* Where the replaced tree is during an installation and its except clause.
FailInv == Never("foreign") /\ Never("io") =>
    /\ step \in {"copied", "committing", "away"} => live = pre[current] /\ live # Missing
    /\ step = "in" => live = Missing
    /\ step \in {"in", "verify"} => hold[current] = pre[current] /\ pre[current] # Missing
    /\ step = "undo" => /\ hold[current] = pre[current]
                        /\ pre[current] = Missing => backup[current] = Missing
    /\ step = "undo_in" => hold[current] = pre[current]
    /\ step = "undo_copy" => pre[current] = Missing
    /\ step = "undo_record" => pre[current] \in {live, Missing}

\* The inductive invariant.
IInv ==
    /\ UpdateTypeOK /\ LeftInv /\ PlaceInv /\ FreshInv
    /\ CopyInv /\ SafeInv /\ TrueInv /\ FailInv

-----------------------------------------------------------------------------
(* What every step keeps.                                                  *)

\* A mishap that happens is counted, and whether it has never happened can only
\* turn from true to false.
LEMMA LeftFacts ==
  ASSUME UpdateTypeOK, LeftInv, bounds' = bounds,
         UNCHANGED left \/ \E n \in UpdateMishaps : Meet(n)
  PROVE  /\ left' \in [UpdateMishaps -> Nat] /\ LeftInv'
         /\ \A m \in UpdateMishaps : Never(m)' => Never(m) /\ ~Meet(m)
<1>1. \A m \in UpdateMishaps : left[m] \in Nat /\ bounds.mishaps[m] \in Nat
  BY UpdateAssumption DEF UpdateTypeOK
<1>2. \A n \in UpdateMishaps : Meet(n) =>
          /\ left' \in [UpdateMishaps -> Nat] /\ left'[n] < left[n]
          /\ \A m \in UpdateMishaps : left'[m] <= left[m]
  <2>1. SUFFICES ASSUME NEW n \in UpdateMishaps, Meet(n)
                 PROVE  /\ left' \in [UpdateMishaps -> Nat] /\ left'[n] < left[n]
                        /\ \A m \in UpdateMishaps : left'[m] <= left[m]
    OBVIOUS
  <2>2. /\ left' \in [UpdateMishaps -> Nat] /\ left[n] > 0
        /\ \A m \in UpdateMishaps : left'[m] = IF m = n THEN left[n] - 1 ELSE left[m]
    BY <2>1 DEF Meet, UpdateTypeOK
  <2> QED
    BY <1>1, <2>2
<1>3. /\ left' \in [UpdateMishaps -> Nat]
      /\ \A m \in UpdateMishaps : left'[m] \in Nat /\ left'[m] <= left[m]
  BY <1>1, <1>2 DEF UpdateTypeOK
<1>4. LeftInv'
  BY <1>1, <1>3 DEF LeftInv
<1>5. \A m \in UpdateMishaps : Never(m)' => Never(m)
  BY <1>1, <1>3 DEF LeftInv, Never
<1>6. \A m \in UpdateMishaps : Never(m)' => ~Meet(m)
  BY <1>1, <1>2 DEF LeftInv, Never
<1> QED
  BY <1>3, <1>4, <1>5, <1>6

\* Where things are, and that transactions have numbers.
Places ==
    /\ live \in Tree /\ stage \in Tree /\ aside \in Tree
    /\ hold \in [UpdateIds -> Tree] /\ backup \in [UpdateIds -> Tree]
    /\ pre \in [UpdateIds -> Tree]
    /\ state \in [UpdateIds -> UpdateStatuses]
    /\ to \in [UpdateIds -> Versions \cup {Missing}]
    /\ begun \in Nat /\ pending.tx \in Nat /\ bpend.tx \in Nat
    /\ \A x \in UpdateIds : x \in Nat \ {0}
    /\ step # "idle" => current \in UpdateIds /\ current \in Nat /\ current <= begun
    /\ begun < bounds.updates => begun + 1 \in UpdateIds
    /\ spoilt \in BOOLEAN

\* The invariant places everything.
LEMMA Shape == ASSUME UpdateTypeOK, PlaceInv PROVE Places
<1>1. /\ begun \in Nat /\ MaxUpdates \in Nat
      /\ bounds.updates \in Nat /\ bounds.updates <= MaxUpdates
  BY UpdateAssumption DEF UpdateTypeOK
<1>2. \A x \in UpdateIds : x \in Nat \ {0}
  BY DEF UpdateIds
<1>3. step # "idle" => current \in UpdateIds /\ current \in Nat /\ current <= begun
  BY DEF UpdateTypeOK, PlaceInv, UpdateIds
<1>4. begun < bounds.updates => begun + 1 \in UpdateIds
  BY <1>1 DEF UpdateIds
<1>5. pending.tx \in Nat /\ bpend.tx \in Nat
  BY <1>1 DEF UpdateTypeOK, PendingFiles
<1>6. live \in Tree /\ stage \in Tree /\ aside \in Tree
  BY DEF UpdateTypeOK
<1> QED
  BY <1>2, <1>3, <1>4, <1>5, <1>6 DEF UpdateTypeOK, Places

\* What the lemmas about the actions take from the invariant.
LEMMA Known ==
  ASSUME IInv
  PROVE  /\ Places /\ {"io", "foreign"} \subseteq UpdateMishaps
         /\ PlaceInv /\ FreshInv /\ CopyInv /\ SafeInv /\ TrueInv /\ FailInv
  BY Shape DEF IInv, UpdateMishaps

-----------------------------------------------------------------------------
(* One lemma per action: it keeps the invariant.                           *)

LEMMA InstallStartInv ==
  ASSUME IInv, NEW p \in Updates, InstallStart(p), bounds' = bounds
  PROVE  IInv'
<1>1. /\ left' \in [UpdateMishaps -> Nat] /\ LeftInv'
      /\ \A m \in UpdateMishaps : Never(m)' => Never(m) /\ ~Meet(m)
  BY LeftFacts DEF IInv, UpdateMishaps, InstallStart, Proceed
<1>2. UpdateTypeOK'
  <2>1. begun' = begun + 1 /\ begun' \in UpdateIds /\ begun' \in 0..MaxUpdates
    BY Known DEF InstallStart, Places, UpdateIds
  <2>2. /\ state' \in [UpdateIds -> UpdateStatuses]
        /\ to' \in [UpdateIds -> Versions \cup {Missing}]
    BY Known, <2>1, VersionAssumption DEF InstallStart, Places, UpdateStatuses
  <2>3. /\ stage' \in Tree /\ step' \in {step, "stage"}
        /\ current' \in {current, begun'} /\ pkg' \in {pkg, p}
        /\ UNCHANGED <<live, hold, aside, backup, pending, running, boot, bpend,
                       tool, ttx, pre, spoilt>>
    BY DEF InstallStart, Tree, op, confirm, emergency, ghosts
  <2> QED
    BY <1>1, <2>1, <2>2, <2>3 DEF IInv, UpdateTypeOK, PendingFiles
<1>3. PlaceInv'
  BY Known DEF Places, PlaceInv, InstallStart, Readable, op, emergency, Installing
<1>4. FreshInv'
  BY Known DEF Places, FreshInv, InstallStart, op, confirm, ghosts
<1>5. CopyInv'
  BY Known DEF CopyInv, InstallStart, op, confirm, ghosts, Copied
<1>6. SafeInv'
  BY Known, <1>1 DEF Places, SafeInv, Whole, Backed, Guarded, FreshInv, InstallStart,
     Readable, op, emergency, ghosts
<1>7. TrueInv'
  BY DEF TrueInv, InstallStart, op
<1>8. FailInv'
  BY Known, <1>1 DEF FailInv, InstallStart
<1> QED
  BY <1>1, <1>2, <1>3, <1>4, <1>5, <1>6, <1>7, <1>8 DEF IInv

LEMMA StageInv ==
  ASSUME IInv, Stage, bounds' = bounds
  PROVE  IInv'
<1>1. /\ left' \in [UpdateMishaps -> Nat] /\ LeftInv'
      /\ \A m \in UpdateMishaps : Never(m)' => Never(m) /\ ~Meet(m)
  BY LeftFacts DEF IInv, UpdateMishaps, Stage, Proceed
<1>2. UpdateTypeOK'
  BY <1>1, VersionAssumption DEF IInv, UpdateTypeOK, Installing, Tree, PlaceInv,
     PendingFiles, Stage, Proceed, txRecord, confirm, emergency, ghosts
<1>3. PlaceInv'
  BY Known DEF PlaceInv, Stage, Proceed, Readable, txRecord, emergency, Installing
<1>4. FreshInv'
  BY Known DEF FreshInv, Stage, Proceed, txRecord, confirm, ghosts
<1>5. CopyInv'
  BY Known DEF CopyInv, Stage, Proceed, txRecord, confirm, ghosts, Installing, Copied
<1>6. SafeInv'
  BY Known, <1>1 DEF SafeInv, Whole, Backed, Guarded, Stage, Proceed, Readable,
     txRecord, emergency, ghosts, Installing
<1>7. TrueInv'
  BY DEF TrueInv, Stage, Proceed
<1>8. FailInv'
  BY Known, <1>1 DEF FailInv, Stage, Proceed
<1> QED
  BY <1>1, <1>2, <1>3, <1>4, <1>5, <1>6, <1>7, <1>8 DEF IInv

LEMMA CopyBeginInv ==
  ASSUME IInv, CopyBegin, bounds' = bounds
  PROVE  IInv'
<1>1. /\ left' \in [UpdateMishaps -> Nat] /\ LeftInv'
      /\ \A m \in UpdateMishaps : Never(m)' => Never(m) /\ ~Meet(m)
  BY LeftFacts DEF IInv, CopyBegin, Proceed
<1>2. UpdateTypeOK'
  BY VersionAssumption DEF IInv, UpdateTypeOK, Tree, FreshInv, PendingFiles, CopyBegin,
     Proceed, txRecord, confirm, emergency, ghosts
<1>3. PlaceInv'
  BY Known DEF PlaceInv, CopyBegin, Proceed, Readable, txRecord, emergency, Installing
<1>4. FreshInv'
  BY Known DEF Places, FreshInv, CopyBegin, Proceed, txRecord, confirm, ghosts
<1>5. CopyInv'
  BY Known DEF Places, CopyInv, FreshInv, CopyBegin, Proceed, txRecord, confirm, ghosts,
     Copied
<1>6. SafeInv'
  BY Known, <1>1, VersionAssumption DEF Places, PlaceInv, SafeInv, Whole, Backed,
     Guarded, FreshInv, CopyBegin, Proceed, Readable, txRecord, emergency
<1>7. TrueInv'
  BY DEF TrueInv, CopyBegin, Proceed
<1>8. FailInv'
  BY Known DEF Places, FailInv, FreshInv, CopyBegin, Proceed, ghosts
<1> QED
  BY <1>1, <1>2, <1>3, <1>4, <1>5, <1>6, <1>7, <1>8 DEF IInv

LEMMA CopyEndInv ==
  ASSUME IInv, CopyEnd, bounds' = bounds
  PROVE  IInv'
<1>1. /\ left' \in [UpdateMishaps -> Nat] /\ LeftInv'
      /\ \A m \in UpdateMishaps : Never(m)' => Never(m) /\ ~Meet(m)
  BY LeftFacts DEF IInv, UpdateMishaps, CopyEnd, Proceed
<1>2. UpdateTypeOK'
  BY <1>1, VersionAssumption, UpdateAssumption DEF IInv, UpdateTypeOK, Places,
     PendingFiles, CopyEnd, Proceed, txRecord, confirm, emergency, ghosts
<1>3. PlaceInv'
  BY Known DEF PlaceInv, CopyEnd, Proceed, Readable, txRecord, emergency, Installing
<1>4. FreshInv'
  BY Known DEF Places, FreshInv, CopyEnd, Proceed, txRecord, confirm, ghosts
<1>5. CopyInv'
  BY Known DEF Places, CopyInv, CopyEnd, Proceed, txRecord, confirm, ghosts, Installing,
     Copied
<1>6. SafeInv'
  BY Known, <1>1 DEF Places, PlaceInv, SafeInv, Whole, Backed, Guarded, FreshInv, Tree,
     CopyEnd, Proceed, Readable, txRecord, emergency
<1>7. TrueInv'
  BY DEF TrueInv, CopyEnd, Proceed
<1>8. FailInv'
  BY Known, <1>1 DEF Places, FailInv, CopyEnd, Proceed
<1> QED
  BY <1>1, <1>2, <1>3, <1>4, <1>5, <1>6, <1>7, <1>8 DEF IInv

LEMMA MarkCommittingInv ==
  ASSUME IInv, MarkCommitting, bounds' = bounds
  PROVE  IInv'
<1>1. /\ left' \in [UpdateMishaps -> Nat] /\ LeftInv'
      /\ \A m \in UpdateMishaps : Never(m)' => Never(m) /\ ~Meet(m)
  BY LeftFacts DEF IInv, UpdateMishaps, MarkCommitting, Proceed
<1>2. UpdateTypeOK'
  BY <1>1, VersionAssumption DEF IInv, UpdateTypeOK, UpdateStatuses, FreshInv,
     PendingFiles, MarkCommitting, Proceed, Mark, trees, txRecord, confirm, emergency,
     ghosts
<1>3. PlaceInv'
  BY Known DEF Places, PlaceInv, MarkCommitting, Proceed, Mark, Readable, txRecord,
     emergency, Installing
<1>4. FreshInv'
  BY Known DEF Places, FreshInv, MarkCommitting, Proceed, Mark, trees, txRecord,
     confirm, ghosts
<1>5. CopyInv'
  BY Known DEF Places, CopyInv, MarkCommitting, Proceed, Mark, trees, txRecord, confirm,
     ghosts, Installing, Copied
<1>6. SafeInv'
  BY Known, <1>1 DEF Places, PlaceInv, SafeInv, Whole, Backed, Guarded, MarkCommitting,
     Proceed, Mark, Readable, trees, txRecord, emergency, ghosts
<1>7. TrueInv'
  BY DEF TrueInv, MarkCommitting, Proceed
<1>8. FailInv'
  BY Known, <1>1 DEF FailInv, MarkCommitting, Proceed, trees, ghosts
<1> QED
  BY <1>1, <1>2, <1>3, <1>4, <1>5, <1>6, <1>7, <1>8 DEF IInv

LEMMA MoveAwayInv ==
  ASSUME IInv, MoveAway, bounds' = bounds
  PROVE  IInv'
<1>1. /\ left' \in [UpdateMishaps -> Nat] /\ LeftInv'
      /\ \A m \in UpdateMishaps : Never(m)' => Never(m) /\ ~Meet(m)
  BY LeftFacts DEF IInv, UpdateMishaps, MoveAway, Proceed
<1>2. UpdateTypeOK'
  BY <1>1 DEF IInv, UpdateTypeOK, Tree, PendingFiles, MoveAway, Proceed, txRecord,
     confirm, emergency, ghosts
<1>3. PlaceInv'
  BY Known DEF PlaceInv, MoveAway, Proceed, Readable, txRecord, emergency, Installing
<1>4. FreshInv'
  BY Known DEF Places, FreshInv, MoveAway, Proceed, txRecord, confirm, ghosts
<1>5. CopyInv'
  BY Known DEF CopyInv, MoveAway, Proceed, txRecord, confirm, ghosts, Installing, Copied
<1>6. SafeInv'
  BY Known, <1>1 DEF Places, PlaceInv, SafeInv, Whole, Backed, Guarded, MoveAway,
     Proceed, Readable, txRecord, emergency, ghosts
<1>7. TrueInv'
  BY DEF TrueInv, MoveAway, Proceed
<1>8. FailInv'
  BY Known, <1>1 DEF Places, FailInv, MoveAway, Proceed, ghosts
<1> QED
  BY <1>1, <1>2, <1>3, <1>4, <1>5, <1>6, <1>7, <1>8 DEF IInv

LEMMA MoveInInv ==
  ASSUME IInv, MoveIn, bounds' = bounds
  PROVE  IInv'
<1>1. /\ left' \in [UpdateMishaps -> Nat] /\ LeftInv'
      /\ \A m \in UpdateMishaps : Never(m)' => Never(m) /\ ~Meet(m)
  BY LeftFacts DEF IInv, UpdateMishaps, MoveIn, Proceed
<1>2. UpdateTypeOK'
  <2>1. /\ live' \in Tree /\ stage' \in Tree /\ hold' \in [UpdateIds -> Tree]
        /\ UNCHANGED <<aside, backup, state, to, begun, pending, running, current,
                       pkg, boot, bpend, tool, ttx, pre, spoilt>>
        /\ step' \in {"verify", "undo"}
    BY Known DEF Places, MoveIn, Proceed, txRecord, confirm, emergency, ghosts
  <2> QED
    BY <1>1, <2>1 DEF IInv, UpdateTypeOK
<1>3. PlaceInv'
  BY Known DEF PlaceInv, MoveIn, Proceed, Readable, txRecord, emergency, Installing
<1>4. FreshInv'
  BY Known DEF Places, FreshInv, MoveIn, Proceed, txRecord, confirm, ghosts
<1>5. CopyInv'
  BY Known DEF CopyInv, MoveIn, Proceed, txRecord, confirm, ghosts, Installing, Copied
<1>6. SafeInv'
  BY Known, <1>1 DEF SafeInv, Whole, Backed, Guarded, MoveIn, Proceed, Readable,
     txRecord, emergency, ghosts, Installing
<1>7. TrueInv'
  BY DEF TrueInv, MoveIn, Proceed
<1>8. FailInv'
  BY Known, <1>1 DEF FailInv, MoveIn, Proceed, ghosts
<1> QED
  BY <1>1, <1>2, <1>3, <1>4, <1>5, <1>6, <1>7, <1>8 DEF IInv

LEMMA VerifyInv ==
  ASSUME IInv, Verify, bounds' = bounds
  PROVE  IInv'
<1>1. /\ left' \in [UpdateMishaps -> Nat] /\ LeftInv'
      /\ \A m \in UpdateMishaps : Never(m)' => Never(m) /\ ~Meet(m)
  BY LeftFacts DEF IInv, Verify, Proceed
<1>2. UpdateTypeOK'
  BY DEF IInv, UpdateTypeOK, PendingFiles, Verify, Proceed, trees, txRecord, confirm,
     emergency, ghosts
<1>3. PlaceInv'
  BY Known DEF PlaceInv, Verify, Proceed, Readable, txRecord, emergency, Installing
<1>4. FreshInv'
  BY Known DEF FreshInv, Verify, Proceed, trees, txRecord, confirm, ghosts
<1>5. CopyInv'
  BY Known DEF CopyInv, Verify, Proceed, trees, txRecord, confirm, ghosts, Installing,
     Copied
<1>6. SafeInv'
  BY Known, <1>1 DEF SafeInv, Whole, Backed, Guarded, Verify, Proceed, Readable, trees,
     txRecord, emergency, ghosts, Installing
<1>7. TrueInv'
  BY Known DEF PlaceInv, TrueInv, Verify, Proceed, trees, txRecord, Installing
<1>8. FailInv'
  BY Known, <1>1 DEF FailInv, Verify, Proceed, trees, ghosts
<1> QED
  BY <1>1, <1>2, <1>3, <1>4, <1>5, <1>6, <1>7, <1>8 DEF IInv

LEMMA DropHoldInv ==
  ASSUME IInv, DropHold, bounds' = bounds
  PROVE  IInv'
<1>1. /\ left' \in [UpdateMishaps -> Nat] /\ LeftInv'
      /\ \A m \in UpdateMishaps : Never(m)' => Never(m) /\ ~Meet(m)
  BY LeftFacts DEF IInv, UpdateMishaps, DropHold, Proceed
<1>2. UpdateTypeOK'
  BY <1>1 DEF IInv, UpdateTypeOK, Tree, PendingFiles, DropHold, Proceed, txRecord,
     confirm, emergency, ghosts
<1>3. PlaceInv'
  BY Known DEF PlaceInv, DropHold, Proceed, Readable, txRecord, emergency, Installing
<1>4. FreshInv'
  BY Known DEF Places, FreshInv, DropHold, Proceed, txRecord, confirm, ghosts
<1>5. CopyInv'
  BY Known DEF CopyInv, DropHold, Proceed, txRecord, confirm, ghosts, Installing, Copied
<1>6. SafeInv'
  BY Known, <1>1 DEF SafeInv, Whole, Backed, Guarded, DropHold, Proceed, Readable,
     txRecord, emergency, ghosts, Installing
<1>7. TrueInv'
  BY Known, <1>1 DEF TrueInv, DropHold, Proceed, txRecord
<1>8. FailInv'
  BY DEF FailInv, DropHold, Proceed
<1> QED
  BY <1>1, <1>2, <1>3, <1>4, <1>5, <1>6, <1>7, <1>8 DEF IInv

LEMMA MarkPendingInv ==
  ASSUME IInv, MarkPending, bounds' = bounds
  PROVE  IInv'
<1>1. /\ left' \in [UpdateMishaps -> Nat] /\ LeftInv'
      /\ \A m \in UpdateMishaps : Never(m)' => Never(m) /\ ~Meet(m)
  BY LeftFacts DEF IInv, UpdateMishaps, MarkPending, Proceed
<1>2. UpdateTypeOK'
  BY <1>1, VersionAssumption DEF IInv, UpdateTypeOK, UpdateStatuses, FreshInv,
     PendingFiles, MarkPending, Proceed, Mark, trees, txRecord, confirm, emergency,
     ghosts
<1>3. PlaceInv'
  BY Known DEF Places, PlaceInv, MarkPending, Proceed, Mark, Readable, txRecord,
     emergency, Installing
<1>4. FreshInv'
  BY Known DEF Places, FreshInv, MarkPending, Proceed, Mark, trees, txRecord, confirm,
     ghosts
<1>5. CopyInv'
  BY Known DEF Places, CopyInv, MarkPending, Proceed, Mark, trees, txRecord, confirm,
     ghosts, Installing, Copied
<1>6. SafeInv'
  BY Known, <1>1 DEF Places, PlaceInv, SafeInv, Whole, Backed, Guarded, MarkPending,
     Proceed, Mark, Readable, trees, txRecord, emergency, ghosts, Installing
<1>7. TrueInv'
  BY DEF TrueInv, MarkPending, Proceed
<1>8. FailInv'
  BY Known, <1>1 DEF FailInv, MarkPending, Proceed
<1> QED
  BY <1>1, <1>2, <1>3, <1>4, <1>5, <1>6, <1>7, <1>8 DEF IInv

LEMMA WritePendingFileInv ==
  ASSUME IInv, WritePendingFile, bounds' = bounds
  PROVE  IInv'
<1>1. /\ left' \in [UpdateMishaps -> Nat] /\ LeftInv'
      /\ \A m \in UpdateMishaps : Never(m)' => Never(m) /\ ~Meet(m)
  BY LeftFacts DEF IInv, UpdateMishaps, WritePendingFile, Proceed
<1>2. UpdateTypeOK'
  BY <1>1 DEF IInv, UpdateTypeOK, PendingFiles, WritePendingFile, Proceed, trees,
     txRecord, confirm, emergency, ghosts
<1>3. PlaceInv'
  BY Known DEF PlaceInv, WritePendingFile, Proceed, Readable, txRecord, emergency,
     Installing
<1>4. FreshInv'
  BY Known DEF PlaceInv, FreshInv, WritePendingFile, Proceed, trees, txRecord, confirm,
     ghosts
<1>5. CopyInv'
  BY Known DEF CopyInv, WritePendingFile, Proceed, trees, txRecord, confirm, ghosts,
     Installing, Copied
<1>6. SafeInv'
  BY Known, <1>1 DEF SafeInv, Whole, Backed, Guarded, WritePendingFile, Proceed,
     Readable, trees, txRecord, emergency, ghosts, Installing
<1>7. TrueInv'
  BY DEF TrueInv, WritePendingFile, Proceed
<1>8. FailInv'
  BY Known, <1>1 DEF FailInv, WritePendingFile, Proceed
<1> QED
  BY <1>1, <1>2, <1>3, <1>4, <1>5, <1>6, <1>7, <1>8 DEF IInv

LEMMA AnnounceInv ==
  ASSUME IInv, Announce, bounds' = bounds
  PROVE  IInv'
<1>1. /\ left' \in [UpdateMishaps -> Nat] /\ LeftInv'
      /\ \A m \in UpdateMishaps : Never(m)' => Never(m) /\ ~Meet(m)
  BY LeftFacts DEF IInv, UpdateMishaps, Announce, Proceed
<1>2. UpdateTypeOK'
  BY <1>1, UpdateAssumption DEF IInv, UpdateTypeOK, PendingFiles, Announce, Proceed,
     Finish, trees, txRecord, confirm, emergency, ghosts
<1>3. PlaceInv'
  BY Known DEF PlaceInv, Announce, Proceed, Finish, Readable, txRecord, emergency,
     Installing
<1>4. FreshInv'
  BY Known DEF FreshInv, Announce, Proceed, Finish, trees, txRecord, confirm, ghosts
<1>5. CopyInv'
  BY Known DEF CopyInv, Announce, Proceed, Finish, trees, txRecord, confirm, ghosts,
     Installing, Copied
<1>6. SafeInv'
  BY Known, <1>1 DEF SafeInv, Whole, Backed, Guarded, Announce, Proceed, Finish,
     Readable, trees, txRecord, emergency, ghosts, Installing, Undoing
<1>7. TrueInv'
  BY DEF TrueInv, Announce, Proceed, Finish
<1>8. FailInv'
  BY Known, <1>1 DEF FailInv, Announce, Finish
<1> QED
  BY <1>1, <1>2, <1>3, <1>4, <1>5, <1>6, <1>7, <1>8 DEF IInv

LEMMA UndoBeginInv ==
  ASSUME IInv, UndoBegin, bounds' = bounds
  PROVE  IInv'
<1>1. /\ left' \in [UpdateMishaps -> Nat] /\ LeftInv'
      /\ \A m \in UpdateMishaps : Never(m)' => Never(m) /\ ~Meet(m)
  BY LeftFacts DEF IInv, UpdateMishaps, UndoBegin, Proceed
<1>2. UpdateTypeOK'
  BY <1>1 DEF IInv, UpdateTypeOK, Tree, PendingFiles, UndoBegin, Proceed, txRecord,
     confirm, emergency, ghosts
<1>3. PlaceInv'
  BY Known DEF PlaceInv, UndoBegin, Proceed, Readable, txRecord, emergency, Installing
<1>4. FreshInv'
  BY Known DEF FreshInv, UndoBegin, Proceed, txRecord, confirm, ghosts
<1>5. CopyInv'
  BY Known DEF CopyInv, UndoBegin, Proceed, txRecord, confirm, ghosts, Installing,
     Copied
<1>6. SafeInv'
  BY Known, <1>1, VersionAssumption DEF SafeInv, Whole, Backed, Guarded, UndoBegin,
     Proceed, Readable, txRecord, emergency, ghosts, Undoing
<1>7. TrueInv'
  BY DEF TrueInv, UndoBegin, Proceed
<1>8. FailInv'
  BY Known, <1>1 DEF FailInv, UndoBegin, Proceed, ghosts
<1> QED
  BY <1>1, <1>2, <1>3, <1>4, <1>5, <1>6, <1>7, <1>8 DEF IInv

LEMMA UndoInInv ==
  ASSUME IInv, UndoIn, bounds' = bounds
  PROVE  IInv'
<1>1. /\ left' \in [UpdateMishaps -> Nat] /\ LeftInv'
      /\ \A m \in UpdateMishaps : Never(m)' => Never(m) /\ ~Meet(m)
  BY LeftFacts DEF IInv, UpdateMishaps, UndoIn, Proceed
<1>2. UpdateTypeOK'
  BY Known, <1>1, VersionAssumption, UpdateAssumption DEF IInv, UpdateTypeOK, Places,
     Tree, FreshInv, PendingFiles, UndoIn, Proceed, txRecord, confirm, emergency, ghosts
<1>3. PlaceInv'
  BY Known DEF PlaceInv, UndoIn, Proceed, Readable, txRecord, emergency, Installing
<1>4. FreshInv'
  BY Known DEF Places, FreshInv, UndoIn, Proceed, txRecord, confirm, ghosts
<1>5. CopyInv'
  BY Known DEF CopyInv, UndoIn, Proceed, txRecord, confirm, ghosts, Installing, Copied
<1>6. SafeInv'
  BY Known, <1>1 DEF SafeInv, Whole, Backed, Guarded, UndoIn, Proceed, Readable,
     txRecord, emergency, ghosts, Undoing
<1>7. TrueInv'
  BY DEF TrueInv, UndoIn, Proceed
<1>8. FailInv'
  BY Known, <1>1 DEF FailInv, UndoIn, Proceed, ghosts
<1> QED
  BY <1>1, <1>2, <1>3, <1>4, <1>5, <1>6, <1>7, <1>8 DEF IInv

LEMMA UndoCopyInv ==
  ASSUME IInv, UndoCopy, bounds' = bounds
  PROVE  IInv'
<1>1. /\ left' \in [UpdateMishaps -> Nat] /\ LeftInv'
      /\ \A m \in UpdateMishaps : Never(m)' => Never(m) /\ ~Meet(m)
  BY LeftFacts DEF IInv, UpdateMishaps, UndoCopy, Proceed
<1>2. UpdateTypeOK'
  BY Known, <1>1, VersionAssumption DEF IInv, UpdateTypeOK, Places, PendingFiles,
     UndoCopy, Proceed, txRecord, confirm, emergency, ghosts
<1>3. PlaceInv'
  BY Known DEF PlaceInv, UndoCopy, Proceed, Readable, txRecord, emergency, Installing
<1>4. FreshInv'
  BY Known DEF FreshInv, UndoCopy, Proceed, txRecord, confirm, ghosts
<1>5. CopyInv'
  BY Known DEF CopyInv, UndoCopy, Proceed, txRecord, confirm, ghosts, Installing, Copied
<1>6. SafeInv'
  BY Known, <1>1 DEF SafeInv, Whole, Backed, Guarded, UndoCopy, Proceed, Readable,
     txRecord, emergency, ghosts
<1>7. TrueInv'
  BY DEF TrueInv, UndoCopy, Proceed
<1>8. FailInv'
  BY Known, <1>1 DEF FailInv, UndoCopy, Proceed, ghosts
<1> QED
  BY <1>1, <1>2, <1>3, <1>4, <1>5, <1>6, <1>7, <1>8 DEF IInv

LEMMA UndoRecordInv ==
  ASSUME IInv, UndoRecord, bounds' = bounds
  PROVE  IInv'
<1>1. /\ left' \in [UpdateMishaps -> Nat] /\ LeftInv'
      /\ \A m \in UpdateMishaps : Never(m)' => Never(m) /\ ~Meet(m)
  BY LeftFacts DEF IInv, UpdateMishaps, UndoRecord, Proceed
<1>2. UpdateTypeOK'
  BY <1>1, VersionAssumption, UpdateAssumption DEF IInv, UpdateTypeOK, Places, Tree,
     UpdateStatuses, FreshInv, PendingFiles, UndoRecord, Finish, Mark, txRecord,
     confirm, emergency, ghosts
<1>3. PlaceInv'
  BY Known DEF PlaceInv, UndoRecord, Finish, emergency, Installing
<1>4. FreshInv'
  BY Known DEF Places, FreshInv, UndoRecord, Finish, Mark, txRecord, confirm, ghosts
<1>5. CopyInv'
  BY Known DEF Places, CopyInv, UndoRecord, Finish, Mark, txRecord, confirm, ghosts,
     Installing, Copied
<1>6. SafeInv'
  BY Known, <1>1 DEF Places, PlaceInv, SafeInv, Whole, Backed, Guarded, UndoRecord,
     Finish, Mark, Readable, txRecord, emergency, ghosts, Installing, Undoing
<1>7. TrueInv'
  BY DEF TrueInv, UndoRecord, Finish
<1>8. FailInv'
  BY DEF FailInv, UndoRecord, Finish
<1> QED
  BY <1>1, <1>2, <1>3, <1>4, <1>5, <1>6, <1>7, <1>8 DEF IInv

LEMMA RollbackStartInv ==
  ASSUME IInv, NEW x \in UpdateIds, RollbackStart(x), bounds' = bounds
  PROVE  IInv'
<1>1. /\ left' \in [UpdateMishaps -> Nat] /\ LeftInv'
      /\ \A m \in UpdateMishaps : Never(m)' => Never(m) /\ ~Meet(m)
  BY LeftFacts DEF IInv, RollbackStart, Proceed
<1>2. UpdateTypeOK'
  BY DEF IInv, UpdateTypeOK, Tree, UpdateIds, PendingFiles, RollbackStart,
     MoveLiveAside, txRecord, confirm, emergency
<1>3. PlaceInv'
  BY Known DEF Places, PlaceInv, FreshInv, RollbackStart, Readable, txRecord, emergency,
     Installing
<1>4. FreshInv'
  BY Known DEF FreshInv, RollbackStart, MoveLiveAside, txRecord, confirm
<1>5. CopyInv'
  BY Known DEF CopyInv, RollbackStart, MoveLiveAside, txRecord, confirm, Installing,
     Copied
<1>6. SafeInv'
  BY Known, VersionAssumption DEF Places, PlaceInv, SafeInv, Whole, Backed, Guarded,
     FreshInv, CopyInv, Tree, RollbackStart, MoveLiveAside, Readable, txRecord, confirm,
     emergency, Copied, Undoing
<1>7. TrueInv'
  BY Known DEF TrueInv, RollbackStart
<1>8. FailInv'
  BY Known DEF FailInv, RollbackStart
<1> QED
  BY <1>1, <1>2, <1>3, <1>4, <1>5, <1>6, <1>7, <1>8 DEF IInv

LEMMA RollbackCopyBeginInv ==
  ASSUME IInv, RollbackCopyBegin, bounds' = bounds
  PROVE  IInv'
<1>1. /\ left' \in [UpdateMishaps -> Nat] /\ LeftInv'
      /\ \A m \in UpdateMishaps : Never(m)' => Never(m) /\ ~Meet(m)
  BY LeftFacts DEF IInv, UpdateMishaps, RollbackCopyBegin, Proceed
<1>2. UpdateTypeOK'
  BY <1>1, UpdateAssumption DEF IInv, UpdateTypeOK, Tree, PendingFiles,
     RollbackCopyBegin, Proceed, Finish, txRecord, confirm, emergency, ghosts
<1>3. PlaceInv'
  BY Known DEF PlaceInv, RollbackCopyBegin, Proceed, Finish, Readable, txRecord,
     emergency, Installing
<1>4. FreshInv'
  BY Known DEF FreshInv, RollbackCopyBegin, Proceed, Finish, txRecord, confirm, ghosts
<1>5. CopyInv'
  BY Known DEF CopyInv, RollbackCopyBegin, Proceed, Finish, txRecord, confirm, ghosts,
     Installing, Copied
<1>6. SafeInv'
  BY Known, <1>1 DEF Places, SafeInv, Whole, Backed, Guarded, RollbackCopyBegin,
     Proceed, Finish, Readable, txRecord, emergency, ghosts
<1>7. TrueInv'
  BY DEF TrueInv, RollbackCopyBegin, Proceed, Finish
<1>8. FailInv'
  BY Known, <1>1 DEF FailInv, RollbackCopyBegin, Proceed
<1> QED
  BY <1>1, <1>2, <1>3, <1>4, <1>5, <1>6, <1>7, <1>8 DEF IInv

LEMMA RollbackCopyEndInv ==
  ASSUME IInv, RollbackCopyEnd, bounds' = bounds
  PROVE  IInv'
<1>1. /\ left' \in [UpdateMishaps -> Nat] /\ LeftInv'
      /\ \A m \in UpdateMishaps : Never(m)' => Never(m) /\ ~Meet(m)
  BY LeftFacts DEF IInv, UpdateMishaps, RollbackCopyEnd, Proceed
<1>2. UpdateTypeOK'
  BY Known, <1>1, VersionAssumption, UpdateAssumption DEF IInv, UpdateTypeOK, Places,
     Tree, PendingFiles, RollbackCopyEnd, Proceed, Finish, txRecord, confirm, emergency,
     ghosts
<1>3. PlaceInv'
  BY Known DEF PlaceInv, RollbackCopyEnd, Proceed, Finish, Readable, txRecord,
     emergency, Installing
<1>4. FreshInv'
  BY Known DEF FreshInv, RollbackCopyEnd, Proceed, Finish, txRecord, confirm, ghosts
<1>5. CopyInv'
  BY Known DEF CopyInv, RollbackCopyEnd, Proceed, Finish, txRecord, confirm, ghosts,
     Installing, Copied
<1>6. SafeInv'
  BY Known, <1>1 DEF SafeInv, Whole, Backed, Guarded, RollbackCopyEnd, Proceed, Finish,
     Readable, txRecord, emergency, ghosts, Installing, Undoing
<1>7. TrueInv'
  BY DEF TrueInv, RollbackCopyEnd, Proceed, Finish
<1>8. FailInv'
  BY Known, <1>1 DEF FailInv, RollbackCopyEnd, Proceed
<1> QED
  BY <1>1, <1>2, <1>3, <1>4, <1>5, <1>6, <1>7, <1>8 DEF IInv

LEMMA RollbackRecordInv ==
  ASSUME IInv, RollbackRecord, bounds' = bounds
  PROVE  IInv'
<1>1. /\ left' \in [UpdateMishaps -> Nat] /\ LeftInv'
      /\ \A m \in UpdateMishaps : Never(m)' => Never(m) /\ ~Meet(m)
  BY LeftFacts DEF IInv, UpdateMishaps, RollbackRecord, Proceed
<1>2. UpdateTypeOK'
  BY <1>1, VersionAssumption, UpdateAssumption DEF IInv, UpdateTypeOK, Places,
     UpdateStatuses, PendingFiles, RollbackRecord, Proceed, Finish, Mark, trees,
     txRecord, confirm, emergency, ghosts
<1>3. PlaceInv'
  BY Known DEF Places, PlaceInv, RollbackRecord, Proceed, Finish, Mark, Readable,
     emergency, Installing
<1>4. FreshInv'
  BY Known DEF Places, FreshInv, RollbackRecord, Proceed, Finish, Mark, trees, txRecord,
     confirm, ghosts
<1>5. CopyInv'
  BY Known DEF Places, CopyInv, RollbackRecord, Proceed, Finish, Mark, trees, txRecord,
     confirm, ghosts, Installing, Copied
<1>6. SafeInv'
  BY Known, <1>1 DEF Places, PlaceInv, SafeInv, Whole, Backed, Guarded, RollbackRecord,
     Proceed, Finish, Mark, Readable, trees, txRecord, emergency, ghosts, Installing,
     Undoing
<1>7. TrueInv'
  BY DEF TrueInv, RollbackRecord, Proceed, Finish
<1>8. FailInv'
  BY Known, <1>1 DEF FailInv, RollbackRecord, Proceed
<1> QED
  BY <1>1, <1>2, <1>3, <1>4, <1>5, <1>6, <1>7, <1>8 DEF IInv

LEMMA RollbackUnlinkInv ==
  ASSUME IInv, RollbackUnlink, bounds' = bounds
  PROVE  IInv'
<1>1. /\ left' \in [UpdateMishaps -> Nat] /\ LeftInv'
      /\ \A m \in UpdateMishaps : Never(m)' => Never(m) /\ ~Meet(m)
  BY LeftFacts DEF IInv, RollbackUnlink, Proceed
<1>2. UpdateTypeOK'
  BY UpdateAssumption DEF IInv, UpdateTypeOK, NoPending, PendingFiles, RollbackUnlink,
     Finish, trees, txRecord, confirm, emergency, ghosts
<1>3. PlaceInv'
  BY Known DEF PlaceInv, RollbackUnlink, Finish, emergency, Installing
<1>4. FreshInv'
  BY Known DEF Places, FreshInv, NoPending, RollbackUnlink, Finish, trees, txRecord,
     confirm, ghosts
<1>5. CopyInv'
  BY Known DEF Places, CopyInv, NoPending, RollbackUnlink, Finish, trees, txRecord,
     confirm, ghosts, Installing, Copied
<1>6. SafeInv'
  BY Known, <1>1 DEF SafeInv, Whole, Backed, Guarded, RollbackUnlink, Finish, Readable,
     trees, txRecord, emergency, ghosts, Installing, Undoing
<1>7. TrueInv'
  BY DEF TrueInv, RollbackUnlink, Finish
<1>8. FailInv'
  BY DEF FailInv, RollbackUnlink, Finish
<1> QED
  BY <1>1, <1>2, <1>3, <1>4, <1>5, <1>6, <1>7, <1>8 DEF IInv

LEMMA ConfirmReadInv ==
  ASSUME IInv, ConfirmRead, bounds' = bounds
  PROVE  IInv'
<1>1. /\ left' \in [UpdateMishaps -> Nat] /\ LeftInv'
      /\ \A m \in UpdateMishaps : Never(m)' => Never(m) /\ ~Meet(m)
  BY LeftFacts DEF IInv, ConfirmRead, Proceed
<1>2. UpdateTypeOK'
  BY DEF IInv, UpdateTypeOK, PendingFiles, ConfirmRead, trees, txRecord, op, emergency,
     ghosts
<1>3. PlaceInv'
  BY Known DEF PlaceInv, ConfirmRead, Readable, txRecord, op, emergency
<1>4. FreshInv'
  BY Known DEF FreshInv, ConfirmRead, trees, txRecord, op, ghosts
<1>5. CopyInv'
  BY Known DEF CopyInv, ConfirmRead, trees, txRecord, op, ghosts
<1>6. SafeInv'
  BY Known, <1>1 DEF SafeInv, Whole, Backed, Guarded, ConfirmRead, Readable, trees,
     txRecord, op, emergency, ghosts
<1>7. TrueInv'
  BY Known, <1>1 DEF TrueInv, ConfirmRead, trees, txRecord, op
<1>8. FailInv'
  BY Known, <1>1 DEF FailInv, ConfirmRead, trees, op, ghosts
<1> QED
  BY <1>1, <1>2, <1>3, <1>4, <1>5, <1>6, <1>7, <1>8 DEF IInv

LEMMA ConfirmRecordInv ==
  ASSUME IInv, ConfirmRecord, bounds' = bounds
  PROVE  IInv'
<1>1. /\ left' \in [UpdateMishaps -> Nat] /\ LeftInv'
      /\ \A m \in UpdateMishaps : Never(m)' => Never(m) /\ ~Meet(m)
  BY LeftFacts DEF IInv, ConfirmRecord, Proceed
<1>2. UpdateTypeOK'
  BY Known, <1>1, VersionAssumption, UpdateAssumption DEF IInv, UpdateTypeOK, Places,
     Installing, Tree, UpdateIds, UpdateStatuses, PlaceInv, FreshInv, NoPending,
     PendingFiles, ConfirmRecord, Proceed, Finish, Mark, MoveLiveAside, MarkInterrupted,
     Down, ToolEnd, Readable, trees, txRecord, op, confirm, emergency, ghosts
<1>3. PlaceInv'
  BY Known DEF PlaceInv, ConfirmRecord, Mark, Readable, op, emergency
<1>4. FreshInv'
  BY Known DEF Places, FreshInv, ConfirmRecord, Mark, trees, op, ghosts
<1>5. CopyInv'
  BY Known DEF CopyInv, ConfirmRecord, Mark, trees, op, ghosts
<1>6. SafeInv'
  BY Known, <1>1 DEF SafeInv, Whole, Backed, Guarded, ConfirmRecord, Mark, Readable,
     trees, op, emergency, ghosts
<1>7. TrueInv'
  BY Known, <1>1 DEF TrueInv, ConfirmRecord, Mark, trees, op
<1>8. FailInv'
  BY Known, <1>1 DEF FailInv, ConfirmRecord, trees, op, ghosts
<1> QED
  BY <1>1, <1>2, <1>3, <1>4, <1>5, <1>6, <1>7, <1>8 DEF IInv

LEMMA ConfirmPendingInv ==
  ASSUME IInv, ConfirmPending, bounds' = bounds
  PROVE  IInv'
<1>1. /\ left' \in [UpdateMishaps -> Nat] /\ LeftInv'
      /\ \A m \in UpdateMishaps : Never(m)' => Never(m) /\ ~Meet(m)
  BY LeftFacts DEF IInv, ConfirmPending, Proceed
<1>2. UpdateTypeOK'
  BY UpdateAssumption DEF IInv, UpdateTypeOK, Places, FreshInv, NoPending, PendingFiles,
     ConfirmPending, trees, txRecord, op, emergency, ghosts
<1>3. PlaceInv'
  BY Known DEF PlaceInv, ConfirmPending, Readable, txRecord, op, emergency
<1>4. FreshInv'
  BY Known DEF Places, FreshInv, NoPending, ConfirmPending, trees, txRecord, op, ghosts
<1>5. CopyInv'
  BY Known DEF Places, CopyInv, NoPending, ConfirmPending, trees, txRecord, op, ghosts
<1>6. SafeInv'
  BY Known, <1>1 DEF SafeInv, Whole, Backed, Guarded, ConfirmPending, Readable, trees,
     txRecord, op, emergency, ghosts
<1>7. TrueInv'
  BY Known, <1>1 DEF TrueInv, ConfirmPending, trees, txRecord, op
<1>8. FailInv'
  BY Known, <1>1 DEF FailInv, ConfirmPending, trees, op, ghosts
<1> QED
  BY <1>1, <1>2, <1>3, <1>4, <1>5, <1>6, <1>7, <1>8 DEF IInv

LEMMA BootInv ==
  ASSUME IInv, Boot, bounds' = bounds
  PROVE  IInv'
<1>1. /\ left' \in [UpdateMishaps -> Nat] /\ LeftInv'
      /\ \A m \in UpdateMishaps : Never(m)' => Never(m) /\ ~Meet(m)
  BY LeftFacts DEF IInv, Boot, Proceed
<1>2. UpdateTypeOK'
  BY DEF IInv, UpdateTypeOK, UpdateStatuses, PendingFiles, Boot, MarkInterrupted,
     trees, op, emergency, ghosts
<1>3. PlaceInv'
  BY Known, VersionAssumption DEF PlaceInv, Boot, MarkInterrupted, op, emergency
<1>4. FreshInv'
  BY Known DEF PlaceInv, FreshInv, Boot, MarkInterrupted, trees, op, ghosts
<1>5. CopyInv'
  BY Known DEF CopyInv, Boot, MarkInterrupted, trees, op, ghosts
<1>6. SafeInv'
  BY Known, <1>1 DEF PlaceInv, SafeInv, Whole, Backed, Guarded, Boot, MarkInterrupted,
     Readable, trees, op, emergency, ghosts
<1>7. TrueInv'
  BY Known, <1>1 DEF TrueInv, Boot, MarkInterrupted, trees, op
<1>8. FailInv'
  BY Known, <1>1 DEF FailInv, Boot, trees, op, ghosts
<1> QED
  BY <1>1, <1>2, <1>3, <1>4, <1>5, <1>6, <1>7, <1>8 DEF IInv

LEMMA ReloadInv ==
  ASSUME IInv, Reload, bounds' = bounds
  PROVE  IInv'
<1>1. /\ left' \in [UpdateMishaps -> Nat] /\ LeftInv'
      /\ \A m \in UpdateMishaps : Never(m)' => Never(m) /\ ~Meet(m)
  BY LeftFacts DEF IInv, UpdateMishaps, Reload, Proceed
<1>2. UpdateTypeOK'
  BY <1>1 DEF IInv, UpdateTypeOK, UpdateStatuses, PendingFiles, Reload, MarkInterrupted,
     trees, op, emergency, ghosts
<1>3. PlaceInv'
  BY Known DEF Places, PlaceInv, Reload, MarkInterrupted, Readable, op, emergency
<1>4. FreshInv'
  BY Known DEF Places, FreshInv, Reload, MarkInterrupted, trees, op, ghosts
<1>5. CopyInv'
  BY Known DEF CopyInv, Reload, MarkInterrupted, trees, op, ghosts
<1>6. SafeInv'
  BY Known, <1>1 DEF Places, PlaceInv, SafeInv, Whole, Backed, Guarded, Reload,
     MarkInterrupted, Readable, trees, op, emergency, ghosts
<1>7. TrueInv'
  BY Known, <1>1 DEF TrueInv, Reload, MarkInterrupted, trees, op
<1>8. FailInv'
  BY Known, <1>1 DEF FailInv, Reload, trees, op, ghosts
<1> QED
  BY <1>1, <1>2, <1>3, <1>4, <1>5, <1>6, <1>7, <1>8 DEF IInv

LEMMA StopInv ==
  ASSUME IInv, Stop, bounds' = bounds
  PROVE  IInv'
<1>1. /\ left' \in [UpdateMishaps -> Nat] /\ LeftInv'
      /\ \A m \in UpdateMishaps : Never(m)' => Never(m) /\ ~Meet(m)
  BY LeftFacts DEF IInv, Stop, Proceed
<1>2. UpdateTypeOK'
  BY UpdateAssumption DEF IInv, UpdateTypeOK, NoPending, PendingFiles, Stop, Finish,
     Down, trees, txRecord, emergency, ghosts
<1>3. PlaceInv'
  BY Known DEF PlaceInv, Stop, Finish, Down, emergency, Installing
<1>4. FreshInv'
  BY Known DEF Places, FreshInv, NoPending, Stop, Finish, Down, trees, txRecord, ghosts
<1>5. CopyInv'
  BY Known DEF Places, CopyInv, NoPending, Stop, Finish, Down, trees, txRecord, ghosts,
     Installing, Copied
<1>6. SafeInv'
  BY Known, <1>1 DEF SafeInv, Whole, Backed, Guarded, Stop, Finish, Down, Readable,
     trees, txRecord, emergency, ghosts, Installing, Undoing
<1>7. TrueInv'
  BY DEF TrueInv, Stop, Finish, Down
<1>8. FailInv'
  BY DEF FailInv, Stop, Finish, Down
<1> QED
  BY <1>1, <1>2, <1>3, <1>4, <1>5, <1>6, <1>7, <1>8 DEF IInv

LEMMA DieInv ==
  ASSUME IInv, Die, bounds' = bounds
  PROVE  IInv'
<1>1. /\ left' \in [UpdateMishaps -> Nat] /\ LeftInv'
      /\ \A m \in UpdateMishaps : Never(m)' => Never(m) /\ ~Meet(m)
  BY LeftFacts DEF IInv, UpdateMishaps, Die, Proceed
<1>2. UpdateTypeOK'
  BY <1>1, UpdateAssumption DEF IInv, UpdateTypeOK, NoPending, PendingFiles, Die,
     Finish, Down, trees, txRecord, emergency, ghosts
<1>3. PlaceInv'
  BY Known DEF PlaceInv, Die, Finish, Down, emergency, Installing
<1>4. FreshInv'
  BY Known DEF Places, FreshInv, NoPending, Die, Finish, Down, trees, txRecord, ghosts
<1>5. CopyInv'
  BY Known DEF Places, CopyInv, NoPending, Die, Finish, Down, trees, txRecord, ghosts,
     Installing, Copied
<1>6. SafeInv'
  BY Known, <1>1 DEF SafeInv, Whole, Backed, Guarded, Die, Finish, Down, Readable,
     trees, txRecord, emergency, ghosts, Installing, Undoing
<1>7. TrueInv'
  BY DEF TrueInv, Die, Finish, Down
<1>8. FailInv'
  BY DEF FailInv, Die, Finish, Down
<1> QED
  BY <1>1, <1>2, <1>3, <1>4, <1>5, <1>6, <1>7, <1>8 DEF IInv

LEMMA ToolStartInv ==
  ASSUME IInv, NEW x \in UpdateIds, ToolStart(x), bounds' = bounds
  PROVE  IInv'
<1>1. /\ left' \in [UpdateMishaps -> Nat] /\ LeftInv'
      /\ \A m \in UpdateMishaps : Never(m)' => Never(m) /\ ~Meet(m)
  BY LeftFacts DEF IInv, ToolStart, Proceed
<1>2. UpdateTypeOK'
  BY DEF IInv, UpdateTypeOK, Tree, UpdateIds, PendingFiles, ToolStart, MoveLiveAside,
     txRecord, op, confirm
<1>3. PlaceInv'
  BY Known DEF PlaceInv, ToolStart, Readable, txRecord, op, confirm
<1>4. FreshInv'
  BY Known DEF FreshInv, ToolStart, MoveLiveAside, txRecord, op, confirm
<1>5. CopyInv'
  BY Known DEF CopyInv, ToolStart, MoveLiveAside, txRecord, op, confirm
<1>6. SafeInv'
  BY Known, VersionAssumption DEF Places, PlaceInv, SafeInv, Whole, Backed, Guarded,
     FreshInv, CopyInv, Tree, ToolStart, MoveLiveAside, Readable, txRecord, op, confirm,
     Copied, Undoing
<1>7. TrueInv'
  BY Known DEF PlaceInv, TrueInv, ToolStart, op
<1>8. FailInv'
  BY Known DEF PlaceInv, FailInv, ToolStart, op
<1> QED
  BY <1>1, <1>2, <1>3, <1>4, <1>5, <1>6, <1>7, <1>8 DEF IInv

LEMMA ToolCopyBeginInv ==
  ASSUME IInv, ToolCopyBegin, bounds' = bounds
  PROVE  IInv'
<1>1. /\ left' \in [UpdateMishaps -> Nat] /\ LeftInv'
      /\ \A m \in UpdateMishaps : Never(m)' => Never(m) /\ ~Meet(m)
  BY LeftFacts DEF IInv, UpdateMishaps, ToolCopyBegin, Proceed
<1>2. UpdateTypeOK'
  BY <1>1, UpdateAssumption DEF IInv, UpdateTypeOK, Tree, PendingFiles, ToolCopyBegin,
     ToolEnd, txRecord, op, confirm, ghosts
<1>3. PlaceInv'
  BY Known DEF PlaceInv, ToolCopyBegin, ToolEnd, Readable, txRecord, op, confirm
<1>4. FreshInv'
  BY Known DEF FreshInv, ToolCopyBegin, txRecord, op, confirm, ghosts
<1>5. CopyInv'
  BY Known DEF CopyInv, ToolCopyBegin, txRecord, op, confirm, ghosts
<1>6. SafeInv'
  BY Known, <1>1 DEF PlaceInv, SafeInv, Whole, Backed, Guarded, ToolCopyBegin, ToolEnd,
     Readable, txRecord, op, ghosts
<1>7. TrueInv'
  BY Known DEF PlaceInv, TrueInv, ToolCopyBegin, op
<1>8. FailInv'
  BY Known DEF PlaceInv, FailInv, ToolCopyBegin, op
<1> QED
  BY <1>1, <1>2, <1>3, <1>4, <1>5, <1>6, <1>7, <1>8 DEF IInv

LEMMA ToolCopyEndInv ==
  ASSUME IInv, ToolCopyEnd, bounds' = bounds
  PROVE  IInv'
<1>1. /\ left' \in [UpdateMishaps -> Nat] /\ LeftInv'
      /\ \A m \in UpdateMishaps : Never(m)' => Never(m) /\ ~Meet(m)
  BY LeftFacts DEF IInv, UpdateMishaps, ToolCopyEnd, Proceed
<1>2. UpdateTypeOK'
  BY <1>1, UpdateAssumption DEF IInv, UpdateTypeOK, Tree, PlaceInv, FreshInv,
     PendingFiles, ToolCopyEnd, ToolEnd, txRecord, op, confirm, ghosts
<1>3. PlaceInv'
  BY Known DEF PlaceInv, ToolCopyEnd, ToolEnd, Readable, txRecord, op, confirm
<1>4. FreshInv'
  BY Known DEF FreshInv, ToolCopyEnd, txRecord, op, confirm, ghosts
<1>5. CopyInv'
  BY Known DEF CopyInv, ToolCopyEnd, txRecord, op, confirm, ghosts
<1>6. SafeInv'
  BY Known, <1>1 DEF PlaceInv, SafeInv, Whole, Backed, Guarded, ToolCopyEnd, ToolEnd,
     Readable, txRecord, op, ghosts
<1>7. TrueInv'
  BY Known DEF PlaceInv, TrueInv, ToolCopyEnd, op
<1>8. FailInv'
  BY Known DEF PlaceInv, FailInv, ToolCopyEnd, op
<1> QED
  BY <1>1, <1>2, <1>3, <1>4, <1>5, <1>6, <1>7, <1>8 DEF IInv

LEMMA ToolRecordInv ==
  ASSUME IInv, ToolRecord, bounds' = bounds
  PROVE  IInv'
<1>1. /\ left' \in [UpdateMishaps -> Nat] /\ LeftInv'
      /\ \A m \in UpdateMishaps : Never(m)' => Never(m) /\ ~Meet(m)
  BY LeftFacts DEF IInv, UpdateMishaps, ToolRecord, Proceed
<1>2. UpdateTypeOK'
  BY <1>1, VersionAssumption, UpdateAssumption DEF IInv, UpdateTypeOK, UpdateStatuses,
     FreshInv, PendingFiles, ToolRecord, Mark, ToolEnd, trees, op, confirm, ghosts
<1>3. PlaceInv'
  BY Known DEF PlaceInv, ToolRecord, Mark, ToolEnd, op, confirm
<1>4. FreshInv'
  BY Known DEF Places, PlaceInv, FreshInv, ToolRecord, Mark, trees, op, confirm, ghosts
<1>5. CopyInv'
  BY Known DEF Places, CopyInv, ToolRecord, Mark, trees, op, confirm, ghosts
<1>6. SafeInv'
  BY Known, <1>1 DEF PlaceInv, SafeInv, Whole, Backed, Guarded, ToolRecord, ToolEnd,
     trees, op, ghosts, Installing, Undoing
<1>7. TrueInv'
  BY Known, <1>1 DEF TrueInv, ToolRecord, Mark, trees, op
<1>8. FailInv'
  BY Known, <1>1 DEF FailInv, ToolRecord, trees, op, ghosts
<1> QED
  BY <1>1, <1>2, <1>3, <1>4, <1>5, <1>6, <1>7, <1>8 DEF IInv

LEMMA ToolCrashInv ==
  ASSUME IInv, ToolCrash, bounds' = bounds
  PROVE  IInv'
<1>1. /\ left' \in [UpdateMishaps -> Nat] /\ LeftInv'
      /\ \A m \in UpdateMishaps : Never(m)' => Never(m) /\ ~Meet(m)
  BY LeftFacts DEF IInv, UpdateMishaps, ToolCrash, Proceed
<1>2. UpdateTypeOK'
  BY <1>1, UpdateAssumption DEF IInv, UpdateTypeOK, PendingFiles, ToolCrash, ToolEnd,
     trees, txRecord, op, confirm, ghosts
<1>3. PlaceInv'
  BY Known DEF PlaceInv, ToolCrash, ToolEnd, txRecord, op, confirm
<1>4. FreshInv'
  BY Known DEF FreshInv, ToolCrash, trees, txRecord, op, confirm, ghosts
<1>5. CopyInv'
  BY Known DEF CopyInv, ToolCrash, trees, txRecord, op, confirm, ghosts
<1>6. SafeInv'
  BY Known, <1>1 DEF SafeInv, Whole, Backed, Guarded, ToolCrash, ToolEnd, Readable,
     trees, txRecord, op, ghosts
<1>7. TrueInv'
  BY Known, <1>1 DEF TrueInv, ToolCrash, trees, txRecord, op
<1>8. FailInv'
  BY Known, <1>1 DEF FailInv, ToolCrash, trees, op, ghosts
<1> QED
  BY <1>1, <1>2, <1>3, <1>4, <1>5, <1>6, <1>7, <1>8 DEF IInv

LEMMA ForeignInv ==
  ASSUME IInv, Foreign, bounds' = bounds
  PROVE  IInv'
<1>1. /\ left' \in [UpdateMishaps -> Nat] /\ LeftInv'
      /\ \A m \in UpdateMishaps : Never(m)' => Never(m) /\ ~Meet(m)
  BY LeftFacts DEF IInv, UpdateMishaps, Foreign, Proceed
<1>2. UpdateTypeOK'
  BY <1>1 DEF IInv, UpdateTypeOK, Tree, PendingFiles, Foreign, txRecord, op, confirm,
     emergency, ghosts
<1>3. PlaceInv'
  BY Known DEF PlaceInv, Foreign, Readable, txRecord, op, confirm, emergency
<1>4. FreshInv'
  BY Known DEF FreshInv, Foreign, txRecord, op, confirm, ghosts
<1>5. CopyInv'
  BY Known DEF CopyInv, Foreign, txRecord, op, confirm, ghosts
<1>6. SafeInv'
  BY Known, <1>1 DEF SafeInv, Backed, Guarded, Foreign
<1>7. TrueInv'
  BY Known, <1>1 DEF TrueInv, Foreign
<1>8. FailInv'
  BY Known, <1>1 DEF FailInv, Foreign
<1> QED
  BY <1>1, <1>2, <1>3, <1>4, <1>5, <1>6, <1>7, <1>8 DEF IInv

-----------------------------------------------------------------------------
(* The invariant holds from the start and every step keeps it.             *)

LEMMA InitInv == UpdateInit => IInv
<1> SUFFICES ASSUME UpdateInit PROVE IInv
  OBVIOUS
<1>1. UpdateTypeOK
  <2>1. MaxUpdates \in Nat /\ 0 \in 0..MaxUpdates
    BY UpdateAssumption
  <2>2. bounds \in Bounds /\ left \in [UpdateMishaps -> Nat]
    BY UpdateAssumption DEF UpdateInit
  <2>3. {live, stage, aside} \subseteq Tree
    BY DEF UpdateInit, Tree
  <2>4. /\ hold \in [UpdateIds -> Tree] /\ backup \in [UpdateIds -> Tree]
        /\ pre \in [UpdateIds -> Tree]
    BY DEF UpdateInit, Tree
  <2>5. /\ state \in [UpdateIds -> UpdateStatuses]
        /\ to \in [UpdateIds -> Versions \cup {Missing}]
    BY DEF UpdateInit, UpdateStatuses
  <2>6. pending \in PendingFiles /\ bpend \in PendingFiles
    BY <2>1 DEF UpdateInit, NoPending, PendingFiles
  <2>7. /\ running \in Versions \cup {"down"}
        /\ step = "idle" /\ boot = "none" /\ tool = "none"
        /\ pkg \in Updates \cup {"none"} /\ begun = 0 /\ current = 0 /\ ttx = 0
        /\ spoilt \in BOOLEAN
    BY DEF UpdateInit
  <2> QED
    BY <2>1, <2>2, <2>3, <2>4, <2>5, <2>6, <2>7 DEF UpdateTypeOK
<1>2. LeftInv
  BY UpdateAssumption DEF UpdateInit, LeftInv
<1>3. PlaceInv /\ FreshInv
  BY DEF UpdateInit, PlaceInv, FreshInv, NoPending, Installing
<1>4. CopyInv
  BY DEF UpdateInit, CopyInv, NoPending, UpdateIds
<1>5. SafeInv /\ TrueInv /\ FailInv
  BY DEF UpdateInit, SafeInv, TrueInv, FailInv, Installing, Undoing
<1> QED
  BY <1>1, <1>2, <1>3, <1>4, <1>5 DEF IInv

LEMMA NextInv == IInv /\ [UpdateNext]_updateVars => IInv'
<1> SUFFICES ASSUME IInv, [UpdateNext]_updateVars PROVE IInv'
  OBVIOUS
<1>1. CASE Install /\ UNCHANGED bounds
  BY <1>1, InstallStartInv, StageInv, CopyBeginInv, CopyEndInv, MarkCommittingInv,
     MoveAwayInv, MoveInInv, VerifyInv, DropHoldInv, MarkPendingInv,
     WritePendingFileInv, AnnounceInv DEF Install
<1>2. CASE Undo /\ UNCHANGED bounds
  BY <1>2, UndoBeginInv, UndoInInv, UndoCopyInv, UndoRecordInv DEF Undo
<1>3. CASE Rollback /\ UNCHANGED bounds
  BY <1>3, RollbackStartInv, RollbackCopyBeginInv, RollbackCopyEndInv,
     RollbackRecordInv, RollbackUnlinkInv DEF Rollback
<1>4. CASE Confirm /\ UNCHANGED bounds
  BY <1>4, ConfirmReadInv, ConfirmRecordInv, ConfirmPendingInv DEF Confirm
<1>5. CASE Emergency /\ UNCHANGED bounds
  BY <1>5, ToolStartInv, ToolCopyBeginInv, ToolCopyEndInv, ToolRecordInv DEF Emergency
<1>6. CASE (Boot \/ Reload \/ Stop \/ Die \/ ToolCrash \/ Foreign) /\ UNCHANGED bounds
  BY <1>6, BootInv, ReloadInv, StopInv, DieInv, ToolCrashInv, ForeignInv
<1>7. CASE UNCHANGED updateVars
  BY <1>7 DEF updateVars, trees, txRecord, op, confirm, emergency, ghosts, IInv,
     UpdateTypeOK, LeftInv, PlaceInv, FreshInv, CopyInv, SafeInv, TrueInv, FailInv,
     Guarded, Backed, Whole, Readable, Never
<1> QED
  BY <1>1, <1>2, <1>3, <1>4, <1>5, <1>6, <1>7 DEF UpdateNext

\* All of the above holds in every state, for every value of the constants.
THEOREM Invariance == UpdateSpec => []IInv
  BY InitInv, NextInv, PTL DEF UpdateSpec

\* Every variable of the updater and of the emergency tool keeps its type.
THEOREM TypeCorrect == UpdateSpec => []UpdateTypeOK
<1>1. IInv => UpdateTypeOK
  BY DEF IInv
<1> QED
  BY <1>1, Invariance, PTL

\* The integration is never lost: at every instant of install_platform_update, its
\* except clause, rollback_platform_update and recovery_tool.py its directory is
\* whole or a whole backup of it is where those look for one.
THEOREM NeverGone == UpdateSpec => []NeverLost
<1>1. IInv => NeverLost
  BY DEF IInv, NeverLost, SafeInv, Guarded, Backed
<1> QED
  BY <1>1, Invariance, PTL

\* The only steps that write each of the statuses RightTreeGoesLive is about.
LEMMA Entered ==
  ASSUME UpdateTypeOK, UpdateNext, NEW x \in UpdateIds
  PROVE  /\ Becomes(x, "pending_restart") => MarkPending /\ x = current
         /\ Becomes(x, "rolled_back_after_failure") => UndoRecord /\ x = current
         /\ Becomes(x, "platform_rolled_back") => RollbackRecord /\ x = current
         /\ Becomes(x, "emergency_recovered") => ToolRecord /\ x = ttx
<1>0. state \in [UpdateIds -> UpdateStatuses]
  BY DEF UpdateTypeOK
<1>1. CASE Install
  <2>1. ASSUME NEW p \in Updates, InstallStart(p) PROVE state'[x] \in {state[x], "staging"}
    BY <1>0, <2>1 DEF InstallStart
  <2>2. CASE MarkCommitting
    BY <1>0, <2>2 DEF MarkCommitting, Mark, txRecord, Becomes
  <2>3. CASE MarkPending
    BY <1>0, <2>3 DEF MarkPending, Mark, txRecord, Becomes
  <2>4. CASE \/ Stage \/ CopyBegin \/ CopyEnd \/ MoveAway \/ MoveIn
             \/ Verify \/ DropHold \/ WritePendingFile \/ Announce
    BY <2>4 DEF Stage, CopyBegin, CopyEnd, MoveAway, MoveIn, Verify, DropHold,
       WritePendingFile, Announce, txRecord, Becomes
  <2> QED
    BY <1>1, <2>1, <2>2, <2>3, <2>4 DEF Install, Becomes
<1>2. CASE Undo
  BY <1>0, <1>2 DEF Undo, UndoBegin, UndoIn, UndoCopy, UndoRecord, Mark, txRecord,
     Becomes
<1>3. CASE Rollback
  BY <1>0, <1>3 DEF Rollback, RollbackStart, RollbackCopyBegin, RollbackCopyEnd,
     RollbackRecord, RollbackUnlink, Mark, txRecord, Becomes
<1>4. CASE Confirm
  BY <1>0, <1>4 DEF Confirm, ConfirmRead, ConfirmRecord, ConfirmPending, Mark, txRecord,
     Becomes
<1>5. CASE Emergency
  BY <1>0, <1>5 DEF Emergency, ToolStart, ToolCopyBegin, ToolCopyEnd, ToolRecord, Mark,
     txRecord, Becomes
<1>6. CASE Boot \/ Reload \/ Stop \/ Die \/ ToolCrash \/ Foreign
  BY <1>0, <1>6 DEF Boot, Reload, Stop, Die, Down, ToolCrash, Foreign, MarkInterrupted,
     txRecord, Becomes
<1> QED
  BY <1>1, <1>2, <1>3, <1>4, <1>5, <1>6 DEF UpdateNext

\* What install_platform_update leaves for the restart is the tree that was
\* validated; what a rollback, the emergency tool or the except clause puts back is
\* the tree that the update had replaced.
THEOREM RightTree == UpdateSpec => RightTreeGoesLive
<1>1. IInv /\ [UpdateNext]_updateVars =>
        [/\ ToolRestoresPrior
         /\ Never("foreign") => RollsInstalledBackToPrior /\ PendingIsValidated
         /\ Never("foreign") /\ Never("io") => FailureRestores]_updateVars
  <2> SUFFICES ASSUME IInv, UpdateNext, NEW x \in UpdateIds
               PROVE  /\ Becomes(x, "emergency_recovered") =>
                            /\ live' \in {pre[x], Partial}
                            /\ live' = Partial => backup[x] = Partial
                      /\ Never("foreign") =>
                            /\ Becomes(x, "platform_rolled_back") =>
                                (state[x] \in {"pending_restart", "confirmed"} => live' = pre[x])
                            /\ Becomes(x, "pending_restart") => live' = to[x]
                      /\ Never("foreign") /\ Never("io") =>
                            (Becomes(x, "rolled_back_after_failure") => pre[x] \in {live', Missing})
    BY DEF ToolRestoresPrior, RollsInstalledBackToPrior, PendingIsValidated,
       FailureRestores
  <2>1. ASSUME Becomes(x, "emergency_recovered")
        PROVE  live' \in {pre[x], Partial} /\ (live' = Partial => backup[x] = Partial)
    <3>1. ToolRecord /\ x = ttx
      BY <2>1, Entered DEF IInv
    <3> QED
      BY <3>1 DEF ToolRecord, IInv, PlaceInv, CopyInv, trees
  <2>2. ASSUME Never("foreign"), Becomes(x, "platform_rolled_back"),
               state[x] \in {"pending_restart", "confirmed"}
        PROVE  live' = pre[x]
    <3>1. RollbackRecord /\ x = current
      BY <2>2, Entered DEF IInv
    <3> QED
      BY <2>2, <3>1 DEF RollbackRecord, IInv, TrueInv, CopyInv, trees
  <2>3. ASSUME Never("foreign"), Becomes(x, "pending_restart")
        PROVE  live' = to[x]
    <3>1. MarkPending /\ x = current
      BY <2>3, Entered DEF IInv
    <3> QED
      BY <2>3, <3>1 DEF MarkPending, IInv, TrueInv, trees
  <2>4. ASSUME Never("foreign"), Never("io"), Becomes(x, "rolled_back_after_failure")
        PROVE  pre[x] \in {live', Missing}
    <3>1. UndoRecord /\ x = current
      BY <2>4, Entered DEF IInv
    <3> QED
      BY <2>4, <3>1 DEF UndoRecord, IInv, FailInv
  <2> QED
    BY <2>1, <2>2, <2>3, <2>4
<1> QED
  BY <1>1, Invariance, PTL DEF UpdateSpec, RightTreeGoesLive
=============================================================================
