--------------------------- MODULE RecordsProofs ----------------------------
(***************************************************************************)
(* What Home Assistant keeps on record can be relied on.                   *)
(*                                                                         *)
(* AuditLog: the audit trail can be trusted (TrailIsTrue) and is a ledger  *)
(* (ImplementsLedger), for any writers, any number of records and of       *)
(* mishaps: from an invariant that says what a writer that is about to     *)
(* write has found, and what a change of the file leaves to be seen.       *)
(*                                                                         *)
(* ManagementPCs: the app knows no key that the registry does not          *)
(* (OnlyKnownKeys), what was reported of a PC is so (ReportIsTrue) and no  *)
(* credential is lost by what fails (CredentialsAreKept), for any devices, *)
(* keys, publisher ids and installations: from an invariant that says, for *)
(* every operation and every step of it, what it holds in memory and how   *)
(* far each of the four stores has followed.                               *)
(*                                                                         *)
(* SftpApp: the app is where it was told (AppIsWhereTold) and is kept      *)
(* (AppIsKept), for any PCs, ports, other apps, releases and mishaps: from *)
(* an invariant that says, for every step of a call, whether the app is    *)
(* there, which port was chosen for it and what its container was started  *)
(* with.                                                                   *)
(***************************************************************************)
EXTENDS AuditLog, ManagementPCs, SftpApp, SequenceTheorems, FiniteSetTheorems,
    WellFoundedInduction, TLAPS

-----------------------------------------------------------------------------
(* What the steps do to the file.                                          *)

LEMMA Fields ==
    ASSUME TypeOK
    PROVE  /\ Len(file) \in Nat
           /\ \A i \in 1..Len(file) : file[i] \in Lines
           /\ file # <<>> <=> Len(file) > 0
  BY LenProperties, ElementOfSeq, EmptySeq DEF TypeOK

LEMMA LineFields ==
    ASSUME NEW line \in Lines
    PROVE  /\ line.id \in Ids /\ line.seq \in Nat /\ line.prev \in 0..MaxRecord
           /\ line.form \in {"whole", "cut", "changed"}
  BY DEF Lines

\* Reshaping a line keeps what it says.
LEMMA Reshaped ==
    ASSUME NEW line \in Lines, NEW form \in {"whole", "cut", "changed"}
    PROVE  /\ [line EXCEPT !.form = form] \in Lines
           /\ [line EXCEPT !.form = form].id = line.id
           /\ [line EXCEPT !.form = form].seq = line.seq
           /\ [line EXCEPT !.form = form].prev = line.prev
           /\ [line EXCEPT !.form = form].form = form
  BY DEF Lines

\* Text goes behind the last line, or becomes part of it.
LEMMA ExtendedFile ==
    ASSUME TypeOK, NEW line \in Lines, file' = Extended(line)
    PROVE  /\ file' \in Seq(Lines)
           /\ \A i \in 1..Len(file) : file'[i].id = file[i].id /\ file'[i].seq = file[i].seq
           /\ \A i \in 1..Len(file) : file[i].form # "cut" => file'[i] = file[i]
           /\ \A i \in 1..Len(file) : file[i].form # "whole" => file'[i].form # "whole"
           /\ \/ Len(file') = Len(file) /\ Len(file) > 0 /\ file[Len(file)].form = "cut"
              \/ Len(file') = Len(file) + 1 /\ file'[Len(file)+1] = line /\ file' = Append(file, line)
  <1>0. file \in Seq(Lines) /\ Len(file) \in Nat /\ (file # <<>> <=> Len(file) > 0)
    BY Fields DEF TypeOK
  <1>1. CASE file # <<>> /\ file[Len(file)].form = "cut"
    <2>1. PICK form \in {"cut", "changed"} : file' = [file EXCEPT ![Len(file)] = [file[Len(file)] EXCEPT !.form = form]]
      BY <1>0, <1>1 DEF Extended
    <2>2. file[Len(file)] \in Lines /\ Len(file) \in 1..Len(file)
      BY <1>0, <1>1, Fields
    <2>3. [file[Len(file)] EXCEPT !.form = form] \in Lines
      BY <2>2, Reshaped
    <2>4. file' \in Seq(Lines) /\ Len(file') = Len(file)
      BY <1>0, <2>1, <2>2, <2>3, ExceptSeq
    <2>5. \A i \in 1..Len(file) : file'[i] = IF i = Len(file) THEN [file[Len(file)] EXCEPT !.form = form] ELSE file[i]
      BY <1>0, <2>1, <2>2, <2>3, ExceptSeq
    <2>6. /\ file'[Len(file)].id = file[Len(file)].id /\ file'[Len(file)].seq = file[Len(file)].seq
          /\ file'[Len(file)].form = form
      <3>1. file'[Len(file)] = [file[Len(file)] EXCEPT !.form = form]
        BY <2>2, <2>5
      <3>2. form \in {"whole", "cut", "changed"}
        OBVIOUS
      <3> QED
        BY <2>2, <3>1, <3>2, Reshaped
    <2> QED
      BY <1>0, <1>1, <2>2, <2>4, <2>5, <2>6
  <1>2. CASE ~(file # <<>> /\ file[Len(file)].form = "cut")
    <2>1. file' = Append(file, line)
      BY <1>2 DEF Extended
    <2>2. /\ file' \in Seq(Lines) /\ Len(file') = Len(file) + 1 /\ file'[Len(file) + 1] = line
          /\ \A i \in 1..Len(file) : file'[i] = file[i]
      BY <1>0, <2>1, AppendProperties
    <2> QED
      BY <2>1, <2>2
  <1> QED
    BY <1>1, <1>2

\* A crash leaves a prefix that begins with what was synced.
LEMMA CrashedFile ==
    ASSUME TypeOK, Crash
    PROVE  /\ file' \in Seq(Lines) /\ Len(file') \in synced..Len(file)
           /\ \A i \in 1..Len(file') : file'[i].id = file[i].id
           /\ \A i \in 1..synced : file'[i] = file[i]
  <1>0. file \in Seq(Lines) /\ Len(file) \in Nat /\ synced \in 0..Len(file) /\ \A i \in 1..Len(file) : file[i] \in Lines
    BY Fields DEF TypeOK
  <1>1. PICK n \in synced..Len(file), torn \in BOOLEAN :
          file' = [i \in 1..n |-> IF torn /\ i = n /\ n > synced THEN [file[i] EXCEPT !.form = "cut"] ELSE file[i]]
    BY DEF Crash
  <1>2. n \in Nat /\ \A i \in 1..n : i \in 1..Len(file) /\ file[i] \in Lines
    BY <1>0
  <1>3. \A i \in 1..n : file'[i] = IF torn /\ i = n /\ n > synced THEN [file[i] EXCEPT !.form = "cut"] ELSE file[i]
    BY <1>1
  <1>4. \A i \in 1..n : file'[i] \in Lines /\ file'[i].id = file[i].id
    <2> SUFFICES ASSUME NEW i \in 1..n
                 PROVE  file'[i] \in Lines /\ file'[i].id = file[i].id
      OBVIOUS
    <2>1. file[i] \in Lines
      BY <1>2
    <2>2. [file[i] EXCEPT !.form = "cut"] \in Lines /\ [file[i] EXCEPT !.form = "cut"].id = file[i].id
      BY <2>1, Reshaped
    <2>3. file'[i] = file[i] \/ file'[i] = [file[i] EXCEPT !.form = "cut"]
      BY <1>3
    <2> QED
      BY <2>1, <2>2, <2>3
  <1>5. file' \in [1..n -> Lines]
    BY <1>1, <1>4
  <1>6. file' \in Seq(Lines) /\ Len(file') = n
    BY <1>2, <1>5
  <1> QED
    BY <1>0, <1>3, <1>4, <1>6

LEMMA Between ==
    ASSUME NEW n \in Nat, NEW k \in 1..n, k < n
    PROVE  /\ (k - 1) + (n - k) = n - 1 /\ n - 1 \in 1..(n - 1)
           /\ ~(n - 1 <= k - 1) /\ (n - 1) - (k - 1) = n - k
  OBVIOUS

\* Somebody changes the form of a line, or removes one that is not the last.
LEMMA TamperedFile ==
    ASSUME TypeOK, NEW i \in 1..Len(file), Tamper(i)
    PROVE  /\ file' \in Seq(Lines)
           /\ \/ /\ Len(file') = Len(file) /\ synced' = synced /\ file'[i].form # "whole"
                 /\ \A j \in 1..Len(file) : file'[j].seq = file[j].seq
              \/ /\ Len(file') = Len(file) - 1 /\ Len(file) > 1 /\ synced = Len(file) /\ synced' = synced - 1
                 /\ file'[Len(file) - 1] = file[Len(file)]
  <1>0. file \in Seq(Lines) /\ Len(file) \in Nat /\ file[i] \in Lines
    BY Fields DEF TypeOK
  <1>1. CASE file' = [file EXCEPT ![i].form = "changed"] /\ UNCHANGED synced
    <2>1. file' = [file EXCEPT ![i] = [file[i] EXCEPT !.form = "changed"]]
      BY <1>1
    <2>2. /\ [file[i] EXCEPT !.form = "changed"] \in Lines
          /\ [file[i] EXCEPT !.form = "changed"].seq = file[i].seq
          /\ [file[i] EXCEPT !.form = "changed"].form = "changed"
      BY <1>0, Reshaped
    <2>3. /\ file' \in Seq(Lines) /\ Len(file') = Len(file)
          /\ \A j \in 1..Len(file) : file'[j] = IF j = i THEN [file[i] EXCEPT !.form = "changed"] ELSE file[j]
      BY <1>0, <2>1, <2>2, ExceptSeq
    <2> QED
      BY <1>1, <2>2, <2>3
  <1>2. CASE /\ i < Len(file) /\ synced = Len(file)
             /\ file' = SubSeq(file, 1, i - 1) \o SubSeq(file, i + 1, Len(file))
             /\ synced' = synced - 1
    <2> DEFINE left == SubSeq(file, 1, i - 1)
               right == SubSeq(file, i + 1, Len(file))
    <2>1. left \in Seq(Lines) /\ Len(left) = i - 1
      BY <1>0, <1>2, Fields, SubSeqProperties
    <2>2. right \in Seq(Lines) /\ Len(right) = Len(file) - i /\ right[Len(file) - i] = file[Len(file)]
      BY <1>0, <1>2, Fields, SubSeqProperties
    <2>3. file' = left \o right /\ i - 1 \in Nat /\ Len(file) - i \in Nat \ {0}
      BY <1>0, <1>2
    <2> HIDE DEF left, right
    <2>4. /\ left \o right \in Seq(Lines) /\ Len(left \o right) = Len(left) + Len(right)
          /\ \A j \in 1..(Len(left) + Len(right)) : (left \o right)[j] = IF j <= Len(left) THEN left[j] ELSE right[j - Len(left)]
      BY <2>1, <2>2, ConcatProperties
    <2>5. /\ Len(left) + Len(right) = Len(file) - 1 /\ Len(file) - 1 \in 1..(Len(file) - 1)
          /\ ~(Len(file) - 1 <= Len(left)) /\ (Len(file) - 1) - Len(left) = Len(file) - i
      BY <1>0, <1>2, <2>1, <2>2, Between, Zenon
    <2>6. (left \o right)[Len(file) - 1] = right[Len(file) - i]
      BY <2>4, <2>5, Zenon
    <2>7. /\ file' \in Seq(Lines) /\ Len(file') = Len(file) - 1 /\ file'[Len(file) - 1] = file[Len(file)]
      BY <2>2, <2>3, <2>4, <2>5, <2>6, Zenon
    <2>8. Len(file) > 1
      BY <1>0, <1>2
    <2> QED
      BY <1>2, <2>7, <2>8
  <1> QED
    BY <1>1, <1>2 DEF Tamper

-----------------------------------------------------------------------------
(* The invariant.                                                          *)

\* A writer that is to write, or has written, holds a whole record.
HeldInv == \A w \in Writers : pc[w] \in {"write", "sync"} => rec[w] \in Lines /\ rec[w].form = "whole"

\* Mishaps are only spent.
BudgetInv == \A m \in Mishaps : budget[m] <= Budget[m]

\* Without an overlap at most one append is under way.
AloneInv == ~overlapped => \A v, w \in Writers : pc[v] # "idle" /\ pc[w] # "idle" => v = w

\* Who writes has seen whole lines only, and what was written is there.
AllWhole == \A i \in 1..Len(file) : file[i].form = "whole"
KeptInv ==
    Never("short") /\ ~tampered =>
        /\ \A w \in Writers : pc[w] \in {"write", "sync"} => AllWhole
        /\ \A w \in Writers : pc[w] = "sync" => \E i \in 1..Len(file) : file[i].id = rec[w].id
        /\ ReturnedIsKept

\* A record about to be written follows the last one.
Follows(line) == line.seq = Len(file) + 1 /\ line.prev = IF file = <<>> THEN 0 ELSE file[Len(file)].id
ChainInv ==
    Never("short") /\ Never("crash") /\ ~overlapped /\ ~tampered =>
        Verified /\ \A w \in Writers : pc[w] = "write" => Follows(rec[w])

\* A change leaves a line that is not whole, or a last one numbered too high.
Bad == \E i \in 1..Len(file) : file[i].form # "whole"
SeenInv ==
    Never("crash") /\ ~overlapped =>
        /\ file # <<>> => file[Len(file)].seq >= Len(file)
        /\ \A w \in Writers : pc[w] = "write" => rec[w].seq > Len(file)
        /\ tampered => file # <<>> /\ (Bad \/ file[Len(file)].seq > Len(file))
        /\ tampered => \A w \in Writers : pc[w] = "write" => Bad \/ rec[w].seq > Len(file) + 1

IInv == TypeOK /\ HeldInv /\ BudgetInv /\ AloneInv /\ KeptInv /\ ChainInv /\ SeenInv

\* The steps of Next, one by one.
LEMMA Steps ==
    ASSUME [Next]_vars
    PROVE  \/ \E w \in Writers : Acquire(w) \/ Confirm(w) \/ Prepare(w) \/ Write(w) \/ Sync(w)
           \/ Crash
           \/ \E i \in 1..Len(file) : Tamper(i)
           \/ UNCHANGED vars
  BY DEF Next, Writer

LEMMA SpendBudget ==
    ASSUME TypeOK, BudgetInv, NEW m \in Mishaps, Spend(m)
    PROVE  /\ budget' \in [Mishaps -> Nat] /\ BudgetInv' /\ ~Never(m)'
           /\ \A o \in Mishaps : Never(o)' => Never(o)
  <1>1. budget \in [Mishaps -> Nat] /\ \A o \in Mishaps : budget[o] \in Nat /\ Budget[o] \in Nat
    BY BoundAssumption DEF TypeOK
  <1>2. /\ budget' \in [Mishaps -> Nat] /\ budget[m] > 0
        /\ \A o \in Mishaps : budget'[o] = IF o = m THEN budget[m] - 1 ELSE budget[o]
    BY <1>1 DEF Spend
  <1>3. budget'[m] < Budget[m] /\ \A o \in Mishaps : budget'[o] <= budget[o] /\ budget'[o] \in Nat
    BY <1>1, <1>2 DEF BudgetInv
  <1>4. BudgetInv'
    BY <1>1, <1>3 DEF BudgetInv
  <1>5. ~Never(m)'
    BY <1>1, <1>3 DEF Never
  <1>6. \A o \in Mishaps : Never(o)' => Never(o)
    BY <1>1, <1>3 DEF Never, BudgetInv
  <1> QED
    BY <1>2, <1>4, <1>5, <1>6

LEMMA Steady ==
    ASSUME budget' = budget, BudgetInv
    PROVE  BudgetInv' /\ \A m \in Mishaps : Never(m)' => Never(m)
  BY DEF BudgetInv, Never

\* The record that append makes.
LEMMA Prepared ==
    ASSUME TypeOK, NEW w \in Writers, Prepare(w), pc' # [pc EXCEPT ![w] = "idle"]
    PROVE  /\ Verified /\ pc' = [pc EXCEPT ![w] = "write"] /\ UNCHANGED lock
           /\ next' \in 1..(MaxRecord + 1) /\ rec' \in [Writers -> Lines \cup {NoLine}]
           /\ rec'[w] \in Lines /\ rec'[w].form = "whole" /\ Follows(rec'[w])
           /\ \A v \in Writers \ {w} : rec'[v] = rec[v]
  <1> DEFINE made == [id |-> next, seq |-> Len(file) + 1, form |-> "whole",
                      prev |-> IF file = <<>> THEN 0 ELSE file[Len(file)].id]
  <1>1. /\ Verified /\ next <= MaxRecord /\ rec' = [rec EXCEPT ![w] = made]
        /\ next' = next + 1 /\ pc' = [pc EXCEPT ![w] = "write"] /\ UNCHANGED lock
    BY DEF Prepare, Done
  <1>2. Len(file) \in Nat /\ next \in Ids /\ MaxRecord \in Nat
    BY <1>1, Fields, BoundAssumption DEF TypeOK, Ids
  <1>3. (IF file = <<>> THEN 0 ELSE file[Len(file)].id) \in 0..MaxRecord
    BY <1>2, Fields, LineFields DEF Ids
  <1>4. made \in Lines
    BY <1>2, <1>3 DEF Lines
  <1>5. made.form = "whole" /\ Follows(made)
    BY DEF Follows
  <1> HIDE DEF made
  <1> QED
    BY <1>1, <1>2, <1>4, <1>5 DEF TypeOK, Ids

LEMMA NextType == TypeOK /\ HeldInv /\ BudgetInv /\ [Next]_vars => TypeOK' /\ HeldInv' /\ BudgetInv'
  <1> SUFFICES ASSUME TypeOK, HeldInv, BudgetInv, [Next]_vars
               PROVE  TypeOK' /\ HeldInv' /\ BudgetInv'
    OBVIOUS
  <1>0. NoLine \in Lines \cup {NoLine}
    OBVIOUS
  <1>1. ASSUME NEW w \in Writers, Acquire(w) \/ Confirm(w)
        PROVE  TypeOK' /\ HeldInv' /\ BudgetInv'
    BY <1>1 DEF Acquire, Confirm, Starts, TypeOK, HeldInv, BudgetInv
  <1>2. ASSUME NEW w \in Writers, Prepare(w)
        PROVE  TypeOK' /\ HeldInv' /\ BudgetInv'
    <2>1. CASE pc' = [pc EXCEPT ![w] = "idle"]
      <3>1. Done(w) /\ UNCHANGED next
        BY <1>2, <2>1 DEF Prepare, Done, TypeOK
      <3> QED
        BY <1>2, <3>1 DEF Prepare, Done, TypeOK, HeldInv, BudgetInv
    <2>2. CASE pc' # [pc EXCEPT ![w] = "idle"]
      <3>1. UNCHANGED <<file, synced, returned, tampered, overlapped, budget>>
        BY <1>2 DEF Prepare
      <3> QED
        BY <1>2, <2>2, <3>1, Prepared DEF TypeOK, HeldInv, BudgetInv
    <2> QED
      BY <2>1, <2>2
  <1>3. ASSUME NEW w \in Writers, Write(w)
        PROVE  TypeOK' /\ HeldInv' /\ BudgetInv'
    <2>1. rec[w] \in Lines /\ [rec[w] EXCEPT !.form = "cut"] \in Lines
      BY <1>3, Reshaped DEF Write, HeldInv
    <2>2. file' \in Seq(Lines) /\ Len(file') \in Nat /\ Len(file') >= Len(file) /\ synced' = synced
      BY <1>3, <2>1, ExtendedFile, Fields DEF Write
    <2>3. budget' \in [Mishaps -> Nat] /\ BudgetInv'
      BY <1>3, SpendBudget, Steady DEF Write, Mishaps, TypeOK
    <2>4. pc' = [pc EXCEPT ![w] = "sync"] /\ UNCHANGED <<lock, rec, next, returned, tampered, overlapped>>
      BY <1>3 DEF Write
    <2>5. synced' \in 0..Len(file')
      BY <2>2, Fields DEF TypeOK
    <2> QED
      BY <1>3, <2>2, <2>3, <2>4, <2>5 DEF TypeOK, HeldInv, Write
  <1>4. ASSUME NEW w \in Writers, Sync(w)
        PROVE  TypeOK' /\ HeldInv' /\ BudgetInv'
    <2>1. rec[w].id \in Ids
      BY <1>4, LineFields DEF Sync, HeldInv
    <2>2. synced' \in 0..Len(file) /\ returned' \subseteq Ids /\ file' = file
      BY <1>4, <2>1, Fields DEF Sync, TypeOK
    <2>3. budget' \in [Mishaps -> Nat] /\ BudgetInv'
      BY <1>4, SpendBudget, Steady DEF Sync, Mishaps, TypeOK
    <2> QED
      BY <1>0, <1>4, <2>2, <2>3 DEF Sync, Done, TypeOK, HeldInv
  <1>5. CASE Crash
    <2>1. file' \in Seq(Lines) /\ Len(file') \in Nat /\ synced' = Len(file')
      BY <1>5, CrashedFile, Fields DEF Crash, TypeOK
    <2>2. budget' \in [Mishaps -> Nat] /\ BudgetInv'
      BY <1>5, SpendBudget DEF Crash, Mishaps
    <2> QED
      BY <1>0, <1>5, <2>1, <2>2 DEF Crash, TypeOK, HeldInv
  <1>6. ASSUME NEW i \in 1..Len(file), Tamper(i)
        PROVE  TypeOK' /\ HeldInv' /\ BudgetInv'
    <2>1. file' \in Seq(Lines) /\ synced' \in 0..Len(file')
      BY <1>6, TamperedFile, Fields DEF TypeOK
    <2>2. budget' \in [Mishaps -> Nat] /\ BudgetInv'
      BY <1>6, SpendBudget DEF Tamper, Mishaps
    <2> QED
      BY <1>6, <2>1, <2>2 DEF Tamper, TypeOK, HeldInv
  <1>7. CASE UNCHANGED vars
    BY <1>7 DEF vars, TypeOK, HeldInv, BudgetInv
  <1> QED
    BY <1>1, <1>2, <1>3, <1>4, <1>5, <1>6, <1>7, Steps

\* A mishap that was never met is met no earlier.
LEMMA NeverBefore ==
    ASSUME TypeOK, BudgetInv, [Next]_vars, NEW m \in Mishaps, Never(m)'
    PROVE  Never(m)
  <1>1. ASSUME NEW o \in Mishaps, Spend(o)
        PROVE  Never(m)
    BY <1>1, SpendBudget
  <1>2. CASE UNCHANGED budget
    BY <1>2 DEF Never
  <1>3. UNCHANGED budget \/ Spend("short") \/ Spend("fsync") \/ Spend("crash") \/ Spend("tamper")
    BY Steps DEF Acquire, Confirm, Starts, Prepare, Write, Sync, Crash, Tamper, vars
  <1> QED
    BY <1>1, <1>2, <1>3 DEF Mishaps

\* A write that does not fall short puts the record there.
LEMMA Written ==
    ASSUME TypeOK, HeldInv, BudgetInv, NEW w \in Writers, Write(w)
    PROVE  /\ rec[w] \in Lines /\ rec[w].form = "whole"
           /\ file' = Extended(rec[w]) \/ (file' = Extended([rec[w] EXCEPT !.form = "cut"]) /\ ~Never("short")')
           /\ pc' = [pc EXCEPT ![w] = "sync"] /\ UNCHANGED <<synced, lock, rec, next, returned, tampered, overlapped>>
  BY SpendBudget DEF Write, HeldInv, Mishaps

LEMMA NextAlone == TypeOK /\ AloneInv /\ [Next]_vars => AloneInv'
  <1> SUFFICES ASSUME TypeOK, AloneInv, [Next]_vars, ~overlapped'
               PROVE  \A v, w \in Writers : pc'[v] # "idle" /\ pc'[w] # "idle" => v = w
    BY DEF AloneInv
  <1>0. pc \in [Writers -> {"idle", "append", "write", "sync"}]
    BY DEF TypeOK
  <1>1. CASE /\ ~overlapped
             /\ \A v \in Writers : pc'[v] # "idle" => pc[v] # "idle"
    BY <1>1 DEF AloneInv
  <1>2. ASSUME NEW w \in Writers, Starts(w)
        PROVE  \A u, v \in Writers : pc'[u] # "idle" /\ pc'[v] # "idle" => u = v
    <2>1. \A v \in Writers : pc[v] = "idle"
      BY <1>2 DEF Starts
    <2> QED
      BY <1>0, <1>2, <2>1 DEF Starts
  <1>3. ASSUME NEW w \in Writers, Prepare(w) \/ Write(w) \/ Sync(w)
        PROVE  ~overlapped /\ \A v \in Writers : pc'[v] # "idle" => pc[v] # "idle"
    BY <1>0, <1>3 DEF Prepare, Write, Sync, Done
  <1>4. CASE Crash
    BY <1>4 DEF Crash
  <1>5. ASSUME NEW i \in 1..Len(file), Tamper(i)
        PROVE  UNCHANGED <<pc, overlapped>>
    BY <1>5 DEF Tamper
  <1>6. UNCHANGED vars => UNCHANGED <<pc, overlapped>>
    BY DEF vars
  <1> QED
    BY <1>1, <1>2, <1>3, <1>4, <1>5, <1>6, Steps DEF Acquire, Confirm

LEMMA NextKept == TypeOK /\ HeldInv /\ BudgetInv /\ KeptInv /\ [Next]_vars => KeptInv'
  <1> SUFFICES ASSUME TypeOK, HeldInv, BudgetInv, KeptInv, [Next]_vars, Never("short")', ~tampered'
               PROVE  /\ \A w \in Writers : pc'[w] \in {"write", "sync"} => AllWhole'
                      /\ \A w \in Writers : pc'[w] = "sync" => \E i \in 1..Len(file') : file'[i].id = rec'[w].id
                      /\ \A n \in returned' : \E i \in 1..synced' : file'[i].id = n /\ file'[i].form = "whole"
    BY DEF KeptInv, ReturnedIsKept
  <1> DEFINE Writing == \A w \in Writers : pc'[w] \in {"write", "sync"} => AllWhole'
             There == \A w \in Writers : pc'[w] = "sync" => \E i \in 1..Len(file') : file'[i].id = rec'[w].id
             Kept == \A n \in returned' : \E i \in 1..synced' : file'[i].id = n /\ file'[i].form = "whole"
  <1> SUFFICES Writing /\ There /\ Kept
    OBVIOUS
  <1>0. ~tampered
    BY Steps DEF Acquire, Confirm, Starts, Prepare, Write, Sync, Crash, Tamper, vars
  <1>a. Never("short")
    BY NeverBefore DEF Mishaps
  <1>b. /\ \A w \in Writers : pc[w] \in {"write", "sync"} => AllWhole
        /\ \A w \in Writers : pc[w] = "sync" => \E i \in 1..Len(file) : file[i].id = rec[w].id
        /\ \A n \in returned : \E i \in 1..synced : file[i].id = n /\ file[i].form = "whole"
    BY <1>0, <1>a DEF KeptInv, ReturnedIsKept
  <1>c. /\ pc \in [Writers -> {"idle", "append", "write", "sync"}] /\ rec \in [Writers -> Lines \cup {NoLine}]
        /\ synced \in 0..Len(file) /\ Len(file) \in Nat
    BY Fields DEF TypeOK
  <1>1. ASSUME NEW w \in Writers, Starts(w)
        PROVE  Writing /\ There /\ Kept
    BY <1>1, <1>b, <1>c DEF Starts, AllWhole
  <1>2. ASSUME NEW w \in Writers, Prepare(w)
        PROVE  Writing /\ There /\ Kept
    <2>1. UNCHANGED <<file, synced, returned>>
      BY <1>2 DEF Prepare
    <2>2. CASE pc' = [pc EXCEPT ![w] = "idle"]
      <3>1. Done(w)
        BY <1>2, <2>2, <1>c DEF Prepare, Done
      <3> QED
        BY <1>b, <1>c, <2>1, <2>2, <3>1 DEF Done, AllWhole
    <2>3. CASE pc' # [pc EXCEPT ![w] = "idle"]
      <3>1. /\ Verified /\ pc' = [pc EXCEPT ![w] = "write"] /\ \A v \in Writers \ {w} : rec'[v] = rec[v]
        BY <1>2, <2>3, Prepared
      <3>2. AllWhole
        BY <3>1 DEF Verified, Chained, AllWhole
      <3> QED
        BY <1>b, <1>c, <2>1, <3>1, <3>2 DEF AllWhole
    <2> QED
      BY <2>2, <2>3
  <1>3. ASSUME NEW w \in Writers, Write(w)
        PROVE  Writing /\ There /\ Kept
    <2>1. /\ rec[w] \in Lines /\ rec[w].form = "whole" /\ file' = Extended(rec[w])
          /\ pc' = [pc EXCEPT ![w] = "sync"] /\ UNCHANGED <<synced, rec, returned>>
      BY <1>3, Written
    <2>2. AllWhole /\ pc[w] = "write"
      BY <1>3, <1>b DEF Write
    <2>3. /\ Len(file') = Len(file) + 1 /\ file'[Len(file) + 1] = rec[w]
          /\ \A i \in 1..Len(file) : file'[i] = file[i]
      BY <1>c, <2>1, <2>2, ExtendedFile DEF AllWhole
    <2>4. AllWhole'
      BY <1>c, <2>1, <2>2, <2>3 DEF AllWhole
    <2>5. There
      <3> SUFFICES ASSUME NEW v \in Writers, pc'[v] = "sync"
                   PROVE  \E i \in 1..Len(file') : file'[i].id = rec[v].id
        BY <2>1
      <3>1. CASE v = w
        BY <1>c, <2>3, <3>1
      <3>2. CASE v # w
        BY <1>b, <1>c, <2>1, <2>3, <3>2
      <3> QED
        BY <3>1, <3>2
    <2>6. Kept
      BY <1>b, <1>c, <2>1, <2>3
    <2> QED
      BY <2>4, <2>5, <2>6
  <1>4. ASSUME NEW w \in Writers, Sync(w)
        PROVE  Writing /\ There /\ Kept
    <2>1. /\ pc' = [pc EXCEPT ![w] = "idle"] /\ rec' = [rec EXCEPT ![w] = NoLine] /\ file' = file /\ pc[w] = "sync"
          /\ (synced' = Len(file) /\ returned' = returned \cup {rec[w].id}) \/ UNCHANGED <<synced, returned>>
      BY <1>4 DEF Sync, Done
    <2>2. AllWhole /\ \E i \in 1..Len(file) : file[i].id = rec[w].id
      BY <1>b, <2>1
    <2>3. Writing /\ There
      BY <1>b, <1>c, <2>1 DEF AllWhole
    <2>4. Kept
      BY <1>b, <1>c, <2>1, <2>2 DEF AllWhole
    <2> QED
      BY <2>3, <2>4
  <1>5. CASE Crash
    <2>1. /\ pc' = [v \in Writers |-> "idle"] /\ returned' = returned /\ synced' = Len(file')
      BY <1>5 DEF Crash
    <2>2. Len(file') \in synced..Len(file) /\ \A i \in 1..synced : file'[i] = file[i]
      BY <1>5, CrashedFile
    <2>3. Writing /\ There
      BY <2>1
    <2>4. Kept
      BY <1>b, <1>c, <2>1, <2>2
    <2> QED
      BY <2>3, <2>4
  <1>6. \A i \in 1..Len(file) : ~Tamper(i)
    BY DEF Tamper
  <1>7. CASE UNCHANGED vars
    BY <1>7, <1>b DEF vars, AllWhole
  <1> QED
    BY <1>1, <1>2, <1>3, <1>4, <1>5, <1>6, <1>7, Steps DEF Acquire, Confirm

LEMMA NextChain ==
    TypeOK /\ HeldInv /\ BudgetInv /\ AloneInv /\ ChainInv /\ [Next]_vars => ChainInv'
  <1> SUFFICES ASSUME TypeOK, HeldInv, BudgetInv, AloneInv, ChainInv, [Next]_vars,
                      Never("short")', Never("crash")', ~overlapped', ~tampered'
               PROVE  Verified' /\ \A w \in Writers : pc'[w] = "write" => Follows(rec[w])'
    BY DEF ChainInv
  <1> DEFINE Goal == Verified' /\ \A w \in Writers : pc'[w] = "write" => Follows(rec[w])'
  <1>0. ~tampered /\ ~overlapped
    <2>1. ~tampered
      BY Steps DEF Acquire, Confirm, Starts, Prepare, Write, Sync, Crash, Tamper, vars
    <2>2. ~overlapped
      BY Steps, Zenon DEF Acquire, Confirm, Starts, Prepare, Write, Sync, Crash, Tamper, vars
    <2> QED
      BY <2>1, <2>2
  <1>a. Never("short") /\ Never("crash")
    BY NeverBefore DEF Mishaps
  <1>b. Verified /\ \A w \in Writers : pc[w] = "write" => Follows(rec[w])
    BY <1>0, <1>a DEF ChainInv
  <1>c. /\ pc \in [Writers -> {"idle", "append", "write", "sync"}] /\ rec \in [Writers -> Lines \cup {NoLine}]
        /\ file \in Seq(Lines) /\ Len(file) \in Nat /\ (file # <<>> <=> Len(file) > 0)
    BY Fields DEF TypeOK
  <1>d. ASSUME UNCHANGED file
        PROVE  Verified' /\ \A w \in Writers : Follows(rec'[w]) => Follows(rec[w])'
    BY <1>b, <1>d DEF Verified, Chained, Follows
  <1>1. ASSUME NEW w \in Writers, Starts(w)
        PROVE  Goal
    <2>1. UNCHANGED <<file, rec>> /\ \A v \in Writers : pc'[v] = "write" => pc[v] = "write"
      BY <1>1, <1>c DEF Starts
    <2> QED
      BY <1>b, <1>d, <2>1
  <1>2. ASSUME NEW w \in Writers, Prepare(w)
        PROVE  Goal
    <2>1. UNCHANGED file
      BY <1>2 DEF Prepare
    <2>2. pc' # [pc EXCEPT ![w] = "idle"]
      BY <1>2, <1>b, <1>c DEF Prepare
    <2>3. /\ pc' = [pc EXCEPT ![w] = "write"] /\ Follows(rec'[w]) /\ \A v \in Writers \ {w} : rec'[v] = rec[v]
      BY <1>2, <2>2, Prepared
    <2>4. \A v \in Writers : pc'[v] = "write" => Follows(rec'[v])
      BY <1>b, <1>c, <2>3
    <2> QED
      BY <1>d, <2>1, <2>4
  <1>3. ASSUME NEW w \in Writers, Write(w)
        PROVE  Goal
    <2>1. /\ rec[w] \in Lines /\ rec[w].form = "whole" /\ file' = Extended(rec[w])
          /\ pc' = [pc EXCEPT ![w] = "sync"] /\ pc[w] = "write"
      BY <1>3, Written DEF Write
    <2>2. \A i \in 1..Len(file) : file[i].form = "whole"
      BY <1>b DEF Verified, Chained
    <2>3. /\ Len(file') = Len(file) + 1 /\ file'[Len(file) + 1] = rec[w]
          /\ \A i \in 1..Len(file) : file'[i] = file[i]
      BY <1>c, <2>1, <2>2, ExtendedFile
    <2>4. Follows(rec[w])
      BY <1>b, <2>1
    <2>5. Verified'
      <3> SUFFICES ASSUME NEW i \in 1..(Len(file) + 1)
                   PROVE  Chained(i)'
        BY <2>3 DEF Verified
      <3>1. CASE i \in 1..Len(file)
        <4>1. Chained(i)
          BY <1>b, <3>1 DEF Verified
        <4>2. file'[i] = file[i] /\ (i # 1 => file'[i-1] = file[i-1])
          BY <1>c, <2>3, <3>1
        <4> QED
          BY <4>1, <4>2 DEF Chained
      <3>2. CASE i = Len(file) + 1
        <4>1. Len(file) > 0 => file'[i - 1] = file[Len(file)]
          BY <1>c, <2>3, <3>2
        <4>2. file'[i] = rec[w] /\ (i = 1 <=> file = <<>>)
          BY <1>c, <2>3, <3>2
        <4> QED
          BY <1>c, <2>1, <2>4, <3>2, <4>1, <4>2 DEF Follows, Chained
      <3> QED
        BY <1>c, <3>1, <3>2
    <2>6. \A v \in Writers : pc'[v] # "write"
      <3>1. \A v \in Writers : pc[v] = "write" => v = w
        BY <1>0, <2>1 DEF AloneInv
      <3> QED
        BY <1>c, <2>1, <3>1
    <2> QED
      BY <2>5, <2>6
  <1>4. ASSUME NEW w \in Writers, Sync(w)
        PROVE  Goal
    <2>1. UNCHANGED file /\ \A v \in Writers : pc'[v] = "write" => pc[v] = "write" /\ rec'[v] = rec[v]
      BY <1>4, <1>c DEF Sync, Done
    <2> QED
      BY <1>b, <1>d, <2>1
  <1>5. ~Crash
    BY SpendBudget DEF Crash, Mishaps
  <1>6. \A i \in 1..Len(file) : ~Tamper(i)
    BY DEF Tamper
  <1>7. CASE UNCHANGED vars
    BY <1>7, <1>b, <1>d DEF vars
  <1> QED
    BY <1>1, <1>2, <1>3, <1>4, <1>5, <1>6, <1>7, Steps DEF Acquire, Confirm

LEMMA NextSeen ==
    TypeOK /\ HeldInv /\ BudgetInv /\ AloneInv /\ SeenInv /\ [Next]_vars => SeenInv'
  <1> DEFINE LastLine == file # <<>> => file[Len(file)].seq >= Len(file)
             Ahead == \A w \in Writers : pc[w] = "write" => rec[w].seq > Len(file)
             Seen == tampered => file # <<>> /\ (Bad \/ file[Len(file)].seq > Len(file))
             Further == tampered => \A w \in Writers : pc[w] = "write" => Bad \/ rec[w].seq > Len(file) + 1
  <1> SUFFICES ASSUME TypeOK, HeldInv, BudgetInv, AloneInv, SeenInv, [Next]_vars,
                      Never("crash")', ~overlapped'
               PROVE  LastLine' /\ Ahead' /\ Seen' /\ Further'
    BY DEF SeenInv
  <1>0. ~overlapped /\ Never("crash")
    <2>1. ~overlapped
      BY Steps, Zenon DEF Acquire, Confirm, Starts, Prepare, Write, Sync, Crash, Tamper, vars
    <2> QED
      BY <2>1, NeverBefore DEF Mishaps
  <1>b. LastLine /\ Ahead /\ Seen /\ Further
    BY <1>0 DEF SeenInv
  <1>c. /\ pc \in [Writers -> {"idle", "append", "write", "sync"}] /\ rec \in [Writers -> Lines \cup {NoLine}]
        /\ file \in Seq(Lines) /\ Len(file) \in Nat /\ (file # <<>> <=> Len(file) > 0)
    BY Fields DEF TypeOK
  <1>d. ASSUME UNCHANGED <<file, tampered>>, \A v \in Writers : pc'[v] = "write" => pc[v] = "write" /\ rec'[v] = rec[v]
        PROVE  LastLine' /\ Ahead' /\ Seen' /\ Further'
    BY <1>b, <1>d DEF Bad
  <1>1. ASSUME NEW w \in Writers, Starts(w)
        PROVE  LastLine' /\ Ahead' /\ Seen' /\ Further'
    BY <1>1, <1>c, <1>d DEF Starts
  <1>2. ASSUME NEW w \in Writers, Prepare(w)
        PROVE  LastLine' /\ Ahead' /\ Seen' /\ Further'
    <2>1. UNCHANGED <<file, tampered>>
      BY <1>2 DEF Prepare
    <2>2. CASE pc' = [pc EXCEPT ![w] = "idle"]
      <3>1. Done(w)
        BY <1>2, <2>2, <1>c DEF Prepare, Done
      <3> QED
        BY <1>c, <1>d, <2>1, <3>1 DEF Done
    <2>3. CASE pc' # [pc EXCEPT ![w] = "idle"]
      <3>1. /\ Verified /\ pc' = [pc EXCEPT ![w] = "write"] /\ Follows(rec'[w])
            /\ \A v \in Writers \ {w} : rec'[v] = rec[v]
        BY <1>2, <2>3, Prepared
      <3>2. ~tampered
        BY <1>b, <1>c, <3>1 DEF Verified, Chained, Bad
      <3>3. LastLine' /\ Seen' /\ Further'
        BY <1>b, <2>1, <3>2
      <3>4. Ahead'
        BY <1>b, <1>c, <2>1, <3>1 DEF Follows
      <3> QED
        BY <3>3, <3>4
    <2> QED
      BY <2>2, <2>3
  <1>3. ASSUME NEW w \in Writers, Write(w)
        PROVE  LastLine' /\ Ahead' /\ Seen' /\ Further'
    <2>1. /\ rec[w] \in Lines /\ pc' = [pc EXCEPT ![w] = "sync"] /\ pc[w] = "write" /\ UNCHANGED tampered
      BY <1>3, Written DEF Write
    <2>2. PICK line \in Lines : file' = Extended(line) /\ line.seq = rec[w].seq
      BY <1>3, <2>1, Reshaped DEF Write
    <2>3. \A v \in Writers : pc'[v] # "write"
      <3>1. \A v \in Writers : pc[v] = "write" => v = w
        BY <1>0, <2>1 DEF AloneInv
      <3> QED
        BY <1>c, <2>1, <3>1
    <2>4. line.seq \in Nat /\ line.seq > Len(file) /\ (tampered => Bad \/ line.seq > Len(file) + 1)
      BY <1>b, <2>1, <2>2, LineFields
    <2>5. CASE Len(file') = Len(file) /\ Len(file) > 0 /\ file[Len(file)].form = "cut"
      <3>1. file'[Len(file)].seq = file[Len(file)].seq /\ file'[Len(file)].form # "whole" /\ Len(file) \in 1..Len(file)
        BY <1>c, <2>2, <2>5, ExtendedFile
      <3>2. file' # <<>> /\ file # <<>>
        BY <1>c, <2>5
      <3> QED
        BY <1>b, <2>1, <2>3, <2>5, <3>1, <3>2 DEF Bad
    <2>6. CASE Len(file') = Len(file) + 1 /\ file'[Len(file) + 1] = line
      <3>1. \A i \in 1..Len(file) : file[i].form # "whole" => file'[i].form # "whole"
        BY <2>2, ExtendedFile
      <3>2. Bad => Bad'
        BY <1>c, <2>6, <3>1 DEF Bad
      <3>3. file' # <<>>
        BY <1>c, <2>6
      <3> QED
        BY <1>c, <2>1, <2>3, <2>4, <2>6, <3>2, <3>3
    <2> QED
      BY <2>2, <2>5, <2>6, ExtendedFile
  <1>4. ASSUME NEW w \in Writers, Sync(w)
        PROVE  LastLine' /\ Ahead' /\ Seen' /\ Further'
    <2>1. UNCHANGED <<file, tampered>> /\ \A v \in Writers : pc'[v] = "write" => pc[v] = "write" /\ rec'[v] = rec[v]
      BY <1>4, <1>c DEF Sync, Done
    <2> QED
      BY <1>d, <2>1
  <1>5. ~Crash
    BY SpendBudget DEF Crash, Mishaps
  <1>6. ASSUME NEW i \in 1..Len(file), Tamper(i)
        PROVE  LastLine' /\ Ahead' /\ Seen' /\ Further'
    <2>1. UNCHANGED <<pc, rec>> /\ file' \in Seq(Lines)
      BY <1>6, TamperedFile DEF Tamper
    <2>2. \A w \in Writers : pc[w] = "write" => rec[w].seq \in Nat
      BY LineFields DEF HeldInv
    <2>3. CASE /\ Len(file') = Len(file) /\ file'[i].form # "whole" /\ \A j \in 1..Len(file) : file'[j].seq = file[j].seq
      <3>1. Bad' /\ file # <<>> /\ file' # <<>> /\ Len(file) \in 1..Len(file)
        BY <1>c, <2>3 DEF Bad
      <3> QED
        BY <1>b, <2>1, <2>3, <3>1
    <2>4. CASE Len(file') = Len(file) - 1 /\ Len(file) > 1 /\ file'[Len(file) - 1] = file[Len(file)]
      <3>1. file[Len(file)] \in Lines /\ file # <<>> /\ file' # <<>>
        BY <1>c, <2>4, Fields
      <3>2. file[Len(file)].seq \in Nat /\ file'[Len(file')].seq = file[Len(file)].seq
        BY <2>4, <3>1, LineFields
      <3> QED
        BY <1>b, <1>c, <2>1, <2>2, <2>4, <3>1, <3>2
    <2> QED
      BY <1>6, <2>3, <2>4, TamperedFile
  <1>7. CASE UNCHANGED vars
    BY <1>7, <1>d DEF vars
  <1> QED
    BY <1>1, <1>2, <1>3, <1>4, <1>5, <1>6, <1>7, Steps DEF Acquire, Confirm

LEMMA InitIInv == Init => IInv
  <1> SUFFICES ASSUME Init
               PROVE  IInv
    OBVIOUS
  <1>0. file = <<>> /\ file \in Seq(Lines) /\ Len(file) = 0 /\ returned = {} /\ ~tampered
    BY DEF Init
  <1>1. TypeOK
    <2>1. synced \in 0..Len(file) /\ next \in 1..(MaxRecord + 1)
      BY <1>0, BoundAssumption DEF Init
    <2>2. rec \in [Writers -> Lines \cup {NoLine}] /\ pc \in [Writers -> {"idle", "append", "write", "sync"}]
      BY DEF Init
    <2>3. /\ lock \in Locked \cup {"none"} /\ returned \subseteq Ids /\ tampered \in BOOLEAN /\ overlapped \in BOOLEAN
          /\ budget \in [Mishaps -> Nat]
      BY <1>0, BoundAssumption DEF Init
    <2> QED
      BY <1>0, <2>1, <2>2, <2>3 DEF TypeOK
  <1>2. HeldInv /\ AloneInv
    BY DEF Init, HeldInv, AloneInv
  <1>3. BudgetInv
    BY BoundAssumption DEF Init, BudgetInv
  <1>4. KeptInv
    BY <1>0 DEF Init, KeptInv, ReturnedIsKept
  <1>5. ChainInv
    BY <1>0 DEF Init, ChainInv, Verified
  <1>6. SeenInv
    BY <1>0 DEF Init, SeenInv
  <1> QED
    BY <1>1, <1>2, <1>3, <1>4, <1>5, <1>6 DEF IInv

LEMMA NextIInv == IInv /\ [Next]_vars => IInv'
  BY NextType, NextAlone, NextKept, NextChain, NextSeen DEF IInv

LEMMA IInvTrue == IInv => TrailIsTrue
  <1> SUFFICES ASSUME IInv
               PROVE  TrailIsTrue
    OBVIOUS
  <1>1. Never("short") => ReturnedIsKept
    BY DEF IInv, KeptInv, ReturnedIsKept
  <1>2. Never("short") /\ Never("crash") /\ ~overlapped => IntactVerifies
    BY DEF IInv, ChainInv, IntactVerifies
  <1>3. Never("crash") /\ ~overlapped => TamperDetected
    <2> SUFFICES ASSUME Never("crash"), ~overlapped, tampered, Verified
                 PROVE  FALSE
      BY DEF TamperDetected
    <2>1. file # <<>> /\ (Bad \/ file[Len(file)].seq > Len(file))
      BY DEF IInv, SeenInv
    <2>2. Len(file) \in 1..Len(file)
      BY <2>1, Fields DEF IInv
    <2> QED
      BY <2>1, <2>2 DEF Verified, Chained, Bad
  <1> QED
    BY <1>1, <1>2, <1>3 DEF TrailIsTrue

-----------------------------------------------------------------------------
(* The theorems.                                                           *)

THEOREM Invariance == Spec => []IInv
  BY InitIInv, NextIInv, PTL DEF Spec

\* Every variable keeps its type.
THEOREM TypeCorrect == Spec => []TypeOK
  <1>1. IInv => TypeOK
    BY DEF IInv
  <1> QED
    BY Invariance, <1>1, PTL

\* The audit trail can be trusted, for any writers and any number of records and
\* mishaps: what append has returned stays, an intact chain verifies and a
\* change is seen.
THEOREM TrailTrue == Spec => []TrailIsTrue
  BY Invariance, IInvTrue, PTL

\* The lock's part: a writer that is under way and locks holds the lock.
HolderInv == \A w \in Writers : pc[w] # "idle" => lock = w

\* What the lock is for: where every writer takes it, no two appends overlap, so
\* the clauses of TrailIsTrue that ask for it hold of every behaviour.
THEOREM LockedNeverOverlap ==
    ASSUME Unlocked = {}
    PROVE  Spec => [](~overlapped)
  <1> DEFINE Alone == TypeOK /\ HolderInv /\ ~overlapped
  <1>1. Init => HolderInv /\ ~overlapped
    BY DEF Init, HolderInv
  <1>2. Alone /\ [Next]_vars => HolderInv' /\ ~overlapped'
    <2> SUFFICES ASSUME TypeOK, HolderInv, ~overlapped, [Next]_vars
                 PROVE  HolderInv' /\ ~overlapped'
      OBVIOUS
    <2>0. /\ pc \in [Writers -> {"idle", "append", "write", "sync"}]
          /\ Writers = Locked
      BY DEF TypeOK, Writers
    <2>1. ASSUME NEW w \in Writers, Acquire(w)
          PROVE  HolderInv' /\ ~overlapped'
      <3>1. \A v \in Writers : pc[v] = "idle"
        BY <2>1, WriterAssumption DEF Acquire, HolderInv
      <3>2. ~overlapped'
        BY <2>1, <3>1 DEF Acquire, Starts
      <3>3. HolderInv'
        BY <2>0, <2>1, <3>1 DEF Acquire, Starts, HolderInv
      <3> QED
        BY <3>2, <3>3
    <2>2. \A w \in Writers : ~Confirm(w)
      BY DEF Confirm
    <2>3. ASSUME NEW w \in Writers, Prepare(w) \/ Write(w) \/ Sync(w)
          PROVE  HolderInv' /\ ~overlapped'
      <3>1. /\ UNCHANGED overlapped /\ lock = w
            /\ UNCHANGED lock \/ pc'[w] = "idle"
            /\ \A v \in Writers \ {w} : pc'[v] = pc[v]
        BY <2>0, <2>3 DEF Prepare, Write, Sync, Done, HolderInv
      <3>2. \A v \in Writers \ {w} : pc[v] = "idle"
        BY <3>1 DEF HolderInv
      <3> QED
        BY <3>1, <3>2 DEF HolderInv
    <2>4. CASE Crash
      BY <2>4 DEF Crash, HolderInv
    <2>5. ASSUME NEW i \in 1..Len(file), Tamper(i)
          PROVE  HolderInv' /\ ~overlapped'
      BY <2>5 DEF Tamper, HolderInv
    <2>6. CASE UNCHANGED vars
      BY <2>6 DEF vars, HolderInv
    <2> QED
      BY <2>1, <2>2, <2>3, <2>4, <2>5, <2>6, Steps
  <1> QED
    BY <1>1, <1>2, TypeCorrect, PTL DEF Spec

-----------------------------------------------------------------------------
(* The trail is a ledger.                                                  *)

Log == [i \in 1..Len(file) |-> file[i].id]

LogOK ==
    /\ Log \in Seq(Ids) /\ Len(Log) = Len(file) /\ Len(file) \in Nat
    /\ \A i \in 1..Len(file) : Log[i] = file[i].id

LEMMA LogIsLog == TypeOK => LogOK
  <1> SUFFICES ASSUME TypeOK
               PROVE  LogOK
    OBVIOUS
  <1>1. Len(file) \in Nat /\ \A i \in 1..Len(file) : file[i].id \in Ids
    BY Fields, LineFields
  <1>2. Log \in [1..Len(file) -> Ids]
    BY <1>1 DEF Log
  <1> QED
    BY <1>1, <1>2 DEF Log, LogOK

LEMMA NextLedger ==
    IInv /\ IInv' /\ [Next]_vars => [Trail!Next]_<<Log, synced, tampered>>
  <1> SUFFICES ASSUME IInv, IInv', [Next]_vars
               PROVE  [Trail!Next]_<<Log, synced, tampered>>
    OBVIOUS
  <1>0. /\ TypeOK /\ HeldInv /\ BudgetInv
        /\ Len(Log) = Len(file) /\ Len(file) \in Nat /\ Log \in Seq(Ids) /\ synced \in 0..Len(file)
        /\ \A i \in 1..Len(file) : Log[i] = file[i].id
    BY LogIsLog DEF IInv, TypeOK, LogOK
  <1>1. /\ Len(Log') = Len(file') /\ Len(file') \in Nat /\ Log' \in Seq(Ids)
        /\ \A i \in 1..Len(file') : Log'[i] = file'[i].id
    <2>1. TypeOK'
      BY DEF IInv
    <2>2. LogOK'
      BY <2>1, LogIsLog, PTL
    <2> QED
      BY <2>2 DEF LogOK
  <1>2. CASE tampered' = TRUE
    BY <1>2 DEF Trail!Next, Trail!Break
  <1>3. ASSUME UNCHANGED <<file, synced, tampered>>
        PROVE  UNCHANGED <<Log, synced, tampered>>
    BY <1>3 DEF Log
  <1>4. ASSUME NEW w \in Writers, Acquire(w) \/ Confirm(w) \/ Prepare(w)
        PROVE  UNCHANGED <<Log, synced, tampered>>
    BY <1>3, <1>4 DEF Acquire, Confirm, Starts, Prepare
  <1>5. ASSUME NEW w \in Writers, Write(w), ~tampered
        PROVE  [Trail!Next]_<<Log, synced, tampered>>
    <2>1. rec[w] \in Lines /\ UNCHANGED <<synced, tampered>>
      BY <1>0, <1>5, Written
    <2>2. PICK line \in Lines : file' = Extended(line)
      BY <1>5, <2>1, Reshaped DEF Write
    <2>3. \A i \in 1..Len(file) : file'[i].id = file[i].id
      BY <1>0, <2>2, ExtendedFile
    <2>4. CASE Len(file') = Len(file)
      <3>1. Log' = Log
        BY <1>0, <1>1, <2>3, <2>4, SeqEqual
      <3> QED
        BY <2>1, <3>1
    <2>5. CASE Len(file') = Len(file) + 1 /\ file'[Len(file) + 1] = line
      <3>1. line.id \in Ids
        BY LineFields
      <3>2. /\ Append(Log, line.id) \in Seq(Ids) /\ Len(Append(Log, line.id)) = Len(file) + 1
            /\ \A i \in 1..Len(file) : Append(Log, line.id)[i] = Log[i]
            /\ Append(Log, line.id)[Len(file) + 1] = line.id
        BY <1>0, <3>1, AppendProperties
      <3>3. \A i \in 1..(Len(file) + 1) : Log'[i] = Append(Log, line.id)[i]
        BY <1>0, <1>1, <2>3, <2>5, <3>2
      <3>4. Log' = Append(Log, line.id)
        BY <1>1, <2>5, <3>2, <3>3, SeqEqual
      <3>5. Trail!Add
        <4>1. Log' = Append(Log, line.id) /\ UNCHANGED synced
          BY <2>1, <3>4
        <4> QED
          BY <3>1, <4>1, Zenon DEF Trail!Add, Log
      <3> QED
        BY <1>5, <2>1, <3>5 DEF Trail!Next
    <2> QED
      BY <1>0, <2>2, <2>4, <2>5, ExtendedFile
  <1>6. ASSUME NEW w \in Writers, Sync(w), ~tampered
        PROVE  [Trail!Next]_<<Log, synced, tampered>>
    <2>1. /\ UNCHANGED <<file, tampered>> /\ synced' \in {synced, Len(file)}
      BY <1>6 DEF Sync
    <2>2. Log' = Log /\ synced' \in synced..Len(Log)
      BY <1>0, <2>1 DEF Log
    <2> QED
      BY <1>6, <2>1, <2>2 DEF Trail!Next, Trail!Settle
  <1>7. ASSUME Crash, ~tampered
        PROVE  [Trail!Next]_<<Log, synced, tampered>>
    <2>1. synced' = Len(file') /\ UNCHANGED tampered
      BY <1>7 DEF Crash
    <2>2. Len(file') \in synced..Len(file) /\ \A i \in 1..Len(file') : file'[i].id = file[i].id
      BY <1>0, <1>7, CrashedFile
    <2>3. /\ SubSeq(Log, 1, Len(file')) \in Seq(Ids) /\ Len(SubSeq(Log, 1, Len(file'))) = Len(file')
          /\ \A i \in 1..Len(file') : SubSeq(Log, 1, Len(file'))[i] = Log[i]
      BY <1>0, <1>1, <2>2, SubSeqProperties
    <2>4. \A i \in 1..Len(file') : Log'[i] = SubSeq(Log, 1, Len(file'))[i]
      BY <1>0, <1>1, <2>2, <2>3
    <2>5. Log' = SubSeq(Log, 1, Len(file'))
      BY <1>1, <2>3, <2>4, SeqEqual
    <2> QED
      BY <1>0, <1>7, <2>1, <2>2, <2>5 DEF Trail!Next, Trail!Lose
  <1>8. CASE \E i \in 1..Len(file) : Tamper(i)
    BY <1>2, <1>8 DEF Tamper
  <1>9. CASE UNCHANGED vars
    BY <1>3, <1>9 DEF vars
  <1>10. tampered => tampered'
    BY Steps DEF Acquire, Confirm, Starts, Prepare, Write, Sync, Crash, Tamper, vars
  <1>11. tampered' \in BOOLEAN
    BY DEF IInv, TypeOK
  <1> QED
    BY <1>2, <1>4, <1>5, <1>6, <1>7, <1>8, <1>9, <1>10, <1>11, Steps

\* The audit trail is a ledger until somebody breaks it: whatever the writers do
\* and whatever happens to the machine, it only grows, and what is on the disk
\* stays.
THEOREM Refinement == Spec => ImplementsLedger
  <1>1. Init => Trail!Init
    <2> SUFFICES ASSUME Init
                 PROVE  Trail!Init
      OBVIOUS
    <2>1. Log \in Seq(Ids) /\ Len(Log) = 0
      BY InitIInv, LogIsLog DEF Init, IInv, LogOK
    <2>2. Log = <<>>
      BY <2>1, EmptySeq
    <2> QED
      BY <2>2 DEF Init, Trail!Init, Log
  <1>2. IInv /\ IInv' /\ [Next]_vars => [Trail!Next]_<<Log, synced, tampered>>
    BY NextLedger
  <1> QED
    BY <1>1, <1>2, Invariance, PTL DEF Spec, ImplementsLedger, Trail!Spec, Log

-----------------------------------------------------------------------------
(* The registrar (ManagementPCs): where an operation stands.               *)

PosInv == IF kind = "none" THEN pos = 1 ELSE pos \in 1..Len(Order[kind])

LEMMA KindsAre == Kinds = {"enroll", "undo", "revoke", "legacy", "policy"}
  BY DEF Kinds, Order

LEMMA OrderIs ==
    /\ Order["enroll"] = <<"user", "token", "sync", "start", "save", "trust", "retire">>
    /\ Order["undo"] = <<"sync", "start", "save", "trust_back", "drop_new">>
    /\ Order["revoke"] = <<"drop_user", "drop_pub", "sync", "start", "save">>
    /\ Order["legacy"] = <<"sync", "start", "save", "drop_role">>
    /\ Order["policy"] = <<"sync", "start", "save">>
  BY DEF Order

LEMMA LengthsAre ==
    /\ Len(Order["enroll"]) = 7 /\ Len(Order["undo"]) = 5 /\ Len(Order["revoke"]) = 5
    /\ Len(Order["legacy"]) = 4 /\ Len(Order["policy"]) = 3
  BY OrderIs

LEMMA PosIs ==
    ASSUME kind \in Kinds, PosInv
    PROVE  /\ kind = "enroll" => pos \in 1..7
           /\ kind \in {"undo", "revoke"} => pos \in 1..5
           /\ kind = "legacy" => pos \in 1..4
           /\ kind = "policy" => pos \in 1..3
  <1>1. kind = "enroll" => pos \in 1..7
    BY LengthsAre DEF PosInv
  <1>2. kind \in {"undo", "revoke"} => pos \in 1..5
    BY LengthsAre DEF PosInv
  <1>3. kind = "legacy" => pos \in 1..4
    BY LengthsAre DEF PosInv
  <1>4. kind = "policy" => pos \in 1..3
    BY LengthsAre DEF PosInv
  <1> QED
    BY <1>1, <1>2, <1>3, <1>4

At(k, p) == kind = k /\ pos = p

\* Which step the lock's holder has reached.
LEMMA StepIs ==
    ASSUME kind \in Kinds \cup {"none"}, PosInv
    PROVE  /\ Step = "none" <=> kind = "none"
           /\ Step = "user" <=> At("enroll", 1)
           /\ Step = "token" <=> At("enroll", 2)
           /\ Step = "sync" <=> At("enroll", 3) \/ At("undo", 1) \/ At("revoke", 3) \/ At("legacy", 1) \/ At("policy", 1)
           /\ Step = "start" <=> At("enroll", 4) \/ At("undo", 2) \/ At("revoke", 4) \/ At("legacy", 2) \/ At("policy", 2)
           /\ Step = "save" <=> At("enroll", 5) \/ At("undo", 3) \/ At("revoke", 5) \/ At("legacy", 3) \/ At("policy", 3)
           /\ Step = "trust" <=> At("enroll", 6)
           /\ Step = "retire" <=> At("enroll", 7)
           /\ Step = "trust_back" <=> At("undo", 4)
           /\ Step = "drop_new" <=> At("undo", 5)
           /\ Step = "drop_user" <=> At("revoke", 1)
           /\ Step = "drop_pub" <=> At("revoke", 2)
           /\ Step = "drop_role" <=> At("legacy", 4)
  <1>1. CASE kind = "none"
    BY <1>1 DEF Step, At
  <1>2. CASE kind = "enroll"
    <2>1. pos \in 1..7 /\ Step = Order["enroll"][pos]
      BY <1>2, LengthsAre DEF PosInv, Step
    <2> QED
      BY <1>2, <2>1, OrderIs DEF At
  <1>3. CASE kind = "undo"
    <2>1. pos \in 1..5 /\ Step = Order["undo"][pos]
      BY <1>3, LengthsAre DEF PosInv, Step
    <2> QED
      BY <1>3, <2>1, OrderIs DEF At
  <1>4. CASE kind = "revoke"
    <2>1. pos \in 1..5 /\ Step = Order["revoke"][pos]
      BY <1>4, LengthsAre DEF PosInv, Step
    <2> QED
      BY <1>4, <2>1, OrderIs DEF At
  <1>5. CASE kind = "legacy"
    <2>1. pos \in 1..4 /\ Step = Order["legacy"][pos]
      BY <1>5, LengthsAre DEF PosInv, Step
    <2> QED
      BY <1>5, <2>1, OrderIs DEF At
  <1>6. CASE kind = "policy"
    <2>1. pos \in 1..3 /\ Step = Order["policy"][pos]
      BY <1>6, LengthsAre DEF PosInv, Step
    <2> QED
      BY <1>6, <2>1, OrderIs DEF At
  <1> QED
    BY <1>1, <1>2, <1>3, <1>4, <1>5, <1>6, KindsAre

Ended == At("enroll", 7) \/ At("undo", 5) \/ At("revoke", 5) \/ At("legacy", 4) \/ At("policy", 3)

\* What Advance does.
LEMMA Advances ==
    ASSUME kind \in Kinds, PosInv, Advance
    PROVE  /\ ~Ended => pos' = pos + 1 /\ kind' = kind /\ entry' = entry /\ outcome' = outcome
           /\ Ended => /\ kind' = "none" /\ pos' = 1
                       /\ outcome' = IF kind \in {"enroll", "revoke", "undo"} THEN [outcome EXCEPT ![dev] = Report(kind)] ELSE outcome
                       /\ entry' = IF kind = "policy" THEN PolicyDone(Mode(mem)) ELSE entry
           /\ PosInv'
  <1>1. Last <=> Ended
    BY KindsAre, LengthsAre DEF PosInv, Last, Ended, At
  <1>2. ~Ended => pos' = pos + 1 /\ kind' = kind /\ entry' = entry /\ outcome' = outcome
    BY <1>1 DEF Advance
  <1>3. Ended => /\ kind' = "none" /\ pos' = 1
                 /\ outcome' = IF kind \in {"enroll", "revoke", "undo"} THEN [outcome EXCEPT ![dev] = Report(kind)] ELSE outcome
                 /\ entry' = IF kind = "policy" THEN PolicyDone(Mode(mem)) ELSE entry
    BY <1>1, Zenon DEF Advance
  <1>4. CASE Ended
    BY <1>3, <1>4 DEF PosInv
  <1>5. CASE ~Ended
    <2>1. kind # "none" /\ pos \in 1..Len(Order[kind]) /\ pos # Len(Order[kind]) /\ Len(Order[kind]) \in Nat
      BY <1>1, <1>5, KindsAre, LengthsAre DEF PosInv, Last
    <2> QED
      BY <1>2, <1>5, <2>1 DEF PosInv
  <1> QED
    BY <1>2, <1>3, <1>4, <1>5

-----------------------------------------------------------------------------
(* Types.                                                                  *)

\* An active record has a key.
Keyed(reg) == \A d \in Devices : reg.pc[d].status = "active" => reg.pc[d].key \in Keys
KeyedInv == Keyed(registry) /\ Keyed(mem) /\ Keyed(prevReg) /\ (kind \in {"enroll", "undo"} => key \in Keys)

\* There is a user for every request that waits, and for the enrolment under way.
CountInv ==
    /\ IsFiniteSet(waiting) /\ nextUser + Cardinality(waiting) <= MaxUser + 1
    /\ At("enroll", 1) => newUser = nextUser /\ nextUser + Cardinality(waiting) <= MaxUser
    /\ kind = "undo" \/ (kind = "enroll" /\ pos > 1) => newUser \in 1..(nextUser - 1)

RegistrarTypeInv == RegistrarTypeOK /\ PosInv /\ KeyedInv /\ CountInv

LEMMA KnownTyped ==
    ASSUME NEW reg \in Registries, Keyed(reg)
    PROVE  KnownKeys(reg) \subseteq Keys \cup {LegacyKey}
  BY DEF KnownKeys, ActiveKeys, Keyed, Registries, LegacyKey

LEMMA Fieldwise ==
    ASSUME NEW reg \in Registries
    PROVE  /\ reg.pc \in [Devices -> Records] /\ reg.legacy \in SUBSET {LegacyKey}
           /\ reg = [pc |-> reg.pc, legacy |-> reg.legacy]
           /\ \A d \in Devices : /\ reg.pc[d] \in Records /\ reg.pc[d].user \in 0..MaxUser
                                 /\ reg.pc[d].status \in {"none", "active", "revoked"}
                                 /\ reg.pc[d].key \in Keys \cup {"none"} /\ reg.pc[d].done \in BOOLEAN
  BY DEF Registries, Records

\* Two registries that agree in every field are one.
LEMMA Agree ==
    ASSUME NEW r \in Registries, NEW s \in Registries, r.legacy = s.legacy, \A d \in Devices : r.pc[d] = s.pc[d]
    PROVE  r = s
  <1>1. r.pc = s.pc
    BY Fieldwise
  <1> QED
    BY <1>1, Fieldwise

\* The registry with one record changed.
WithRecord(reg, d, record) == [reg EXCEPT !.pc[d] = record]
LEMMA OneRecord ==
    ASSUME NEW reg \in Registries, NEW d \in Devices, NEW record \in Records, NEW new, new = WithRecord(reg, d, record)
    PROVE  /\ new \in Registries /\ new.legacy = reg.legacy /\ new.pc[d] = record
           /\ \A e \in Devices \ {d} : new.pc[e] = reg.pc[e]
  <1>1. new = [reg EXCEPT !.pc = [reg.pc EXCEPT ![d] = record]]
    BY DEF WithRecord
  <1>2. reg.pc \in [Devices -> Records]
    BY Fieldwise
  <1>3. [reg.pc EXCEPT ![d] = record] \in [Devices -> Records]
    BY <1>2
  <1>4. new.pc = [reg.pc EXCEPT ![d] = record] /\ new.legacy = reg.legacy
    BY <1>1 DEF Registries
  <1>5. new \in Registries
    BY <1>1, <1>3 DEF Registries
  <1> QED
    BY <1>2, <1>4, <1>5

\* n is reg with dev enrolled; with dev revoked.
AsEnrolled(n, reg) ==
    /\ n.legacy = reg.legacy /\ \A e \in Devices \ {dev} : n.pc[e] = reg.pc[e]
    /\ n.pc[dev].status = "active" /\ n.pc[dev].key = key /\ n.pc[dev].user = newUser
AsRevoked(n, reg) ==
    /\ n.legacy = reg.legacy /\ \A e \in Devices \ {dev} : n.pc[e] = reg.pc[e]
    /\ n.pc[dev].status = "revoked" /\ n.pc[dev].user = reg.pc[dev].user

LEMMA EnrollIs ==
    ASSUME RegistrarTypeInv, NEW d \in Devices, NEW k \in Keys, Enroll(d, k),
           ~(registry.pc[d].status = "active" /\ registry.pc[d].key # k)
    PROVE  /\ kind = "none" /\ kind' = "enroll" /\ pos' = 1 /\ dev' = d /\ key' = k
           /\ prevReg' = registry /\ prevTrust' = trust /\ newUser' = nextUser
           /\ nextUser \in 1..MaxUser /\ nextUser + Cardinality(waiting') <= MaxUser
           /\ IsFiniteSet(waiting') /\ waiting' \subseteq waiting
           /\ oldUser' \in {0, registry.pc[d].user} /\ outcome' = [outcome EXCEPT ![d] = "none"]
           /\ mem' \in Registries
           /\ AsEnrolled(mem, registry)'
  <1>0. registry \in Registries
    BY DEF RegistrarTypeInv, RegistrarTypeOK
  <1>1. /\ kind = "none" /\ kind' = "enroll" /\ pos' = 1 /\ dev' = d /\ key' = k
        /\ prevReg' = registry /\ prevTrust' = trust /\ newUser' = nextUser
        /\ mem' = Enrolled(registry, d, k, nextUser) /\ registry' = registry
        /\ waiting' = waiting \ {<<d, k>>} /\ <<d, k>> \in waiting
        /\ oldUser' \in {0, registry.pc[d].user} /\ outcome' = [outcome EXCEPT ![d] = "none"]
    BY DEF Enroll, Start, stores
  <1>2. /\ IsFiniteSet(waiting') /\ Cardinality(waiting') \in Nat
        /\ Cardinality(waiting') = Cardinality(waiting) - 1 /\ Cardinality(waiting) \in Nat
    BY <1>1, FS_RemoveElement, FS_CardinalityType DEF RegistrarTypeInv, CountInv
  <1>3. nextUser \in 1..MaxUser /\ nextUser + Cardinality(waiting') <= MaxUser
    BY <1>2, RegistrarAssumption DEF RegistrarTypeInv, CountInv, RegistrarTypeOK
  <1>4. DEFINE record == [status |-> "active", key |-> k, user |-> nextUser, done |-> FALSE]
  <1>5. record \in Records
    BY <1>3, RegistrarAssumption DEF Records
  <1>6. mem' = WithRecord(registry, d, record)
    BY <1>1 DEF Enrolled, WithRecord
  <1>7. /\ mem' \in Registries /\ mem'.legacy = registry.legacy /\ mem'.pc[d] = record
        /\ \A e \in Devices \ {d} : mem'.pc[e] = registry.pc[e]
    <2> HIDE DEF record
    <2> QED
      BY <1>0, <1>5, <1>6, OneRecord
  <1> QED
    BY <1>1, <1>2, <1>3, <1>7 DEF AsEnrolled

LEMMA RevokeIs ==
    ASSUME RegistrarTypeInv, NEW d \in Devices, Revoke(d)
    PROVE  /\ kind = "none" /\ kind' = "revoke" /\ pos' = 1 /\ dev' = d
           /\ outcome' = [outcome EXCEPT ![d] = "none"]
           /\ mem' \in Registries /\ AsRevoked(mem, registry)'
  <1>0. registry \in Registries
    BY DEF RegistrarTypeInv, RegistrarTypeOK
  <1>1. /\ kind = "none" /\ kind' = "revoke" /\ pos' = 1 /\ dev' = d /\ registry' = registry
        /\ outcome' = [outcome EXCEPT ![d] = "none"]
        /\ mem' = [registry EXCEPT !.pc[d].status = "revoked"]
    BY DEF Revoke, Start, stores
  <1>2. PICK record : record = [registry.pc[d] EXCEPT !.status = "revoked"]
    OBVIOUS
  <1>3. record \in Records /\ record.status = "revoked" /\ record.user = registry.pc[d].user
    BY <1>0, <1>2, Fieldwise DEF Records
  <1>4. mem' = WithRecord(registry, d, record)
    BY <1>1, <1>2 DEF WithRecord
  <1>5. /\ mem' \in Registries /\ mem'.legacy = registry.legacy /\ mem'.pc[d] = record
        /\ \A e \in Devices \ {d} : mem'.pc[e] = registry.pc[e]
    BY <1>0, <1>3, <1>4, OneRecord
  <1> QED
    BY <1>1, <1>3, <1>5 DEF AsRevoked

LEMMA CommissionIs ==
    ASSUME RegistrarTypeInv, NEW d \in Devices, Commission(d)
    PROVE  /\ kind = "none" /\ registry' \in Registries /\ registry'.legacy = registry.legacy
           /\ \A e \in Devices : /\ registry'.pc[e].status = registry.pc[e].status
                                 /\ registry'.pc[e].key = registry.pc[e].key
                                 /\ registry'.pc[e].user = registry.pc[e].user
           /\ UNCHANGED <<trust, users, conf, live, op, meanwhile, outcome, trouble>>
  <1>0. registry \in Registries
    BY DEF RegistrarTypeInv, RegistrarTypeOK
  <1>1. /\ kind = "none" /\ registry' = [registry EXCEPT !.pc[d].done = TRUE]
        /\ UNCHANGED <<trust, users, conf, live, op, meanwhile, outcome, trouble>>
    BY DEF Commission
  <1>2. PICK record : record = [registry.pc[d] EXCEPT !.done = TRUE]
    OBVIOUS
  <1>3. /\ record \in Records /\ record.status = registry.pc[d].status /\ record.key = registry.pc[d].key
        /\ record.user = registry.pc[d].user
    BY <1>0, <1>2, Fieldwise DEF Records
  <1>4. registry' = WithRecord(registry, d, record)
    BY <1>1, <1>2 DEF WithRecord
  <1>5. /\ registry' \in Registries /\ registry'.legacy = registry.legacy /\ registry'.pc[d] = record
        /\ \A e \in Devices \ {d} : registry'.pc[e] = registry.pc[e]
    BY <1>0, <1>3, <1>4, OneRecord
  <1> QED
    BY <1>1, <1>3, <1>5

LEMMA RevokeLegacyIs ==
    ASSUME RegistrarTypeInv, RevokeLegacy
    PROVE  /\ kind = "none" /\ kind' = "legacy" /\ pos' = 1 /\ dev' = dev
           /\ mem' \in Registries /\ mem'.pc = registry.pc /\ mem'.legacy = {}
  <1>1. registry \in Registries
    BY DEF RegistrarTypeInv, RegistrarTypeOK
  <1>2. /\ kind = "none" /\ kind' = "legacy" /\ pos' = 1 /\ dev' = dev
        /\ mem' = [registry EXCEPT !.legacy = {}]
    BY DEF RevokeLegacy, Start
  <1> QED
    BY <1>1, <1>2 DEF Registries

-----------------------------------------------------------------------------
LEMMA AdvanceTyped ==
    ASSUME RegistrarTypeOK, PosInv, kind \in Kinds, Advance
    PROVE  /\ kind' \in Kinds \cup {"none"} /\ pos' \in 1..7 /\ PosInv'
           /\ entry' \in {"none", "policy", "running", "password"}
           /\ outcome' \in [Devices -> {"none", "enrolled", "revoked", "failed"}]
           /\ kind' \in {"enroll", "undo"} => kind' = kind /\ pos' = pos + 1
  <1>1. kind \in {"enroll", "undo", "revoke", "legacy", "policy"}
    BY KindsAre
  <1>2. PosInv' /\ kind' \in {kind, "none"} /\ (kind' # "none" => pos' = pos + 1 /\ kind' = kind)
    BY <1>1, Advances
  <1>3. pos' \in 1..7
    <2>1. kind' # "none" => kind' = kind /\ pos' \in 1..Len(Order[kind])
      BY <1>2 DEF PosInv
    <2>3. Len(Order[kind]) = 7 \/ Len(Order[kind]) = 5 \/ Len(Order[kind]) = 4 \/ Len(Order[kind]) = 3
      BY <1>1, LengthsAre
    <2>2. kind' = "none" => pos' = 1
      BY <1>2 DEF PosInv
    <2>4. kind' # "none" => pos' \in 1..7 \/ pos' \in 1..5 \/ pos' \in 1..4 \/ pos' \in 1..3
      BY <2>1, <2>3, Zenon
    <2> QED
      BY <2>2, <2>4
  <1>4. entry' \in {"none", "policy", "running", "password"}
    <2>1. entry' \in {entry, PolicyDone(Mode(mem))}
      BY Advances
    <2> QED
      BY <2>1 DEF PolicyDone, RegistrarTypeOK
  <1>5. outcome' \in [Devices -> {"none", "enrolled", "revoked", "failed"}]
    <2>1. outcome' = outcome \/ outcome' = [outcome EXCEPT ![dev] = Report(kind)]
      BY Advances
    <2>2. Report(kind) \in {"none", "enrolled", "revoked", "failed"}
      BY DEF Report
    <2> QED
      BY <2>1, <2>2 DEF RegistrarTypeOK
  <1> QED
    BY <1>1, <1>2, <1>3, <1>4, <1>5

\* The steps whose only effect on typed state is a store and Advance.
Holding ==
    \/ CreateUser \/ CreateToken \/ SyncKeys \/ StartApp \/ Save \/ ChangeTrust \/ DropUser \/ Retire

LEMMA HoldingIs ==
    ASSUME RegistrarTypeOK, PosInv, Holding
    PROVE  /\ kind \in Kinds /\ Advance /\ UNCHANGED <<args, mem, codes, waiting, writer, trouble>>
           /\ ~At("enroll", 1) => nextUser' = nextUser
           /\ users' # users => At("enroll", 1) \/ At("enroll", 7) \/ At("revoke", 1) \/ At("undo", 5)
  <1>1. kind # "none"
    BY StepIs DEF Holding, CreateUser, CreateToken, SyncKeys, StartApp, Save, ChangeTrust, DropUser, Retire, RegistrarTypeOK
  <1>2. Advance /\ UNCHANGED <<args, mem, codes, waiting, writer, trouble>>
    BY DEF Holding, CreateUser, CreateToken, SyncKeys, StartApp, Save, ChangeTrust, DropUser, Retire
  <1>3. ~At("enroll", 1) => nextUser' = nextUser
    BY StepIs DEF Holding, CreateUser, CreateToken, SyncKeys, StartApp, Save, ChangeTrust, DropUser, Retire, RegistrarTypeOK
  <1>4. users' # users => At("enroll", 1) \/ At("enroll", 7) \/ At("revoke", 1) \/ At("undo", 5)
    BY StepIs DEF Holding, CreateUser, CreateToken, SyncKeys, StartApp, Save, ChangeTrust, DropUser, Retire, RegistrarTypeOK, stores
  <1> QED
    BY <1>1, <1>2, <1>3, <1>4 DEF RegistrarTypeOK

LEMMA HoldingType == RegistrarTypeInv /\ Holding => RegistrarTypeInv'
  <1> SUFFICES ASSUME RegistrarTypeInv, Holding
               PROVE  RegistrarTypeInv'
    OBVIOUS
  <1>0. RegistrarTypeOK /\ PosInv /\ KeyedInv /\ CountInv
    BY DEF RegistrarTypeInv
  <1>1. kind \in Kinds /\ Advance /\ UNCHANGED <<args, mem, codes, waiting, writer, trouble>>
    BY <1>0, HoldingIs
  <1>2. /\ kind' \in Kinds \cup {"none"} /\ pos' \in 1..7 /\ PosInv'
        /\ entry' \in {"none", "policy", "running", "password"}
        /\ outcome' \in [Devices -> {"none", "enrolled", "revoked", "failed"}]
        /\ kind' \in {"enroll", "undo"} => kind' = kind /\ pos' = pos + 1
    BY <1>0, <1>1, AdvanceTyped
  <1>3. registry' \in {registry, mem}
    BY DEF Holding, CreateUser, CreateToken, SyncKeys, StartApp, Save, ChangeTrust, DropUser, Retire, stores
  <1>4. trust' \in Trust
    <2>1. CASE ChangeTrust
      <3>1. \/ trust' = [trust EXCEPT ![Pub[dev]] = key] \/ trust' = [trust EXCEPT ![Pub[dev]] = "none"]
            \/ trust' = [trust EXCEPT !["role"] = "none"] \/ trust' = prevTrust
        BY <2>1 DEF ChangeTrust
      <3>2. Pub[dev] \in PubIds
        BY <1>0, RegistrarAssumption DEF RegistrarTypeOK
      <3> QED
        BY <1>0, <3>1, <3>2 DEF RegistrarTypeOK, Trust
    <2>2. CASE ~ChangeTrust
      <3>1. trust' = trust
        BY <2>2 DEF Holding, CreateUser, CreateToken, SyncKeys, StartApp, Save, DropUser, Retire, stores
      <3> QED
        BY <1>0, <3>1 DEF RegistrarTypeOK
    <2> QED
      BY <2>1, <2>2
  <1>5. conf' \in Access
    <2>1. conf' = conf \/ conf' = [keys |-> KnownKeys(mem), password |-> FALSE]
      BY DEF Holding, CreateUser, CreateToken, SyncKeys, StartApp, Save, ChangeTrust, DropUser, Retire, stores
    <2>2. KnownKeys(mem) \subseteq Keys \cup {LegacyKey}
      BY <1>0, KnownTyped DEF KeyedInv, RegistrarTypeOK
    <2>3. [keys |-> KnownKeys(mem), password |-> FALSE] \in Access
      BY <2>2 DEF Access
    <2> QED
      BY <1>0, <2>1, <2>3 DEF RegistrarTypeOK
  <1>6. live' \in Access
    <2>1. live' = live \/ live' = conf \/ live' = NoAccess
      BY DEF Holding, CreateUser, CreateToken, SyncKeys, StartApp, Save, ChangeTrust, DropUser, Retire, stores
    <2>2. NoAccess \in Access
      BY DEF Access, NoAccess
    <2> QED
      BY <1>0, <2>1, <2>2 DEF RegistrarTypeOK
  <1>7. users' \subseteq Users /\ nextUser' \in 1..(MaxUser + 1) /\ CountInv'
    <2>1. CASE CreateUser
      <3>1. At("enroll", 1) /\ users' = users \cup {newUser} /\ nextUser' = newUser + 1
        BY <1>0, <2>1, StepIs DEF CreateUser, RegistrarTypeOK
      <3>2. newUser = nextUser /\ nextUser + Cardinality(waiting) <= MaxUser /\ IsFiniteSet(waiting)
        BY <1>0, <3>1 DEF CountInv
      <3>3. Cardinality(waiting) \in Nat /\ waiting' = waiting /\ newUser' = newUser
        BY <1>1, <3>2, FS_CardinalityType DEF args
      <3>4. nextUser \in 1..MaxUser /\ nextUser' = nextUser + 1
        BY <1>0, <3>1, <3>2, <3>3, RegistrarAssumption DEF RegistrarTypeOK
      <3>5. kind' = "none" \/ (kind' = "enroll" /\ pos' = 2)
        BY <1>0, <1>1, <3>1, Advances DEF At, Ended
      <3>6. users' \subseteq Users /\ nextUser' \in 1..(MaxUser + 1)
        BY <1>0, <3>1, <3>2, <3>4, RegistrarAssumption DEF RegistrarTypeOK, Users
      <3> QED
        BY <3>2, <3>3, <3>4, <3>5, <3>6, RegistrarAssumption DEF CountInv, At
    <2>2. CASE ~CreateUser
      <3>1. users' \subseteq users
        BY <2>2 DEF Holding, CreateToken, SyncKeys, StartApp, Save, ChangeTrust, DropUser, Retire, stores
      <3>2. nextUser' = nextUser
        BY <2>2 DEF Holding, CreateToken, SyncKeys, StartApp, Save, ChangeTrust, DropUser, Retire
      <3>3. ~At("enroll", 1) \/ kind # "enroll"
        BY <1>0, <2>2, StepIs DEF Holding, CreateToken, SyncKeys, StartApp, Save, ChangeTrust, DropUser, Retire, At, RegistrarTypeOK
      <3>4. newUser' = newUser /\ waiting' = waiting
        BY <1>1 DEF args
      <3>5. /\ ~At("enroll", 1)'
            /\ kind' = "undo" \/ (kind' = "enroll" /\ pos' > 1) => kind = "undo" \/ (kind = "enroll" /\ pos > 1)
        BY <1>0, <1>2, <3>3 DEF At, RegistrarTypeOK
      <3> QED
        BY <1>0, <3>1, <3>2, <3>4, <3>5 DEF CountInv, RegistrarTypeOK
    <2> QED
      BY <2>1, <2>2
  <1>8. RegistrarTypeOK'
    BY <1>0, <1>1, <1>2, <1>3, <1>4, <1>5, <1>6, <1>7 DEF RegistrarTypeOK, args, trouble
  <1>9. KeyedInv'
    BY <1>0, <1>1, <1>2, <1>3 DEF KeyedInv, Keyed, args
  <1> QED
    BY <1>2, <1>7, <1>8, <1>9 DEF RegistrarTypeInv

\* What a failure does.
LEMMA FailIs ==
    ASSUME RegistrarTypeOK, PosInv, Fail
    PROVE  /\ kind \in Kinds /\ registrarBudget["fail"] > 0 /\ home' = home
           /\ registrarBudget' = [registrarBudget EXCEPT !["fail"] = @ - 1]
           /\ UNCHANGED <<registry, trust, users, conf, args, nextUser, codes, waiting, writer>>
           /\ live' \in {live, NoAccess, conf}
           /\ Step # "start" => live' = live
           /\ \/ /\ kind = "enroll" /\ pos \in 3..6
                 /\ kind' = "undo" /\ pos' = 1 /\ mem' = prevReg /\ entry' = entry /\ outcome' = outcome
              \/ /\ kind = "undo" /\ pos \in 1..3
                 /\ kind' = "undo" /\ pos' = 4 /\ mem' = mem /\ entry' = entry /\ outcome' = outcome
              \/ /\ (kind = "undo" /\ pos \in 4..5) \/ At("enroll", 7)
                 /\ Advance /\ mem' = mem
              \/ /\ (kind = "enroll" /\ pos \in 1..2) \/ kind \in {"revoke", "legacy", "policy"}
                 /\ kind' = "none" /\ pos' = 1 /\ mem' = mem
                 /\ entry' = IF kind = "policy" THEN AfterPolicy ELSE entry
                 /\ outcome' = IF kind = "enroll" THEN [outcome EXCEPT ![dev] = "failed"] ELSE outcome
  <1>1. kind \in Kinds
    BY StepIs DEF Fail, RegistrarTypeOK
  <1>2. /\ registrarBudget["fail"] > 0 /\ home' = home
        /\ registrarBudget' = [registrarBudget EXCEPT !["fail"] = @ - 1]
        /\ UNCHANGED <<registry, trust, users, conf, args, nextUser, codes, waiting, writer>>
    BY DEF Fail, SpendRegistrar
  <1>3. live' \in {live, NoAccess, conf} /\ (Step # "start" => live' = live)
    BY DEF Fail, FailedStart
  <1>4. CASE /\ kind = "enroll" /\ Step \in {"sync", "start", "save", "trust"}
             /\ kind' = "undo" /\ pos' = 1 /\ mem' = prevReg /\ UNCHANGED <<entry, outcome>>
    <2>1. pos \in 3..6
      BY <1>1, <1>4, StepIs DEF At
    <2> QED
      BY <1>1, <1>2, <1>3, <1>4, <2>1
  <1>5. CASE /\ kind = "undo" /\ Step \in {"sync", "start", "save"}
             /\ pos' = 4 /\ UNCHANGED <<kind, mem, entry, outcome>>
    <2>1. pos \in 1..3
      BY <1>1, <1>5, StepIs DEF At
    <2> QED
      BY <1>1, <1>2, <1>3, <1>5, <2>1
  <1>6. CASE Step \in {"trust_back", "drop_new", "retire"} /\ Advance /\ UNCHANGED mem
    <2>1. (kind = "undo" /\ pos \in 4..5) \/ At("enroll", 7)
      BY <1>1, <1>6, StepIs DEF At
    <2> QED
      BY <1>1, <1>2, <1>3, <1>6, <2>1
  <1>7. CASE /\ ~(kind = "enroll" /\ Step \in {"sync", "start", "save", "trust"})
             /\ ~(kind = "undo" /\ Step \in {"sync", "start", "save"})
             /\ Step \notin {"trust_back", "drop_new", "retire"} /\ EndFailed /\ UNCHANGED mem
    <2>1. (kind = "enroll" /\ pos \in 1..2) \/ kind \in {"revoke", "legacy", "policy"}
      BY <1>1, <1>7, StepIs, KindsAre, PosIs DEF At
    <2> QED
      BY <1>1, <1>2, <1>3, <1>7, <2>1 DEF EndFailed
  <1> QED
    BY <1>4, <1>5, <1>6, <1>7 DEF Fail

LEMMA FailType == RegistrarTypeInv /\ Fail => RegistrarTypeInv'
  <1> SUFFICES ASSUME RegistrarTypeInv, Fail
               PROVE  RegistrarTypeInv'
    OBVIOUS
  <1>0. RegistrarTypeOK /\ PosInv /\ KeyedInv /\ CountInv
    BY DEF RegistrarTypeInv
  <1>1. /\ kind \in Kinds /\ registrarBudget["fail"] > 0 /\ home' = home
        /\ registrarBudget' = [registrarBudget EXCEPT !["fail"] = @ - 1]
        /\ UNCHANGED <<registry, trust, users, conf, args, nextUser, codes, waiting, writer>>
        /\ live' \in {live, NoAccess, conf}
    BY <1>0, FailIs
  <1>2. /\ kind' \in Kinds \cup {"none"} /\ pos' \in 1..7 /\ PosInv'
        /\ entry' \in {"none", "policy", "running", "password"}
        /\ outcome' \in [Devices -> {"none", "enrolled", "revoked", "failed"}]
        /\ mem' \in {mem, prevReg}
        /\ ~At("enroll", 1)' /\ (kind' \in {"enroll", "undo"} => kind \in {"enroll", "undo"})
        /\ kind' = "undo" \/ (kind' = "enroll" /\ pos' > 1) => kind = "undo" \/ (kind = "enroll" /\ pos > 1)
    <2>1. CASE /\ kind = "enroll" /\ pos \in 3..6
               /\ kind' = "undo" /\ pos' = 1 /\ mem' = prevReg /\ entry' = entry /\ outcome' = outcome
      BY <1>0, <2>1, KindsAre, LengthsAre DEF PosInv, At, RegistrarTypeOK
    <2>2. CASE /\ kind = "undo" /\ pos \in 1..3
               /\ kind' = "undo" /\ pos' = 4 /\ mem' = mem /\ entry' = entry /\ outcome' = outcome
      BY <1>0, <2>2, KindsAre, LengthsAre DEF PosInv, At, RegistrarTypeOK
    <2>3. CASE /\ (kind = "undo" /\ pos \in 4..5) \/ At("enroll", 7)
               /\ Advance /\ mem' = mem
      <3>1. /\ kind' \in Kinds \cup {"none"} /\ pos' \in 1..7 /\ PosInv'
            /\ entry' \in {"none", "policy", "running", "password"}
            /\ outcome' \in [Devices -> {"none", "enrolled", "revoked", "failed"}]
            /\ kind' \in {"enroll", "undo"} => kind' = kind /\ pos' = pos + 1
        BY <1>0, <1>1, <2>3, AdvanceTyped
      <3> QED
        BY <2>3, <3>1 DEF At
    <2>4. CASE /\ (kind = "enroll" /\ pos \in 1..2) \/ kind \in {"revoke", "legacy", "policy"}
               /\ kind' = "none" /\ pos' = 1 /\ mem' = mem
               /\ entry' = IF kind = "policy" THEN AfterPolicy ELSE entry
               /\ outcome' = IF kind = "enroll" THEN [outcome EXCEPT ![dev] = "failed"] ELSE outcome
      <3>1. entry' \in {"none", "policy", "running", "password"}
        BY <1>0, <2>4 DEF AfterPolicy, PolicyDone, RegistrarTypeOK
      <3>2. outcome' \in [Devices -> {"none", "enrolled", "revoked", "failed"}]
        BY <1>0, <2>4 DEF RegistrarTypeOK
      <3> QED
        BY <2>4, <3>1, <3>2 DEF PosInv, At
    <2> QED
      BY <1>0, <2>1, <2>2, <2>3, <2>4, FailIs
  <1>3. live' \in Access
    <2>1. NoAccess \in Access
      BY DEF Access, NoAccess
    <2> QED
      BY <1>0, <1>1, <2>1 DEF RegistrarTypeOK
  <1>4. registrarBudget' \in [RegistrarMishaps -> Nat]
    BY <1>0, <1>1 DEF RegistrarTypeOK, RegistrarMishaps
  <1>5. RegistrarTypeOK'
    BY <1>0, <1>1, <1>2, <1>3, <1>4 DEF RegistrarTypeOK, args
  <1>6. KeyedInv'
    BY <1>0, <1>1, <1>2 DEF KeyedInv, Keyed, args
  <1>7. CountInv'
    BY <1>0, <1>1, <1>2 DEF CountInv, At, args
  <1> QED
    BY <1>2, <1>5, <1>6, <1>7 DEF RegistrarTypeInv

\* The steps of the others.
LEMMA SpendTyped ==
    ASSUME RegistrarTypeOK, NEW m \in RegistrarMishaps, SpendRegistrar(m)
    PROVE  registrarBudget' \in [RegistrarMishaps -> Nat] /\ home' \in Homes
  BY DEF SpendRegistrar, RegistrarTypeOK

LEMMA OthersType ==
    ASSUME RegistrarTypeInv,
           \/ CreateCode \/ (\E d \in Devices, k \in Keys : ConsumeCode(d, k))
           \/ WritePassword \/ StartWithPassword \/ Reload \/ HomeAssistantDies
    PROVE  RegistrarTypeInv'
  <1>0. RegistrarTypeOK /\ PosInv /\ KeyedInv /\ CountInv
    BY DEF RegistrarTypeInv
  <1>1. CASE CreateCode
    <2>1. codes' = 1 /\ UNCHANGED <<stores, op, nextUser, waiting, entry, writer, outcome, trouble>>
      BY <1>1 DEF CreateCode
    <2> QED
      BY <1>0, <2>1 DEF RegistrarTypeInv, RegistrarTypeOK, PosInv, KeyedInv, Keyed, CountInv, At, stores, op, args, trouble
  <1>2. ASSUME NEW d \in Devices, NEW k \in Keys, ConsumeCode(d, k)
        PROVE  RegistrarTypeInv'
    <2>1. /\ codes > 0 /\ kind = "none" /\ nextUser + Cardinality(waiting) <= MaxUser /\ codes' = codes - 1
          /\ waiting' \in {waiting, waiting \cup {<<d, k>>}}
          /\ UNCHANGED <<stores, op, nextUser, entry, writer, outcome, trouble>>
      BY <1>2 DEF ConsumeCode
    <2>2. /\ IsFiniteSet(waiting') /\ Cardinality(waiting) \in Nat
          /\ Cardinality(waiting') = Cardinality(waiting) \/ Cardinality(waiting') = Cardinality(waiting) + 1
      <3>1. IsFiniteSet(waiting) /\ Cardinality(waiting) \in Nat
        BY <1>0, FS_CardinalityType DEF CountInv
      <3>2. CASE waiting' = waiting
        BY <3>1, <3>2
      <3>3. CASE waiting' = waiting \cup {<<d, k>>}
        BY <3>1, <3>3, FS_AddElement
      <3> QED
        BY <2>1, <3>1, <3>2, <3>3
    <2>3. nextUser + Cardinality(waiting') <= MaxUser + 1
      BY <1>0, <2>1, <2>2, RegistrarAssumption DEF RegistrarTypeOK
    <2>4. RegistrarTypeOK' /\ PosInv' /\ KeyedInv'
      BY <1>0, <2>1 DEF RegistrarTypeOK, PosInv, KeyedInv, Keyed, stores, op, args, trouble
    <2>5. CountInv'
      BY <1>0, <2>1, <2>2, <2>3 DEF CountInv, At, op, args
    <2> QED
      BY <2>4, <2>5 DEF RegistrarTypeInv
  <1>3. CASE WritePassword
    <2>1. /\ conf' = [keys |-> {}, password |-> TRUE] /\ writer' = "start" /\ entry' \in {entry, "none"}
          /\ UNCHANGED <<registry, trust, users, live, op, nextUser, codes, waiting, outcome>>
      BY <1>3 DEF WritePassword
    <2>2. registrarBudget' \in [RegistrarMishaps -> Nat] /\ home' \in Homes
      BY <1>0, <1>3, SpendTyped DEF WritePassword, RegistrarMishaps, RegistrarTypeOK, trouble
    <2>3. conf' \in Access
      BY <2>1 DEF Access
    <2>4. RegistrarTypeOK' /\ PosInv' /\ KeyedInv'
      BY <1>0, <2>1, <2>2, <2>3 DEF RegistrarTypeOK, PosInv, KeyedInv, Keyed, op, args
    <2>5. CountInv'
      BY <1>0, <2>1 DEF CountInv, At, op, args
    <2> QED
      BY <2>4, <2>5 DEF RegistrarTypeInv
  <1>4. CASE StartWithPassword
    <2>1. /\ writer' = "none" /\ live' = conf
          /\ UNCHANGED <<registry, trust, users, conf, op, nextUser, codes, waiting, entry, outcome, trouble>>
      BY <1>4 DEF StartWithPassword
    <2> QED
      BY <1>0, <2>1 DEF RegistrarTypeInv, RegistrarTypeOK, PosInv, KeyedInv, Keyed, CountInv, At, op, args, trouble
  <1>5. CASE Reload
    <2>1. entry' = "policy" /\ UNCHANGED <<stores, op, nextUser, codes, waiting, writer, outcome>>
      BY <1>5 DEF Reload
    <2>2. registrarBudget' \in [RegistrarMishaps -> Nat] /\ home' \in Homes
      BY <1>0, <1>5, SpendTyped DEF Reload, RegistrarMishaps
    <2> QED
      BY <1>0, <2>1, <2>2 DEF RegistrarTypeInv, RegistrarTypeOK, PosInv, KeyedInv, Keyed, CountInv, At, stores, op, args
  <1>6. CASE HomeAssistantDies
    <2>1. /\ kind' = "none" /\ pos' = 1 /\ waiting' = {} /\ writer' = "none" /\ entry' = "policy"
          /\ UNCHANGED <<stores, args, mem, nextUser, codes, outcome>>
      BY <1>6 DEF HomeAssistantDies
    <2>2. registrarBudget' \in [RegistrarMishaps -> Nat] /\ home' \in Homes
      BY <1>0, <1>6, SpendTyped DEF HomeAssistantDies, RegistrarMishaps
    <2>3. RegistrarTypeOK' /\ PosInv' /\ KeyedInv'
      BY <1>0, <2>1, <2>2 DEF RegistrarTypeOK, PosInv, KeyedInv, Keyed, stores, args
    <2>4. CountInv'
      BY <1>0, <2>1, FS_EmptySet, RegistrarAssumption DEF CountInv, At, RegistrarTypeOK
    <2> QED
      BY <2>3, <2>4 DEF RegistrarTypeInv
  <1> QED
    BY <1>1, <1>2, <1>3, <1>4, <1>5, <1>6

LEMMA StartsType ==
    ASSUME RegistrarTypeInv,
           \/ \E d \in Devices, k \in Keys : Enroll(d, k)
           \/ \E d \in Devices : Commission(d) \/ Revoke(d)
           \/ RevokeLegacy \/ Policy
    PROVE  RegistrarTypeInv'
  <1>0. RegistrarTypeOK /\ PosInv /\ KeyedInv /\ CountInv
    BY DEF RegistrarTypeInv
  <1>1. ASSUME NEW d \in Devices, NEW k \in Keys, Enroll(d, k)
        PROVE  RegistrarTypeInv'
    <2>1. UNCHANGED <<stores, nextUser, codes, entry, writer, trouble>> /\ waiting' = waiting \ {<<d, k>>} /\ kind = "none"
      BY <1>1 DEF Enroll
    <2>2. CASE registry.pc[d].status = "active" /\ registry.pc[d].key # k
      <3>1. UNCHANGED <<op, outcome>>
        BY <1>1, <2>2 DEF Enroll
      <3>2. /\ IsFiniteSet(waiting') /\ Cardinality(waiting) \in Nat /\ Cardinality(waiting') \in Nat
            /\ Cardinality(waiting') = Cardinality(waiting) \/ Cardinality(waiting') = Cardinality(waiting) - 1
        BY <1>0, <2>1, FS_RemoveElement, FS_CardinalityType DEF CountInv
      <3>3. nextUser + Cardinality(waiting') <= MaxUser + 1
        BY <1>0, <3>2, RegistrarAssumption DEF CountInv, RegistrarTypeOK
      <3>4. RegistrarTypeOK' /\ PosInv' /\ KeyedInv'
        BY <1>0, <2>1, <3>1 DEF RegistrarTypeOK, PosInv, KeyedInv, Keyed, stores, op, args, trouble
      <3>5. CountInv'
        BY <2>1, <3>1, <3>2, <3>3 DEF CountInv, At, op, args
      <3> QED
        BY <3>4, <3>5 DEF RegistrarTypeInv
    <2>3. CASE ~(registry.pc[d].status = "active" /\ registry.pc[d].key # k)
      <3>1. /\ kind = "none" /\ kind' = "enroll" /\ pos' = 1 /\ dev' = d /\ key' = k
            /\ prevReg' = registry /\ prevTrust' = trust /\ newUser' = nextUser
            /\ nextUser \in 1..MaxUser /\ nextUser + Cardinality(waiting') <= MaxUser
            /\ IsFiniteSet(waiting') /\ waiting' \subseteq waiting
            /\ oldUser' \in {0, registry.pc[d].user} /\ outcome' = [outcome EXCEPT ![d] = "none"]
            /\ mem' \in Registries
            /\ AsEnrolled(mem, registry)'
        BY <1>1, <2>3, EnrollIs
      <3>2. oldUser' \in 0..MaxUser
        BY <1>0, <3>1, Fieldwise, RegistrarAssumption DEF RegistrarTypeOK
      <3>3. outcome' \in [Devices -> {"none", "enrolled", "revoked", "failed"}]
        BY <1>0, <3>1 DEF RegistrarTypeOK
      <3>4. RegistrarTypeOK'
        BY <1>0, <2>1, <3>1, <3>2, <3>3, KindsAre, RegistrarAssumption DEF RegistrarTypeOK, stores, trouble
      <3>5. PosInv'
        BY <3>1, LengthsAre DEF PosInv
      <3>6. Keyed(mem)' /\ registry' = registry
        BY <1>0, <2>1, <3>1 DEF KeyedInv, Keyed, AsEnrolled, stores
      <3>7. KeyedInv'
        BY <1>0, <3>1, <3>6 DEF KeyedInv, Keyed
      <3>8. CountInv'
        <4>1. nextUser' = nextUser /\ nextUser \in Nat
          BY <1>0, <2>1 DEF RegistrarTypeOK
        <4>2. Cardinality(waiting') \in Nat
          BY <3>1, FS_CardinalityType
        <4> QED
          BY <3>1, <4>1, <4>2, RegistrarAssumption DEF CountInv, At
      <3> QED
        BY <3>4, <3>5, <3>7, <3>8 DEF RegistrarTypeInv
    <2> QED
      BY <2>2, <2>3
  <1>2. ASSUME NEW d \in Devices, Commission(d)
        PROVE  RegistrarTypeInv'
    <2>1. /\ kind = "none" /\ registry' \in Registries /\ registry'.legacy = registry.legacy
          /\ \A e \in Devices : /\ registry'.pc[e].status = registry.pc[e].status
                                /\ registry'.pc[e].key = registry.pc[e].key
                                /\ registry'.pc[e].user = registry.pc[e].user
          /\ UNCHANGED <<trust, users, conf, live, op, meanwhile, outcome, trouble>>
      BY <1>2, CommissionIs
    <2>2. RegistrarTypeOK' /\ PosInv'
      BY <1>0, <2>1 DEF RegistrarTypeOK, PosInv, op, args, meanwhile, trouble
    <2>3. KeyedInv'
      BY <1>0, <2>1 DEF KeyedInv, Keyed, op, args
    <2>4. CountInv'
      BY <1>0, <2>1 DEF CountInv, At, op, args, meanwhile
    <2> QED
      BY <2>2, <2>3, <2>4 DEF RegistrarTypeInv
  <1>3. ASSUME NEW d \in Devices, Revoke(d)
        PROVE  RegistrarTypeInv'
    <2>1. /\ kind = "none" /\ kind' = "revoke" /\ pos' = 1 /\ dev' = d
          /\ outcome' = [outcome EXCEPT ![d] = "none"]
          /\ mem' \in Registries /\ AsRevoked(mem, registry)'
      BY <1>3, RevokeIs
    <2>2. UNCHANGED <<stores, key, prevReg, prevTrust, newUser, oldUser, meanwhile, trouble>>
      BY <1>3 DEF Revoke
    <2>3. outcome' \in [Devices -> {"none", "enrolled", "revoked", "failed"}]
      BY <1>0, <2>1 DEF RegistrarTypeOK
    <2>4. RegistrarTypeOK'
      BY <1>0, <2>1, <2>2, <2>3, KindsAre DEF RegistrarTypeOK, stores, meanwhile, trouble
    <2>5. PosInv'
      BY <2>1, LengthsAre DEF PosInv
    <2>6. KeyedInv'
      BY <1>0, <2>1, <2>2 DEF KeyedInv, Keyed, AsRevoked, stores
    <2>7. CountInv'
      BY <1>0, <2>1, <2>2 DEF CountInv, At, meanwhile
    <2> QED
      BY <2>4, <2>5, <2>6, <2>7 DEF RegistrarTypeInv
  <1>4. CASE RevokeLegacy
    <2>1. /\ kind = "none" /\ kind' = "legacy" /\ pos' = 1 /\ dev' = dev
          /\ mem' \in Registries /\ mem'.pc = registry.pc /\ mem'.legacy = {}
      BY <1>4, RevokeLegacyIs
    <2>2. UNCHANGED <<stores, key, prevReg, prevTrust, newUser, oldUser, meanwhile, outcome, trouble>>
      BY <1>4 DEF RevokeLegacy
    <2>3. RegistrarTypeOK' /\ PosInv'
      BY <1>0, <2>1, <2>2, KindsAre, LengthsAre DEF RegistrarTypeOK, PosInv, stores, meanwhile, trouble
    <2>4. KeyedInv'
      BY <1>0, <2>1, <2>2 DEF KeyedInv, Keyed, stores
    <2>5. CountInv'
      BY <1>0, <2>1, <2>2 DEF CountInv, At, meanwhile
    <2> QED
      BY <2>3, <2>4, <2>5 DEF RegistrarTypeInv
  <1>5. CASE Policy
    <2>1. /\ kind = "none" /\ kind' = "policy" /\ pos' = 1 /\ dev' = dev /\ mem' = registry /\ entry' = "running"
          /\ UNCHANGED <<stores, key, prevReg, prevTrust, newUser, oldUser, nextUser, codes, waiting, writer, outcome, trouble>>
      BY <1>5 DEF Policy, Start
    <2>2. RegistrarTypeOK' /\ PosInv'
      BY <1>0, <2>1, KindsAre, LengthsAre DEF RegistrarTypeOK, PosInv, stores, trouble
    <2>3. KeyedInv'
      BY <1>0, <2>1 DEF KeyedInv, Keyed, stores
    <2>4. CountInv'
      BY <1>0, <2>1 DEF CountInv, At
    <2> QED
      BY <2>2, <2>3, <2>4 DEF RegistrarTypeInv
  <1> QED
    BY <1>1, <1>2, <1>3, <1>4, <1>5

LEMMA RegistrarInitTyped == RegistrarInit => RegistrarTypeInv
  <1> SUFFICES ASSUME RegistrarInit
               PROVE  RegistrarTypeInv
    OBVIOUS
  <1>1. /\ home \in Homes /\ registrarBudget = home.times
        /\ trust = [p \in PubIds \cup {"role"} |-> IF p = "role" THEN LegacyKey ELSE "none"]
        /\ users = {} /\ nextUser = 1 /\ codes = 0 /\ waiting = {}
        /\ kind = "none" /\ pos = 1 /\ dev \in Devices /\ key = "none"
        /\ mem = registry /\ prevReg = registry /\ prevTrust = trust /\ newUser = 0 /\ oldUser = 0
        /\ entry = "policy" /\ writer = "none"
        /\ outcome = [d \in Devices |-> "none"]
    BY DEF RegistrarInit
  <1>2. PICK legacy \in SUBSET {LegacyKey} :
          /\ registry = [pc |-> [d \in Devices |-> NoRecord], legacy |-> legacy]
          /\ conf = [keys |-> legacy, password |-> HasPassword /\ legacy = {}]
          /\ live = conf
    BY DEF RegistrarInit
  <1>3. home \in [password : BOOLEAN, times : [RegistrarMishaps -> Nat]]
    BY <1>1, RegistrarAssumption
  <1>4. NoRecord \in Records
    BY RegistrarAssumption DEF NoRecord, Records
  <1>5. registry \in Registries
    BY <1>2, <1>4 DEF Registries
  <1>6. trust \in Trust
    BY <1>1 DEF Trust
  <1>7. conf \in Access
    <2>1. (HasPassword /\ legacy = {}) \in BOOLEAN
      BY <1>3 DEF HasPassword
    <2> QED
      BY <1>2, <2>1 DEF Access
  <1>8. RegistrarTypeOK
    BY <1>1, <1>2, <1>3, <1>5, <1>6, <1>7, RegistrarAssumption DEF RegistrarTypeOK
  <1>9. Keyed(registry)
    BY <1>2 DEF Keyed, NoRecord
  <1>10. CountInv
    BY <1>1, FS_EmptySet, RegistrarAssumption DEF CountInv, At
  <1> QED
    BY <1>1, <1>8, <1>9, <1>10 DEF RegistrarTypeInv, KeyedInv, PosInv

LEMMA RegistrarNextTyped == RegistrarTypeInv /\ [RegistrarNext]_registrarVars => RegistrarTypeInv'
  <1>1. RegistrarTypeInv /\ RegistrarNext => RegistrarTypeInv'
    BY HoldingType, FailType, OthersType, StartsType DEF RegistrarNext, Operation, Holding
  <1>2. RegistrarTypeInv /\ UNCHANGED registrarVars => RegistrarTypeInv'
    BY DEF RegistrarTypeInv, RegistrarTypeOK, PosInv, KeyedInv, Keyed, CountInv, At, registrarVars, stores, op, args, meanwhile, trouble
  <1> QED
    BY <1>1, <1>2

THEOREM RegistrarTyped == RegistrarSpec => []RegistrarTypeInv
  BY RegistrarInitTyped, RegistrarNextTyped, PTL DEF RegistrarSpec

-----------------------------------------------------------------------------
(* What an operation holds in memory, and how far its stores are.          *)

EnrollMem ==
    kind = "enroll" =>
        /\ prevReg.pc[dev].status = "active" => prevReg.pc[dev].key = key
        /\ AsEnrolled(mem, prevReg)
        /\ pos <= 5 => registry = prevReg
        /\ pos > 5 => registry = mem
        /\ pos <= 6 => trust = prevTrust
        /\ pos > 6 => trust[Pub[dev]] = key
UndoMem ==
    kind = "undo" =>
        /\ prevReg.pc[dev].status = "active" => prevReg.pc[dev].key = key
        /\ mem = prevReg /\ trust = prevTrust
        /\ registry = prevReg \/ AsEnrolled(registry, prevReg)
        /\ home.times["fail"] <= 1 /\ pos > 3 => registry = prevReg
RevokeMem ==
    kind = "revoke" =>
        /\ AsRevoked(mem, registry)
        /\ pos > 1 => mem.pc[dev].user \notin users
        /\ pos > 2 => trust[Pub[dev]] = "none"
OtherMem ==
    /\ kind = "legacy" => mem.pc = registry.pc /\ mem.legacy = {} /\ (pos > 3 => registry = mem)
    /\ kind = "policy" => mem = registry
SpentInv ==
    /\ \A m \in RegistrarMishaps : registrarBudget[m] <= home.times[m]
    /\ kind = "undo" => registrarBudget["fail"] < home.times["fail"]

MemInv == EnrollMem /\ UndoMem /\ RevokeMem /\ OtherMem /\ SpentInv

LEMMA HoldingMem == RegistrarTypeInv /\ MemInv /\ Holding => MemInv'
  <1> SUFFICES ASSUME RegistrarTypeInv, MemInv, Holding
               PROVE  MemInv'
    OBVIOUS
  <1>0. RegistrarTypeOK /\ PosInv
    BY DEF RegistrarTypeInv
  <1>1. kind \in Kinds /\ Advance /\ UNCHANGED <<args, mem, codes, waiting, writer, trouble>>
    BY <1>0, HoldingIs
  <1>2. kind' = "none" \/ (kind' = kind /\ pos' = pos + 1 /\ ~Ended)
    BY <1>0, <1>1, Advances
  <1>3. /\ kind = "enroll" => pos \in 1..7
        /\ kind \in {"undo", "revoke"} => pos \in 1..5
        /\ kind = "legacy" => pos \in 1..4
        /\ kind = "policy" => pos \in 1..3
    BY <1>0, <1>1, PosIs
  <1>4. EnrollMem /\ UndoMem /\ RevokeMem /\ OtherMem /\ SpentInv
    BY DEF MemInv
  <1>5. dev' = dev /\ key' = key /\ prevReg' = prevReg /\ prevTrust' = prevTrust /\ newUser' = newUser
        /\ mem' = mem /\ home' = home /\ registrarBudget' = registrarBudget
    BY <1>1 DEF args, trouble
  <1>6. /\ registry' # registry => Step = "save" /\ registry' = mem
        /\ trust' # trust => Step \in {"trust", "drop_pub", "drop_role", "trust_back"}
        /\ Step = "save" => registry' = mem
    BY <1>0, StepIs DEF Holding, CreateUser, CreateToken, SyncKeys, StartApp, Save, ChangeTrust, DropUser, Retire, stores, RegistrarTypeOK
  <1>7. CASE kind' = "none"
    <2>1. SpentInv'
      BY <1>4, <1>5, <1>7 DEF SpentInv
    <2> QED
      BY <1>7, <2>1 DEF MemInv, EnrollMem, UndoMem, RevokeMem, OtherMem
  <1>8. CASE kind' = kind /\ pos' = pos + 1 /\ ~Ended
    <2>1. EnrollMem'
      <3> SUFFICES ASSUME kind = "enroll"
                   PROVE  EnrollMem'
        BY <1>8 DEF EnrollMem
      <3>1. pos \in 1..6
        BY <1>3, <1>8 DEF Ended, At
      <3>2. AsEnrolled(mem, prevReg)' /\ (prevReg.pc[dev].status = "active" => prevReg.pc[dev].key = key)'
        BY <1>4, <1>5 DEF EnrollMem, AsEnrolled
      <3>3. (pos' <= 5 => registry' = prevReg) /\ (pos' > 5 => registry' = mem)
        <4>1. Step = "save" <=> pos = 5
          BY <1>0, StepIs DEF At, RegistrarTypeOK
        <4> QED
          BY <1>4, <1>6, <1>8, <3>1, <4>1 DEF EnrollMem
      <3>4. pos' <= 6 => trust' = prevTrust
        <4>1. Step \in {"trust", "drop_pub", "drop_role", "trust_back"} => pos = 6
          BY <1>0, StepIs DEF At, RegistrarTypeOK
        <4> QED
          BY <1>4, <1>6, <1>8, <3>1, <4>1 DEF EnrollMem
      <3>5. pos' > 6 => trust'[Pub[dev]] = key
        <4> SUFFICES ASSUME pos = 6
                     PROVE  trust'[Pub[dev]] = key
          BY <1>8, <3>1
        <4>1. Step = "trust"
          BY <1>0, StepIs DEF At, RegistrarTypeOK
        <4>2. trust' = [trust EXCEPT ![Pub[dev]] = key]
          BY <4>1 DEF Holding, CreateUser, CreateToken, SyncKeys, StartApp, Save, ChangeTrust, DropUser, Retire
        <4>3. Pub[dev] \in PubIds
          BY <1>0, RegistrarAssumption DEF RegistrarTypeOK
        <4> QED
          BY <1>0, <4>2, <4>3 DEF RegistrarTypeOK, Trust
      <3> QED
        BY <1>5, <3>2, <3>3, <3>4, <3>5 DEF EnrollMem
    <2>2. UndoMem'
      <3> SUFFICES ASSUME kind = "undo"
                   PROVE  UndoMem'
        BY <1>8 DEF UndoMem
      <3>1. pos \in 1..4
        BY <1>3, <1>8 DEF Ended, At
      <3>2. (Step = "save" <=> pos = 3) /\ Step \notin {"trust", "drop_pub", "drop_role"}
        BY <1>0, StepIs DEF At, RegistrarTypeOK
      <3>3. trust' = prevTrust
        <4>1. CASE Step = "trust_back"
          BY <1>4, <4>1 DEF Holding, CreateUser, CreateToken, SyncKeys, StartApp, Save, ChangeTrust, DropUser, Retire, UndoMem, stores
        <4>2. CASE Step # "trust_back"
          BY <1>4, <1>6, <3>2, <4>2 DEF UndoMem
        <4> QED
          BY <4>1, <4>2
      <3>4. registry' = prevReg \/ AsEnrolled(registry, prevReg)'
        BY <1>4, <1>5, <1>6 DEF UndoMem, AsEnrolled
      <3>5. home.times["fail"] <= 1 /\ pos' > 3 => registry' = prevReg
        BY <1>4, <1>6, <1>8, <3>1, <3>2 DEF UndoMem
      <3> QED
        BY <1>4, <1>5, <3>3, <3>4, <3>5 DEF UndoMem
    <2>3. RevokeMem'
      <3> SUFFICES ASSUME kind = "revoke"
                   PROVE  RevokeMem'
        BY <1>8 DEF RevokeMem
      <3>1. pos \in 1..4
        BY <1>3, <1>8 DEF Ended, At
      <3>2. /\ Step = "drop_user" <=> pos = 1
            /\ Step = "drop_pub" <=> pos = 2
            /\ Step \notin {"save", "user", "token", "retire", "drop_new", "trust", "drop_role", "trust_back"}
        BY <1>0, <3>1, StepIs DEF At, RegistrarTypeOK
      <3>3. AsRevoked(mem, registry)'
        BY <1>4, <1>5, <1>6, <3>2 DEF RevokeMem, AsRevoked
      <3>4. users' = IF pos = 1 THEN users \ {mem.pc[dev].user} ELSE users
        BY <3>2 DEF Holding, CreateUser, CreateToken, SyncKeys, StartApp, Save, ChangeTrust, DropUser, Retire, stores
      <3>5. pos = 2 => trust' = [trust EXCEPT ![Pub[dev]] = "none"]
        BY <3>2 DEF Holding, CreateUser, CreateToken, SyncKeys, StartApp, Save, ChangeTrust, DropUser, Retire, stores
      <3>6. pos # 2 => trust' = trust
        BY <1>6, <3>2
      <3>7. Pub[dev] \in PubIds
        BY <1>0, RegistrarAssumption DEF RegistrarTypeOK
      <3>8. pos' > 2 => trust'[Pub[dev]] = "none"
        BY <1>0, <1>4, <1>8, <3>1, <3>5, <3>6, <3>7 DEF RevokeMem, RegistrarTypeOK, Trust
      <3>9. pos' > 1 => mem.pc[dev].user \notin users'
        BY <1>4, <1>8, <3>1, <3>4 DEF RevokeMem
      <3> QED
        BY <1>5, <3>3, <3>8, <3>9 DEF RevokeMem
    <2>4. OtherMem'
      <3>1. kind = "legacy" => (Step = "save" <=> pos = 3) /\ pos \in 1..4
        BY <1>0, <1>3, StepIs DEF At, RegistrarTypeOK
      <3> QED
        BY <1>4, <1>5, <1>6, <1>8, <3>1 DEF OtherMem
    <2>5. SpentInv'
      BY <1>4, <1>5, <1>8 DEF SpentInv
    <2> QED
      BY <2>1, <2>2, <2>3, <2>4, <2>5 DEF MemInv
  <1> QED
    BY <1>2, <1>7, <1>8

LEMMA SpendSpent ==
    ASSUME RegistrarTypeOK, SpentInv, NEW m \in RegistrarMishaps, SpendRegistrar(m)
    PROVE  /\ \A n \in RegistrarMishaps : registrarBudget'[n] <= registrarBudget[n]
           /\ \A n \in RegistrarMishaps : registrarBudget'[n] <= home'.times[n]
           /\ home' = home /\ home.times[m] > 0 /\ registrarBudget'[m] < home.times[m]
  <1>1. home.times \in [RegistrarMishaps -> Nat]
    BY RegistrarAssumption DEF RegistrarTypeOK
  <1> QED
    BY <1>1 DEF RegistrarTypeOK, SpentInv, SpendRegistrar

LEMMA FailMem == RegistrarTypeInv /\ MemInv /\ Fail => MemInv'
  <1> SUFFICES ASSUME RegistrarTypeInv, MemInv, Fail
               PROVE  MemInv'
    OBVIOUS
  <1>0. RegistrarTypeOK /\ PosInv /\ EnrollMem /\ UndoMem /\ SpentInv
    BY DEF RegistrarTypeInv, MemInv
  <1>1. /\ kind \in Kinds /\ UNCHANGED <<registry, trust, users, conf, args, nextUser, codes, waiting, writer>>
        /\ registrarBudget["fail"] > 0
    BY <1>0, FailIs
  <1>2. /\ \A n \in RegistrarMishaps : registrarBudget'[n] <= home'.times[n]
        /\ home' = home /\ registrarBudget'["fail"] < home.times["fail"]
    BY <1>0, SpendSpent DEF Fail, RegistrarMishaps
  <1>3. kind' \in {"undo", "none"}
    <2>1. (kind = "undo" /\ pos \in 4..5) \/ At("enroll", 7) => (Advance => kind' \in {"undo", "none"})
      BY <1>0, <1>1, Advances DEF At, Ended
    <2> QED
      BY <1>0, <2>1, FailIs
  <1>4. UndoMem'
    <2>1. CASE /\ kind = "enroll" /\ pos \in 3..6
               /\ kind' = "undo" /\ pos' = 1 /\ mem' = prevReg /\ entry' = entry /\ outcome' = outcome
      <3>1. registry = prevReg \/ AsEnrolled(registry, prevReg)
        BY <1>0, <2>1 DEF EnrollMem
      <3> QED
        BY <1>0, <1>1, <2>1, <3>1 DEF EnrollMem, UndoMem, AsEnrolled, args
    <2>2. ASSUME kind = "undo" PROVE UndoMem'
      <3>1. ~(home.times["fail"] <= 1)
        BY <1>0, <1>1, <2>2, RegistrarAssumption DEF SpentInv, RegistrarTypeOK, RegistrarMishaps
      <3>2. mem' = mem
        BY <1>0, <2>2, FailIs DEF At
      <3> QED
        BY <1>0, <1>1, <1>2, <2>2, <3>1, <3>2 DEF UndoMem, AsEnrolled, args
    <2>3. CASE kind # "undo" /\ kind' = "none"
      BY <2>3 DEF UndoMem
    <2>4. At("enroll", 7) => (Advance => kind' = "none")
      BY <1>0, <1>1, Advances DEF Ended
    <2> QED
      BY <1>0, <2>1, <2>2, <2>3, <2>4, FailIs
  <1> QED
    BY <1>2, <1>3, <1>4 DEF MemInv, EnrollMem, RevokeMem, OtherMem, SpentInv

LEMMA OthersMem ==
    ASSUME RegistrarTypeInv, MemInv,
           \/ CreateCode \/ (\E d \in Devices, k \in Keys : ConsumeCode(d, k))
           \/ WritePassword \/ StartWithPassword \/ Reload \/ HomeAssistantDies
    PROVE  MemInv'
  <1>0. RegistrarTypeOK /\ EnrollMem /\ UndoMem /\ RevokeMem /\ OtherMem /\ SpentInv
    BY DEF RegistrarTypeInv, MemInv
  <1>1. home' = home /\ \A n \in RegistrarMishaps : registrarBudget'[n] <= registrarBudget[n] /\ registrarBudget'[n] <= home.times[n]
    <2>1. CASE trouble' = trouble
      BY <1>0, <2>1, RegistrarAssumption DEF trouble, SpentInv, RegistrarTypeOK
    <2>2. ASSUME NEW m \in RegistrarMishaps, SpendRegistrar(m)
          PROVE  home' = home /\ \A n \in RegistrarMishaps : registrarBudget'[n] <= registrarBudget[n] /\ registrarBudget'[n] <= home.times[n]
      BY <1>0, <2>2, SpendSpent
    <2> QED
      BY <2>1, <2>2 DEF CreateCode, ConsumeCode, WritePassword, StartWithPassword, Reload, HomeAssistantDies, RegistrarMishaps
  <1>2. CASE HomeAssistantDies
    <2>1. kind' = "none"
      BY <1>2 DEF HomeAssistantDies
    <2> QED
      BY <1>1, <2>1 DEF MemInv, EnrollMem, UndoMem, RevokeMem, OtherMem, SpentInv
  <1>3. CASE ~HomeAssistantDies
    <2>1. UNCHANGED <<registry, trust, users, op>>
      BY <1>3 DEF CreateCode, ConsumeCode, WritePassword, StartWithPassword, Reload, stores
    <2>2. SpentInv'
      <3>1. registrarBudget["fail"] \in Nat /\ registrarBudget'["fail"] \in Nat /\ home.times["fail"] \in Nat
        BY <1>0, OthersType, RegistrarAssumption DEF RegistrarTypeInv, RegistrarTypeOK, RegistrarMishaps
      <3>2. registrarBudget'["fail"] <= registrarBudget["fail"] /\ kind' = kind
        BY <1>1, <2>1 DEF RegistrarMishaps, op
      <3>3. kind' = "undo" => registrarBudget'["fail"] < home.times["fail"]
        BY <1>0, <3>1, <3>2 DEF SpentInv
      <3> QED
        BY <1>1, <3>3 DEF SpentInv
    <2> QED
      BY <1>0, <1>1, <2>1, <2>2 DEF MemInv, EnrollMem, UndoMem, RevokeMem, OtherMem, AsEnrolled, AsRevoked, op, args
  <1> QED
    BY <1>2, <1>3

LEMMA StartsMem ==
    ASSUME RegistrarTypeInv, MemInv,
           \/ \E d \in Devices, k \in Keys : Enroll(d, k)
           \/ \E d \in Devices : Commission(d) \/ Revoke(d)
           \/ RevokeLegacy \/ Policy
    PROVE  MemInv'
  <1>0. RegistrarTypeOK /\ EnrollMem /\ UndoMem /\ RevokeMem /\ OtherMem /\ SpentInv /\ kind = "none"
    BY DEF RegistrarTypeInv, MemInv, Enroll, Commission, Revoke, RevokeLegacy, Policy, Start
  <1>1. UNCHANGED trouble /\ kind' # "undo"
    BY <1>0 DEF Enroll, Commission, Revoke, RevokeLegacy, Policy, Start, op
  <1>2. SpentInv'
    BY <1>0, <1>1 DEF SpentInv, trouble
  <1>3. ASSUME NEW d \in Devices, NEW k \in Keys, Enroll(d, k)
        PROVE  MemInv'
    <2>1. UNCHANGED stores
      BY <1>3 DEF Enroll
    <2>2. CASE registry.pc[d].status = "active" /\ registry.pc[d].key # k
      <3>1. kind' = "none"
        BY <1>0, <1>3, <2>2 DEF Enroll, op
      <3> QED
        BY <1>2, <3>1 DEF MemInv, EnrollMem, UndoMem, RevokeMem, OtherMem
    <2>3. CASE ~(registry.pc[d].status = "active" /\ registry.pc[d].key # k)
      <3>1. /\ kind' = "enroll" /\ pos' = 1 /\ dev' = d /\ key' = k
            /\ prevReg' = registry /\ prevTrust' = trust /\ AsEnrolled(mem, registry)'
        BY <1>3, <2>3, EnrollIs
      <3>2. EnrollMem'
        BY <2>1, <2>3, <3>1 DEF EnrollMem, AsEnrolled, stores
      <3> QED
        BY <1>2, <3>1, <3>2 DEF MemInv, UndoMem, RevokeMem, OtherMem
    <2> QED
      BY <2>2, <2>3
  <1>4. ASSUME NEW d \in Devices, Commission(d)
        PROVE  MemInv'
    <2>1. kind' = "none"
      BY <1>0, <1>4 DEF Commission, op
    <2> QED
      BY <1>2, <2>1 DEF MemInv, EnrollMem, UndoMem, RevokeMem, OtherMem
  <1>5. ASSUME NEW d \in Devices, Revoke(d)
        PROVE  MemInv'
    <2>1. kind' = "revoke" /\ pos' = 1 /\ AsRevoked(mem, registry)'
      BY <1>5, RevokeIs
    <2> QED
      BY <1>2, <2>1 DEF MemInv, EnrollMem, UndoMem, RevokeMem, OtherMem
  <1>6. CASE RevokeLegacy
    <2>1. kind' = "legacy" /\ pos' = 1 /\ mem'.pc = registry.pc /\ mem'.legacy = {} /\ registry' = registry
      BY <1>6, RevokeLegacyIs DEF RevokeLegacy, stores
    <2> QED
      BY <1>2, <2>1 DEF MemInv, EnrollMem, UndoMem, RevokeMem, OtherMem
  <1>7. CASE Policy
    <2>1. kind' = "policy" /\ pos' = 1 /\ mem' = registry /\ registry' = registry
      BY <1>7 DEF Policy, Start, stores
    <2> QED
      BY <1>2, <2>1 DEF MemInv, EnrollMem, UndoMem, RevokeMem, OtherMem
  <1> QED
    BY <1>3, <1>4, <1>5, <1>6, <1>7

LEMMA NextMem == RegistrarTypeInv /\ MemInv /\ [RegistrarNext]_registrarVars => MemInv'
  <1>1. RegistrarTypeInv /\ MemInv /\ RegistrarNext => MemInv'
    BY HoldingMem, FailMem, OthersMem, StartsMem DEF RegistrarNext, Operation, Holding
  <1>2. MemInv /\ UNCHANGED registrarVars => MemInv'
    BY DEF MemInv, EnrollMem, UndoMem, RevokeMem, OtherMem, SpentInv, AsEnrolled, AsRevoked,
           registrarVars, stores, op, args, meanwhile, trouble
  <1> QED
    BY <1>1, <1>2

LEMMA InitMem == RegistrarInit => MemInv
  <1> SUFFICES ASSUME RegistrarInit
               PROVE  MemInv
    OBVIOUS
  <1>1. kind = "none" /\ registrarBudget = home.times /\ home \in Homes
    BY DEF RegistrarInit
  <1> QED
    BY <1>1, RegistrarAssumption DEF MemInv, EnrollMem, UndoMem, RevokeMem, OtherMem, SpentInv

-----------------------------------------------------------------------------
(* The keys of the app.                                                    *)

AfterSync ==
    \/ kind \in {"enroll", "revoke"} /\ pos > 3
    \/ kind \in {"undo", "legacy", "policy"} /\ pos > 1
AfterStart ==
    \/ kind \in {"enroll", "revoke"} /\ pos > 4
    \/ kind \in {"undo", "legacy", "policy"} /\ pos > 2

\* After Home Assistant died the app may hold any key, until the policy is through.
Loose == home.times["crash"] # 0 /\ (entry = "policy" \/ kind = "policy")
Settled == NothingFails \/ (OneFails /\ NothingDies)

SyncedInv == home.times["fail"] <= 1 /\ AfterSync => conf.keys \subseteq KnownKeys(mem)
KeysInv ==
    Settled =>
        /\ AfterStart => live.keys \subseteq KnownKeys(mem)
        /\ kind # "undo" /\ ~Loose /\ ~AfterSync =>
              conf.keys \subseteq KnownKeys(registry) /\ live.keys \subseteq KnownKeys(registry)
        /\ kind # "undo" /\ ~Loose /\ AfterSync =>
              live.keys \subseteq KnownKeys(registry) \cup KnownKeys(mem)

LEMMA KnownAre ==
    ASSUME NEW r, NEW s, r.legacy = s.legacy,
           \A d \in Devices : r.pc[d].status = s.pc[d].status /\ r.pc[d].key = s.pc[d].key
    PROVE  KnownKeys(r) = KnownKeys(s)
  BY DEF KnownKeys, ActiveKeys

\* An enrolment only adds a key, the other operations only take keys.
LEMMA KnownRelated ==
    ASSUME RegistrarTypeInv, MemInv
    PROVE  kind \in {"undo", "revoke", "legacy", "policy"} => KnownKeys(mem) \subseteq KnownKeys(registry)
  <1>0. EnrollMem /\ UndoMem /\ RevokeMem /\ OtherMem /\ RegistrarTypeOK
    BY DEF MemInv, RegistrarTypeInv
  <1>1. CASE kind = "undo"
    <2>1. CASE registry = prevReg
      BY <1>0, <1>1, <2>1 DEF UndoMem
    <2>2. CASE AsEnrolled(registry, prevReg)
      <3>1. mem = prevReg /\ (prevReg.pc[dev].status = "active" => prevReg.pc[dev].key = key)
        BY <1>0, <1>1 DEF UndoMem
      <3> QED
        BY <1>0, <2>2, <3>1 DEF AsEnrolled, KnownKeys, ActiveKeys, RegistrarTypeOK
    <2> QED
      BY <1>0, <1>1, <2>1, <2>2 DEF UndoMem
  <1>2. CASE kind = "revoke"
    BY <1>0, <1>2 DEF RevokeMem, AsRevoked, KnownKeys, ActiveKeys, RegistrarTypeOK
  <1>3. CASE kind = "legacy"
    BY <1>0, <1>3 DEF OtherMem, KnownKeys, ActiveKeys
  <1>4. CASE kind = "policy"
    BY <1>0, <1>4 DEF OtherMem
  <1> QED
    BY <1>1, <1>2, <1>3, <1>4

LEMMA HoldingKeys == RegistrarTypeInv /\ MemInv /\ SyncedInv /\ KeysInv /\ Holding => SyncedInv' /\ KeysInv'
  <1> SUFFICES ASSUME RegistrarTypeInv, MemInv, SyncedInv, KeysInv, Holding
               PROVE  SyncedInv' /\ KeysInv'
    OBVIOUS
  <1>0. RegistrarTypeOK /\ PosInv
    BY DEF RegistrarTypeInv
  <1>1. kind \in Kinds /\ Advance /\ mem' = mem /\ home' = home
    BY <1>0, HoldingIs DEF trouble
  <1>2. \/ kind' = "none" /\ Ended
        \/ kind' = kind /\ pos' = pos + 1 /\ entry' = entry /\ ~Ended
    BY <1>0, <1>1, Advances
  <1>3. /\ kind = "enroll" => pos \in 1..7
        /\ kind \in {"undo", "revoke"} => pos \in 1..5
        /\ kind = "legacy" => pos \in 1..4
        /\ kind = "policy" => pos \in 1..3
    BY <1>0, <1>1, PosIs
  <1>4. kind \in {"enroll", "undo", "revoke", "legacy", "policy"}
    BY <1>1, KindsAre
  <1>5. /\ Step = "save" => registry' = mem /\ Step # "sync" /\ Step # "start"
        /\ Step # "save" => registry' = registry
        /\ Step = "sync" => conf'.keys = KnownKeys(mem) /\ live' = live
        /\ Step # "sync" => conf' = conf
        /\ Step = "start" => live' \in {NoAccess, conf}
        /\ Step # "start" => live' = live
    BY DEF Holding, CreateUser, CreateToken, SyncKeys, StartApp, Save, ChangeTrust, DropUser, Retire, stores
  <1>6. NoAccess.keys = {}
    BY DEF NoAccess
  <1>7. CASE kind' = "none" /\ Ended
    <2>1. ~AfterSync' /\ ~AfterStart'
      BY <1>7 DEF AfterSync, AfterStart
    <2>2. AfterSync /\ AfterStart /\ Step # "sync" /\ Step # "start"
      BY <1>0, <1>7, StepIs DEF AfterSync, AfterStart, Ended, At, RegistrarTypeOK
    <2>3. home.times["fail"] <= 1 => registry' = mem
      <3>1. At("revoke", 5) \/ At("policy", 3) => Step = "save"
        BY <1>0, StepIs DEF RegistrarTypeOK
      <3>2. At("enroll", 7) \/ At("undo", 5) \/ At("legacy", 4) => Step # "save"
        BY <1>0, StepIs DEF RegistrarTypeOK, At
      <3>3. home.times["fail"] <= 1 /\ (At("enroll", 7) \/ At("undo", 5) \/ At("legacy", 4)) => registry = mem
        BY DEF At, MemInv, EnrollMem, UndoMem, OtherMem
      <3> QED
        BY <1>5, <1>7, <3>1, <3>2, <3>3 DEF Ended
    <2>4. Settled => home.times["fail"] <= 1
      BY DEF Settled, NothingFails, OneFails
    <2> QED
      BY <1>1, <1>5, <2>1, <2>2, <2>3, <2>4 DEF SyncedInv, KeysInv, Settled, NothingFails, OneFails, NothingDies
  <1>8. CASE kind' = kind /\ pos' = pos + 1 /\ entry' = entry /\ ~Ended
    <2>1. (AfterSync' <=> AfterSync \/ Step = "sync") /\ (Step = "sync" => ~AfterSync)
      BY <1>0, <1>3, <1>4, <1>8, StepIs DEF AfterSync, Ended, At, RegistrarTypeOK
    <2>2. /\ AfterStart' <=> AfterStart \/ Step = "start"
          /\ Step = "start" => AfterSync /\ ~AfterStart
          /\ Step = "save" => AfterStart
          /\ AfterStart => AfterSync
      BY <1>0, <1>3, <1>4, <1>8, StepIs DEF AfterSync, AfterStart, Ended, At, RegistrarTypeOK
    <2>3. (Loose' <=> Loose) /\ (Settled' <=> Settled)
      BY <1>1, <1>8 DEF Loose, Settled, NothingFails, OneFails, NothingDies
    <2>4. SyncedInv'
      BY <1>1, <1>5, <2>1 DEF SyncedInv
    <2>5. Settled => home.times["fail"] <= 1
      BY DEF Settled, NothingFails, OneFails
    <2>6. KnownKeys(mem)' = KnownKeys(mem)
      BY <1>1
    <2> SUFFICES ASSUME Settled
                 PROVE  /\ AfterStart' => live'.keys \subseteq KnownKeys(mem)
                        /\ kind # "undo" /\ ~Loose /\ ~AfterSync' =>
                              conf'.keys \subseteq KnownKeys(registry') /\ live'.keys \subseteq KnownKeys(registry')
                        /\ kind # "undo" /\ ~Loose /\ AfterSync' =>
                              live'.keys \subseteq KnownKeys(registry') \cup KnownKeys(mem)
      BY <1>1, <1>8, <2>3, <2>4 DEF KeysInv
    <2>7. AfterSync => conf.keys \subseteq KnownKeys(mem)
      BY <2>5 DEF SyncedInv
    <2>8. AfterStart' => live'.keys \subseteq KnownKeys(mem)
      BY <1>5, <1>6, <2>2, <2>7 DEF KeysInv
    <2>9. CASE Step = "sync"
      BY <1>5, <2>1, <2>8, <2>9 DEF KeysInv
    <2>10. CASE Step = "start"
      BY <2>1, <2>2, <2>8, <2>10
    <2>11. CASE Step = "save"
      BY <2>1, <2>2, <2>8, <2>11
    <2>12. CASE Step \notin {"sync", "start", "save"}
      BY <1>5, <2>1, <2>8, <2>12 DEF KeysInv
    <2> QED
      BY <2>9, <2>10, <2>11, <2>12
  <1> QED
    BY <1>2, <1>7, <1>8

LEMMA FailKeys == RegistrarTypeInv /\ MemInv /\ SyncedInv /\ KeysInv /\ Fail => SyncedInv' /\ KeysInv'
  <1> SUFFICES ASSUME RegistrarTypeInv, MemInv, SyncedInv, KeysInv, Fail
               PROVE  SyncedInv' /\ KeysInv'
    OBVIOUS
  <1>0. RegistrarTypeOK /\ PosInv /\ SpentInv /\ EnrollMem
    BY DEF RegistrarTypeInv, MemInv
  <1>1. /\ kind \in Kinds /\ registry' = registry /\ conf' = conf /\ home' = home /\ registrarBudget["fail"] > 0
        /\ live' \in {live, NoAccess, conf} /\ (Step # "start" => live' = live)
    BY <1>0, FailIs
  <1>2. registrarBudget["fail"] \in Nat /\ home.times["fail"] \in Nat /\ registrarBudget["fail"] <= home.times["fail"]
    BY <1>0, RegistrarAssumption DEF RegistrarTypeOK, RegistrarMishaps, SpentInv
  <1>3. home.times["fail"] <= 1 => kind # "undo"
    BY <1>0, <1>1, <1>2 DEF SpentInv
  <1>4. Settled => OneFails /\ NothingDies /\ home.times["fail"] <= 1 /\ ~Loose /\ ~Loose'
    BY <1>1, <1>2 DEF Settled, NothingFails, OneFails, NothingDies, Loose
  <1>5. home.times["fail"] <= 1 => ~AfterSync' /\ ~AfterStart'
    <2>1. At("enroll", 7) => (Advance => kind' = "none")
      BY <1>0, <1>1, Advances DEF Ended
    <2> QED
      BY <1>0, <1>3, <2>1, FailIs DEF AfterSync, AfterStart
  <1>6. SyncedInv'
    BY <1>1, <1>5 DEF SyncedInv
  <1>7. ASSUME Settled, kind' # "undo"
        PROVE  conf.keys \subseteq KnownKeys(registry) /\ live'.keys \subseteq KnownKeys(registry)
    <2>1. kind # "undo" /\ ~Loose /\ home.times["fail"] <= 1
      BY <1>3, <1>4, <1>7
    <2>2. CASE At("enroll", 7)
      <3>1. registry = mem /\ AfterSync /\ AfterStart /\ Step # "start"
        BY <1>0, <2>2, StepIs DEF At, EnrollMem, AfterSync, AfterStart, RegistrarTypeOK
      <3> QED
        BY <1>1, <1>7, <2>1, <3>1 DEF KeysInv, SyncedInv
    <2>3. CASE kind = "enroll" /\ pos \in 1..2
      <3>1. ~AfterSync /\ Step # "start"
        BY <1>0, <2>3, StepIs DEF At, AfterSync, RegistrarTypeOK
      <3> QED
        BY <1>1, <1>7, <2>1, <3>1 DEF KeysInv
    <2>4. CASE kind \in {"revoke", "legacy", "policy"}
      <3>1. KnownKeys(mem) \subseteq KnownKeys(registry)
        BY <2>4, KnownRelated
      <3>2. conf.keys \subseteq KnownKeys(registry) /\ live.keys \subseteq KnownKeys(registry)
        BY <1>7, <2>1, <3>1 DEF KeysInv, SyncedInv
      <3>3. NoAccess.keys = {}
        BY DEF NoAccess
      <3> QED
        BY <1>1, <3>2, <3>3
    <2> QED
      BY <1>0, <1>7, <2>1, <2>2, <2>3, <2>4, FailIs
  <1>8. Settled' <=> Settled
    BY <1>1 DEF Settled, NothingFails, OneFails, NothingDies
  <1> QED
    BY <1>1, <1>4, <1>5, <1>6, <1>7, <1>8 DEF KeysInv

LEMMA OthersKeys ==
    ASSUME RegistrarTypeInv, MemInv, SyncedInv, KeysInv,
           \/ CreateCode \/ (\E d \in Devices, k \in Keys : ConsumeCode(d, k))
           \/ WritePassword \/ StartWithPassword \/ Reload \/ HomeAssistantDies
    PROVE  SyncedInv' /\ KeysInv'
  <1>0. RegistrarTypeOK /\ SpentInv
    BY DEF RegistrarTypeInv, MemInv
  <1>1. home' = home
    BY DEF CreateCode, ConsumeCode, WritePassword, StartWithPassword, Reload, HomeAssistantDies, SpendRegistrar, trouble
  <1>2. (Settled' <=> Settled) /\ (Settled => home.times["fail"] <= 1)
    BY <1>1 DEF Settled, NothingFails, OneFails, NothingDies
  <1>3. CASE HomeAssistantDies
    <2>1. kind' = "none" /\ entry' = "policy"
      BY <1>3 DEF HomeAssistantDies
    <2>2. home.times["crash"] # 0
      BY <1>0, <1>3, SpendSpent DEF HomeAssistantDies, RegistrarMishaps
    <2> QED
      BY <1>1, <2>1, <2>2 DEF SyncedInv, KeysInv, AfterSync, AfterStart, Loose
  <1>4. ASSUME UNCHANGED <<registry, op, home>>, entry' = entry \/ entry = "password" \/ entry' = "policy",
               entry' = "none" => entry \in {"none", "password"},
               conf' = conf \/ conf'.keys = {}, live' = live \/ live' = conf
        PROVE  SyncedInv' /\ KeysInv'
    <2>1. registry' = registry /\ mem' = mem /\ kind' = kind /\ pos' = pos
      BY <1>4 DEF op
    <2>2. (AfterSync' <=> AfterSync) /\ (AfterStart' <=> AfterStart) /\ (AfterStart => AfterSync)
      BY <1>0, <2>1 DEF AfterSync, AfterStart, RegistrarTypeOK
    <2>3. Loose => Loose'
      BY <1>1, <1>4, <2>1 DEF Loose
    <2>4. SyncedInv'
      BY <1>1, <1>4, <2>1, <2>2 DEF SyncedInv
    <2>5. KeysInv'
      BY <1>1, <1>2, <1>4, <2>1, <2>2, <2>3 DEF KeysInv, SyncedInv
    <2> QED
      BY <2>4, <2>5
  <1>5. CASE CreateCode \/ \E d \in Devices, k \in Keys : ConsumeCode(d, k)
    BY <1>4, <1>5 DEF CreateCode, ConsumeCode, stores, trouble
  <1>6. CASE WritePassword
    <2>1. conf'.keys = {} /\ UNCHANGED <<registry, live, op>>
      BY <1>6 DEF WritePassword
    <2>2. (entry = "password" /\ entry' = "none") \/ entry' = entry
      BY <1>6 DEF WritePassword
    <2> QED
      BY <1>1, <1>4, <2>1, <2>2
  <1>7. CASE StartWithPassword
    BY <1>1, <1>4, <1>7 DEF StartWithPassword
  <1>8. CASE Reload
    BY <1>1, <1>4, <1>8 DEF Reload, stores
  <1> QED
    BY <1>3, <1>5, <1>6, <1>7, <1>8

LEMMA StartsKeys ==
    ASSUME RegistrarTypeInv, MemInv, SyncedInv, KeysInv,
           \/ \E d \in Devices, k \in Keys : Enroll(d, k)
           \/ \E d \in Devices : Commission(d) \/ Revoke(d)
           \/ RevokeLegacy \/ Policy
    PROVE  SyncedInv' /\ KeysInv'
  <1>0. RegistrarTypeOK /\ PosInv /\ kind = "none" /\ ~AfterSync
    BY DEF RegistrarTypeInv, Enroll, Commission, Revoke, RevokeLegacy, Policy, Start, AfterSync
  <1>1. conf' = conf /\ live' = live /\ home' = home
    BY DEF Enroll, Commission, Revoke, RevokeLegacy, Policy, Start, stores, trouble
  <1>2. pos' = 1 /\ kind' # "undo"
    BY <1>0 DEF Enroll, Commission, Revoke, RevokeLegacy, Policy, Start, op, PosInv
  <1>3. ~AfterSync' /\ ~AfterStart'
    BY <1>2 DEF AfterSync, AfterStart
  <1>4. KnownKeys(registry)' = KnownKeys(registry)
    <2>1. ASSUME NEW d \in Devices, Commission(d)
          PROVE  KnownKeys(registry)' = KnownKeys(registry)
      BY <2>1, CommissionIs, KnownAre
    <2>2. CASE registry' = registry
      BY <2>2
    <2> QED
      BY <2>1, <2>2 DEF Enroll, Revoke, RevokeLegacy, Policy, stores
  <1>5. Loose => Loose'
    BY <1>0, <1>1 DEF Loose, Enroll, Commission, Revoke, RevokeLegacy, Policy, Start, meanwhile
  <1>6. Settled' <=> Settled
    BY <1>1 DEF Settled, NothingFails, OneFails, NothingDies
  <1> QED
    BY <1>0, <1>1, <1>2, <1>3, <1>4, <1>5, <1>6 DEF SyncedInv, KeysInv

LEMMA NextKeys ==
    RegistrarTypeInv /\ MemInv /\ SyncedInv /\ KeysInv /\ [RegistrarNext]_registrarVars => SyncedInv' /\ KeysInv'
  <1>1. RegistrarTypeInv /\ MemInv /\ SyncedInv /\ KeysInv /\ RegistrarNext => SyncedInv' /\ KeysInv'
    BY HoldingKeys, FailKeys, OthersKeys, StartsKeys DEF RegistrarNext, Operation, Holding
  <1>2. SyncedInv /\ KeysInv /\ UNCHANGED registrarVars => SyncedInv' /\ KeysInv'
    BY DEF SyncedInv, KeysInv, AfterSync, AfterStart, Loose, Settled, NothingFails, OneFails, NothingDies,
           registrarVars, stores, op, args, meanwhile, trouble
  <1> QED
    BY <1>1, <1>2

LEMMA InitKeys == RegistrarInit => SyncedInv /\ KeysInv
  <1> SUFFICES ASSUME RegistrarInit
               PROVE  SyncedInv /\ KeysInv
    OBVIOUS
  <1>1. kind = "none" /\ conf.keys = registry.legacy /\ live = conf
    BY DEF RegistrarInit
  <1> QED
    BY <1>1 DEF SyncedInv, KeysInv, AfterSync, AfterStart, KnownKeys

\* Between operations the SFTP server lets nobody in whom the registry does not
\* list, though a call fails, or Home Assistant dies half-way, however often:
\* for any devices, keys, publisher ids and installations (OnlyKnownKeys).
THEOREM OnlyKnown == RegistrarSpec => []OnlyKnownKeys
  <1>1. RegistrarTypeInv /\ KeysInv => OnlyKnownKeys
    BY DEF RegistrarTypeInv, KeysInv, OnlyKnownKeys, Quiet, Settled, Loose, AfterSync
  <1> QED
    BY <1>1, RegistrarInitTyped, RegistrarNextTyped, InitMem, NextMem, InitKeys, NextKeys, PTL DEF RegistrarSpec

-----------------------------------------------------------------------------
(* Users, and what was reported.                                           *)

UsersInv ==
    /\ \A d \in Devices : registry.pc[d].user < nextUser
    /\ \A d, e \in Devices : registry.pc[d].user = registry.pc[e].user => d = e \/ registry.pc[d].user = 0
    /\ kind \in {"enroll", "undo"} =>
          /\ \A d \in Devices : prevReg.pc[d].user < newUser
          /\ \A d, e \in Devices : prevReg.pc[d].user = prevReg.pc[e].user => d = e \/ prevReg.pc[d].user = 0
    /\ kind = "enroll" => oldUser \in {0, prevReg.pc[dev].user}

Reported == {"enroll", "undo", "revoke"}
RevokedInv ==
    /\ \A d \in Devices : outcome[d] = "revoked" =>
          registry.pc[d].status = "revoked" /\ registry.pc[d].user \notin users
    /\ kind \in Reported => outcome[dev] = "none"

\* An operation changes only the record it is about.
LEMMA OthersSame ==
    ASSUME RegistrarTypeInv, MemInv, kind \in Kinds, NEW d \in Devices, ~(kind \in Reported /\ d = dev)
    PROVE  mem.pc[d] = registry.pc[d]
  <1>0. EnrollMem /\ UndoMem /\ RevokeMem /\ OtherMem
    BY DEF MemInv
  <1>1. CASE kind = "enroll"
    <2>1. AsEnrolled(mem, prevReg) /\ (registry = prevReg \/ registry = mem)
      BY <1>0, <1>1, PosIs DEF EnrollMem, RegistrarTypeInv
    <2> QED
      BY <1>1, <2>1 DEF AsEnrolled, Reported
  <1>2. CASE kind = "undo"
    BY <1>0, <1>2 DEF UndoMem, AsEnrolled, Reported
  <1>3. CASE kind = "revoke"
    BY <1>0, <1>3 DEF RevokeMem, AsRevoked, Reported
  <1>4. CASE kind \in {"legacy", "policy"}
    BY <1>0, <1>4 DEF OtherMem
  <1> QED
    BY <1>1, <1>2, <1>3, <1>4, KindsAre

LEMMA HoldingUsers == RegistrarTypeInv /\ MemInv /\ UsersInv /\ Holding => UsersInv'
  <1> SUFFICES ASSUME RegistrarTypeInv, MemInv, UsersInv, Holding
               PROVE  UsersInv'
    OBVIOUS
  <1>0. RegistrarTypeOK /\ PosInv /\ CountInv /\ EnrollMem /\ UndoMem /\ RevokeMem /\ OtherMem
    BY DEF RegistrarTypeInv, MemInv
  <1>1. kind \in Kinds /\ Advance /\ UNCHANGED <<args, mem>>
    BY <1>0, HoldingIs
  <1>2. kind' \in {kind, "none"} /\ kind \in {"enroll", "undo", "revoke", "legacy", "policy"}
    BY <1>0, <1>1, Advances, KindsAre
  <1>3. /\ registry' # registry => Step = "save" /\ registry' = mem
        /\ nextUser' # nextUser => Step = "user" /\ nextUser' = newUser + 1
    BY DEF Holding, CreateUser, CreateToken, SyncKeys, StartApp, Save, ChangeTrust, DropUser, Retire, stores
  <1>4. nextUser \in Nat /\ nextUser' \in Nat /\ nextUser <= nextUser'
    <2>1. Step = "user" => newUser = nextUser
      BY <1>0, StepIs DEF CountInv, RegistrarTypeOK
    <2> QED
      BY <1>0, <1>3, <2>1 DEF RegistrarTypeOK
  <1>5. \A d \in Devices : registry.pc[d].user \in Nat /\ prevReg.pc[d].user \in Nat
    BY <1>0, Fieldwise DEF RegistrarTypeOK
  <1>6. /\ \A d \in Devices : registry'.pc[d].user < nextUser'
        /\ \A d, e \in Devices : registry'.pc[d].user = registry'.pc[e].user => d = e \/ registry'.pc[d].user = 0
    <2>1. CASE registry' = registry
      BY <1>4, <1>5, <2>1 DEF UsersInv
    <2>2. CASE registry' = mem /\ Step = "save"
      <3>0. nextUser' = nextUser
        BY <1>3, <2>2
      <3>1. CASE kind = "enroll"
        <4>1. AsEnrolled(mem, prevReg) /\ newUser \in 1..(nextUser - 1)
          BY <1>0, <2>2, <3>1, StepIs DEF EnrollMem, CountInv, At, RegistrarTypeOK
        <4>2. \A d \in Devices : mem.pc[d].user = IF d = dev THEN newUser ELSE prevReg.pc[d].user
          BY <4>1 DEF AsEnrolled
        <4> QED
          BY <1>4, <1>5, <2>2, <3>0, <3>1, <4>1, <4>2 DEF UsersInv
      <3>2. CASE kind = "undo"
        <4>1. mem = prevReg /\ newUser \in 1..(nextUser - 1)
          BY <1>0, <3>2 DEF UndoMem, CountInv
        <4> QED
          BY <1>4, <1>5, <2>2, <3>0, <3>2, <4>1 DEF UsersInv
      <3>3. CASE kind \in {"revoke", "legacy", "policy"}
        <4>1. \A d \in Devices : mem.pc[d].user = registry.pc[d].user
          BY <1>0, <3>3 DEF RevokeMem, AsRevoked, OtherMem
        <4> QED
          BY <2>2, <3>0, <4>1 DEF UsersInv
      <3> QED
        BY <1>2, <3>1, <3>2, <3>3
    <2> QED
      BY <1>3, <2>1, <2>2
  <1> QED
    BY <1>1, <1>2, <1>6 DEF UsersInv, args

LEMMA NextUsers == RegistrarTypeInv /\ MemInv /\ UsersInv /\ [RegistrarNext]_registrarVars => UsersInv'
  <1> SUFFICES ASSUME RegistrarTypeInv, MemInv, UsersInv, [RegistrarNext]_registrarVars
               PROVE  UsersInv'
    OBVIOUS
  <1>0. RegistrarTypeOK /\ PosInv
    BY DEF RegistrarTypeInv
  <1>1. CASE Holding
    BY <1>1, HoldingUsers
  <1>2. CASE Fail
    <2>1. UNCHANGED <<registry, args, nextUser>> /\ kind' \in {kind, "undo", "none"} /\ (kind' = "undo" => kind \in {"enroll", "undo"})
      <3>1. Advance /\ kind \in Kinds => kind' \in {kind, "none"}
        BY <1>0, Advances
      <3> QED
        BY <1>0, <1>2, <3>1, FailIs
    <2> QED
      BY <2>1 DEF UsersInv, args
  <1>3. ASSUME NEW d \in Devices, NEW k \in Keys, Enroll(d, k)
        PROVE  UsersInv'
    <2>1. registry' = registry /\ nextUser' = nextUser /\ kind = "none"
      BY <1>3 DEF Enroll, stores
    <2>2. CASE registry.pc[d].status = "active" /\ registry.pc[d].key # k
      <3>1. kind' = "none"
        BY <1>3, <2>1, <2>2 DEF Enroll, op
      <3> QED
        BY <2>1, <3>1 DEF UsersInv
    <2>3. CASE ~(registry.pc[d].status = "active" /\ registry.pc[d].key # k)
      <3>1. dev' = d /\ prevReg' = registry /\ newUser' = nextUser /\ oldUser' \in {0, registry.pc[d].user}
        BY <1>3, <2>3, EnrollIs
      <3> QED
        BY <2>1, <3>1 DEF UsersInv
    <2> QED
      BY <2>2, <2>3
  <1>4. ASSUME NEW d \in Devices, Commission(d)
        PROVE  UsersInv'
    <2>1. /\ kind = "none" /\ \A e \in Devices : registry'.pc[e].user = registry.pc[e].user
          /\ UNCHANGED <<op, meanwhile>>
      BY <1>4, CommissionIs
    <2> QED
      BY <2>1 DEF UsersInv, op, meanwhile
  <1>5. CASE (\E d \in Devices : Revoke(d)) \/ RevokeLegacy \/ Policy \/ HomeAssistantDies
    <2>1. registry' = registry /\ nextUser' = nextUser /\ kind' \notin {"enroll", "undo"}
      BY <1>5 DEF Revoke, RevokeLegacy, Policy, HomeAssistantDies, Start, stores, meanwhile
    <2> QED
      BY <2>1 DEF UsersInv
  <1>6. CASE \/ CreateCode \/ (\E d \in Devices, k \in Keys : ConsumeCode(d, k))
             \/ WritePassword \/ StartWithPassword \/ Reload \/ UNCHANGED registrarVars
    <2>1. UNCHANGED <<registry, op, nextUser>>
      BY <1>6 DEF CreateCode, ConsumeCode, WritePassword, StartWithPassword, Reload, registrarVars, stores, meanwhile
    <2> QED
      BY <2>1 DEF UsersInv, op, args
  <1> QED
    BY <1>1, <1>2, <1>3, <1>4, <1>5, <1>6 DEF RegistrarNext, Operation, Holding

LEMMA HoldingRevoked == RegistrarTypeInv /\ MemInv /\ UsersInv /\ RevokedInv /\ Holding => RevokedInv'
  <1> SUFFICES ASSUME RegistrarTypeInv, MemInv, UsersInv, RevokedInv, Holding
               PROVE  RevokedInv'
    OBVIOUS
  <1>0. RegistrarTypeOK /\ PosInv /\ CountInv /\ RevokeMem
    BY DEF RegistrarTypeInv, MemInv
  <1>1. kind \in Kinds /\ Advance /\ dev' = dev
    BY <1>0, HoldingIs DEF args
  <1>2. \/ kind' = kind /\ outcome' = outcome /\ ~Ended
        \/ /\ kind' = "none" /\ Ended
           /\ outcome' = IF kind \in Reported THEN [outcome EXCEPT ![dev] = Report(kind)] ELSE outcome
    BY <1>0, <1>1, Advances DEF Reported
  <1>3. registry' # registry => Step = "save" /\ registry' = mem
    BY DEF Holding, CreateUser, CreateToken, SyncKeys, StartApp, Save, ChangeTrust, DropUser, Retire, stores
  <1>4. \A u \in Users : u \in users' => u \in users \/ u = nextUser
    <2>1. Step = "user" => newUser = nextUser
      BY <1>0, StepIs DEF CountInv, RegistrarTypeOK
    <2> QED
      BY <2>1 DEF Holding, CreateUser, CreateToken, SyncKeys, StartApp, Save, ChangeTrust, DropUser, Retire, stores
  <1>5. ASSUME NEW d \in Devices, outcome'[d] = "revoked"
        PROVE  registry'.pc[d].status = "revoked" /\ registry'.pc[d].user \notin users'
    <2>1. CASE ~(kind \in Reported /\ d = dev)
      <3>1. outcome[d] = "revoked"
        BY <1>0, <1>2, <1>5, <2>1 DEF RegistrarTypeOK
      <3>2. registry'.pc[d] = registry.pc[d]
        BY <1>1, <1>3, <2>1, OthersSame
      <3>3. registry.pc[d].user \in 0..MaxUser /\ registry.pc[d].user < nextUser /\ nextUser \in Nat /\ users' \subseteq Users
        BY <1>0, Fieldwise, HoldingType DEF UsersInv, RegistrarTypeOK, RegistrarTypeInv
      <3>4. registry.pc[d].user \notin users'
        BY <1>4, <3>1, <3>3, RegistrarAssumption DEF RevokedInv, Users
      <3> QED
        BY <3>1, <3>2, <3>4 DEF RevokedInv
    <2>2. CASE kind \in Reported /\ d = dev
      <3>1. kind' = "none" /\ Ended /\ Report(kind) = "revoked"
        BY <1>0, <1>2, <1>5, <2>2 DEF RevokedInv, RegistrarTypeOK
      <3>2. At("revoke", 5)
        BY <2>2, <3>1 DEF Report, Reported, Ended, At
      <3>3. Step = "save"
        BY <1>0, <3>2, StepIs DEF RegistrarTypeOK
      <3>4. registry' = mem /\ users' = users
        BY <3>3 DEF Holding, CreateUser, CreateToken, SyncKeys, StartApp, Save, ChangeTrust, DropUser, Retire
      <3>5. mem.pc[dev].status = "revoked" /\ mem.pc[dev].user \notin users
        BY <1>0, <3>2 DEF RevokeMem, AsRevoked, At
      <3> QED
        BY <2>2, <3>4, <3>5
    <2> QED
      BY <2>1, <2>2
  <1>6. kind' \in Reported => outcome'[dev] = "none"
    BY <1>2 DEF RevokedInv, Reported
  <1> QED
    BY <1>1, <1>5, <1>6 DEF RevokedInv

LEMMA NextRevoked == RegistrarTypeInv /\ MemInv /\ UsersInv /\ RevokedInv /\ [RegistrarNext]_registrarVars => RevokedInv'
  <1> SUFFICES ASSUME RegistrarTypeInv, MemInv, UsersInv, RevokedInv, [RegistrarNext]_registrarVars
               PROVE  RevokedInv'
    OBVIOUS
  <1>0. RegistrarTypeOK /\ PosInv
    BY DEF RegistrarTypeInv
  <1>1. CASE Holding
    BY <1>1, HoldingRevoked
  <1>2. CASE Fail
    <2>1. UNCHANGED <<registry, users>> /\ dev' = dev /\ kind \in Kinds
      BY <1>0, <1>2, FailIs DEF args
    <2>2. /\ \/ outcome' = outcome
             \/ outcome' = [outcome EXCEPT ![dev] = "failed"]
             \/ outcome' = [outcome EXCEPT ![dev] = "enrolled"]
          /\ kind' \in Reported => outcome' = outcome /\ kind \in Reported
      <3>1. (kind = "undo" /\ pos \in 4..5) \/ At("enroll", 7) =>
              (Advance =>
                /\ kind' = "none" \/ (outcome' = outcome /\ kind' = kind)
                /\ \/ outcome' = outcome
                   \/ outcome' = [outcome EXCEPT ![dev] = "failed"]
                   \/ outcome' = [outcome EXCEPT ![dev] = "enrolled"])
        BY <1>0, <2>1, Advances DEF At, Report
      <3> QED
        BY <1>0, <1>2, <3>1, FailIs DEF Reported
    <2> QED
      BY <1>0, <2>1, <2>2 DEF RevokedInv, RegistrarTypeOK
  <1>3. ASSUME NEW d \in Devices, NEW k \in Keys, Enroll(d, k)
        PROVE  RevokedInv'
    <2>1. UNCHANGED stores /\ kind = "none"
      BY <1>3 DEF Enroll
    <2>2. CASE registry.pc[d].status = "active" /\ registry.pc[d].key # k
      BY <1>3, <2>1, <2>2 DEF Enroll, op, RevokedInv, stores, Reported
    <2>3. CASE ~(registry.pc[d].status = "active" /\ registry.pc[d].key # k)
      <3>1. dev' = d /\ outcome' = [outcome EXCEPT ![d] = "none"]
        BY <1>3, <2>3, EnrollIs
      <3> QED
        BY <1>0, <2>1, <3>1 DEF RevokedInv, RegistrarTypeOK, stores
    <2> QED
      BY <2>2, <2>3
  <1>4. ASSUME NEW d \in Devices, Commission(d)
        PROVE  RevokedInv'
    <2>1. /\ kind = "none"
          /\ \A e \in Devices : registry'.pc[e].user = registry.pc[e].user /\ registry'.pc[e].status = registry.pc[e].status
          /\ UNCHANGED <<op, users, outcome>>
      BY <1>4, CommissionIs
    <2> QED
      BY <2>1 DEF RevokedInv, op, Reported
  <1>5. ASSUME NEW d \in Devices, Revoke(d)
        PROVE  RevokedInv'
    <2>1. dev' = d /\ outcome' = [outcome EXCEPT ![d] = "none"] /\ UNCHANGED stores
      BY <1>5, RevokeIs DEF Revoke
    <2> QED
      BY <1>0, <2>1 DEF RevokedInv, RegistrarTypeOK, stores
  <1>6. CASE RevokeLegacy \/ Policy \/ HomeAssistantDies
    <2>1. UNCHANGED <<registry, users, outcome>> /\ kind' \notin Reported
      BY <1>6 DEF RevokeLegacy, Policy, HomeAssistantDies, Start, stores, Reported
    <2> QED
      BY <2>1 DEF RevokedInv
  <1>7. CASE \/ CreateCode \/ (\E d \in Devices, k \in Keys : ConsumeCode(d, k))
             \/ WritePassword \/ StartWithPassword \/ Reload \/ UNCHANGED registrarVars
    <2>1. UNCHANGED <<registry, users, op, outcome>>
      BY <1>7 DEF CreateCode, ConsumeCode, WritePassword, StartWithPassword, Reload, registrarVars, stores
    <2> QED
      BY <2>1 DEF RevokedInv, op, args
  <1> QED
    BY <1>1, <1>2, <1>3, <1>4, <1>5, <1>6, <1>7 DEF RegistrarNext, Operation, Holding

-----------------------------------------------------------------------------
(* The publishers.                                                         *)

\* Whatever a publisher signs with is the key of an active PC of that id.
Owned(t, reg) ==
    \A p \in PubIds : t[p] # "none" =>
        \E e \in Devices : reg.pc[e].status = "active" /\ Pub[e] = p /\ reg.pc[e].key = t[p]
TrustInv == Owned(trust, registry) /\ (kind \in {"enroll", "undo"} => Owned(prevTrust, prevReg))

LEMMA HoldingTrust == RegistrarTypeInv /\ MemInv /\ TrustInv /\ Holding => TrustInv'
  <1> SUFFICES ASSUME RegistrarTypeInv, MemInv, TrustInv, Holding
               PROVE  TrustInv'
    OBVIOUS
  <1>0. RegistrarTypeOK /\ PosInv /\ EnrollMem /\ UndoMem /\ RevokeMem /\ OtherMem
    BY DEF RegistrarTypeInv, MemInv
  <1>1. kind \in Kinds /\ Advance /\ UNCHANGED <<args, mem>>
    BY <1>0, HoldingIs
  <1>2. kind' \in {kind, "none"} /\ kind \in {"enroll", "undo", "revoke", "legacy", "policy"}
    BY <1>0, <1>1, Advances, KindsAre
  <1>3. \/ UNCHANGED <<registry, trust>>
        \/ Step = "save" /\ registry' = mem /\ trust' = trust
        \/ registry' = registry /\ ChangeTrust
    BY DEF Holding, CreateUser, CreateToken, SyncKeys, StartApp, Save, ChangeTrust, DropUser, Retire, stores
  <1>4. Owned(trust, registry)'
    <2>1. CASE UNCHANGED <<registry, trust>>
      BY <2>1 DEF TrustInv, Owned
    <2>2. CASE Step = "save" /\ registry' = mem /\ trust' = trust
      <3>1. CASE kind = "enroll"
        <4>1. AsEnrolled(mem, prevReg) /\ registry = prevReg /\ (prevReg.pc[dev].status = "active" => prevReg.pc[dev].key = key)
          BY <1>0, <2>2, <3>1, StepIs DEF EnrollMem, At, RegistrarTypeOK
        <4>2. \A e \in Devices : registry.pc[e].status = "active" => mem.pc[e].status = "active" /\ mem.pc[e].key = registry.pc[e].key
          BY <1>0, <4>1 DEF AsEnrolled, RegistrarTypeOK
        <4> QED
          BY <2>2, <4>2 DEF TrustInv, Owned
      <3>2. CASE kind = "undo"
        BY <1>0, <2>2, <3>2 DEF UndoMem, TrustInv, Owned
      <3>3. CASE kind = "revoke"
        <4>1. AsRevoked(mem, registry) /\ trust[Pub[dev]] = "none"
          BY <1>0, <2>2, <3>3, StepIs DEF RevokeMem, At, RegistrarTypeOK
        <4> QED
          BY <2>2, <4>1 DEF TrustInv, Owned, AsRevoked
      <3>4. CASE kind \in {"legacy", "policy"}
        <4>1. mem.pc = registry.pc
          BY <1>0, <3>4 DEF OtherMem
        <4> QED
          BY <2>2, <4>1 DEF TrustInv, Owned
      <3> QED
        BY <1>2, <3>1, <3>2, <3>3, <3>4
    <2>3. CASE registry' = registry /\ ChangeTrust
      <3>0. Pub[dev] \in PubIds /\ "role" \notin PubIds
        BY <1>0, RegistrarAssumption DEF RegistrarTypeOK
      <3>1. CASE Step = "trust" /\ trust' = [trust EXCEPT ![Pub[dev]] = key]
        <4>1. AsEnrolled(mem, prevReg) /\ registry = mem
          BY <1>0, <3>1, StepIs DEF EnrollMem, At, RegistrarTypeOK
        <4>2. registry.pc[dev].status = "active" /\ registry.pc[dev].key = key
          BY <4>1 DEF AsEnrolled
        <4>3. \A p \in PubIds : trust'[p] = IF p = Pub[dev] THEN key ELSE trust[p]
          BY <1>0, <3>0, <3>1 DEF RegistrarTypeOK, Trust
        <4> QED
          BY <1>0, <2>3, <4>2, <4>3 DEF TrustInv, Owned, RegistrarTypeOK
      <3>2. CASE Step = "drop_pub" /\ trust' = [trust EXCEPT ![Pub[dev]] = "none"]
        <4>1. \A p \in PubIds : trust'[p] = IF p = Pub[dev] THEN "none" ELSE trust[p]
          BY <1>0, <3>0, <3>2 DEF RegistrarTypeOK, Trust
        <4> QED
          BY <2>3, <4>1 DEF TrustInv, Owned
      <3>3. CASE Step = "drop_role" /\ trust' = [trust EXCEPT !["role"] = "none"]
        <4>1. \A p \in PubIds : trust'[p] = trust[p]
          BY <1>0, <3>0, <3>3 DEF RegistrarTypeOK, Trust
        <4> QED
          BY <2>3, <4>1 DEF TrustInv, Owned
      <3>4. CASE Step = "trust_back" /\ trust' = prevTrust
        <4>1. trust = prevTrust
          BY <1>0, <3>4, StepIs DEF UndoMem, At, RegistrarTypeOK
        <4> QED
          BY <2>3, <3>4, <4>1 DEF TrustInv, Owned
      <3> QED
        BY <2>3, <3>1, <3>2, <3>3, <3>4 DEF ChangeTrust
    <2> QED
      BY <1>3, <2>1, <2>2, <2>3
  <1> QED
    BY <1>1, <1>2, <1>4 DEF TrustInv, Owned, args

LEMMA NextTrust == RegistrarTypeInv /\ MemInv /\ TrustInv /\ [RegistrarNext]_registrarVars => TrustInv'
  <1> SUFFICES ASSUME RegistrarTypeInv, MemInv, TrustInv, [RegistrarNext]_registrarVars
               PROVE  TrustInv'
    OBVIOUS
  <1>0. RegistrarTypeOK /\ PosInv
    BY DEF RegistrarTypeInv
  <1>1. CASE Holding
    BY <1>1, HoldingTrust
  <1>2. CASE Fail
    <2>1. UNCHANGED <<registry, trust, args>> /\ (kind' \in {"enroll", "undo"} => kind \in {"enroll", "undo"})
      <3>1. Advance /\ kind \in Kinds => kind' \in {kind, "none"}
        BY <1>0, Advances
      <3> QED
        BY <1>0, <1>2, <3>1, FailIs
    <2> QED
      BY <2>1 DEF TrustInv, Owned, args
  <1>3. ASSUME NEW d \in Devices, NEW k \in Keys, Enroll(d, k)
        PROVE  TrustInv'
    <2>1. UNCHANGED stores /\ kind = "none"
      BY <1>3 DEF Enroll
    <2>2. CASE registry.pc[d].status = "active" /\ registry.pc[d].key # k
      BY <1>3, <2>1, <2>2 DEF Enroll, op, TrustInv, Owned, stores
    <2>3. CASE ~(registry.pc[d].status = "active" /\ registry.pc[d].key # k)
      <3>1. prevReg' = registry /\ prevTrust' = trust
        BY <1>3, <2>3, EnrollIs
      <3> QED
        BY <2>1, <3>1 DEF TrustInv, Owned, stores
    <2> QED
      BY <2>2, <2>3
  <1>4. ASSUME NEW d \in Devices, Commission(d)
        PROVE  TrustInv'
    <2>1. /\ kind = "none" /\ UNCHANGED <<op, trust>>
          /\ \A e \in Devices : registry'.pc[e].key = registry.pc[e].key /\ registry'.pc[e].status = registry.pc[e].status
      BY <1>4, CommissionIs
    <2> QED
      BY <2>1 DEF TrustInv, Owned, op
  <1>5. CASE (\E d \in Devices : Revoke(d)) \/ RevokeLegacy \/ Policy \/ HomeAssistantDies
    <2>1. UNCHANGED <<registry, trust>> /\ kind' \notin {"enroll", "undo"}
      BY <1>5 DEF Revoke, RevokeLegacy, Policy, HomeAssistantDies, Start, stores
    <2> QED
      BY <2>1 DEF TrustInv, Owned
  <1>6. CASE \/ CreateCode \/ (\E d \in Devices, k \in Keys : ConsumeCode(d, k))
             \/ WritePassword \/ StartWithPassword \/ Reload \/ UNCHANGED registrarVars
    <2>1. UNCHANGED <<registry, trust, op>>
      BY <1>6 DEF CreateCode, ConsumeCode, WritePassword, StartWithPassword, Reload, registrarVars, stores
    <2> QED
      BY <2>1 DEF TrustInv, Owned, op, args
  <1> QED
    BY <1>1, <1>2, <1>3, <1>4, <1>5, <1>6 DEF RegistrarNext, Operation, Holding

-----------------------------------------------------------------------------
(* What an enrolled PC keeps.                                              *)

Whole(d) ==
    registry.pc[d].user \in users /\ trust[Pub[d]] = registry.pc[d].key /\ registry.pc[d].key \in conf.keys
UnderWay(d) == kind \in {"enroll", "revoke"} /\ d = dev
WholeInv ==
    Undisturbed =>
        /\ \A d \in Devices : outcome[d] = "enrolled" => registry.pc[d].status = "active"
        /\ \A d \in Devices : registry.pc[d].status = "active" /\ ~UnderWay(d) => Whole(d)
        /\ AfterSync => KnownKeys(mem) \subseteq conf.keys
        /\ kind = "enroll" /\ pos > 1 => newUser \in users
        /\ kind = "legacy" => \E d \in Devices : registry.pc[d].status = "active" /\ registry.pc[d].done

LEMMA UndisturbedIs ==
    ASSUME RegistrarTypeInv, MemInv, Undisturbed
    PROVE  kind # "undo" /\ ~Fail /\ ~HomeAssistantDies /\ ~WritePassword
  <1>0. RegistrarTypeOK /\ PosInv /\ SpentInv
    BY DEF RegistrarTypeInv, MemInv
  <1>1. \A m \in {"fail", "crash"} : registrarBudget[m] = 0 /\ home.times[m] = 0
    BY <1>0, RegistrarAssumption DEF Undisturbed, NothingFails, NothingDies, SpentInv, RegistrarTypeOK, RegistrarMishaps
  <1> QED
    BY <1>0, <1>1 DEF SpentInv, Fail, HomeAssistantDies, WritePassword, SpendRegistrar, Undisturbed

LEMMA HoldingWhole == RegistrarTypeInv /\ MemInv /\ UsersInv /\ RevokedInv /\ WholeInv /\ Holding => WholeInv'
  <1> SUFFICES ASSUME RegistrarTypeInv, MemInv, UsersInv, RevokedInv, WholeInv, Holding, Undisturbed
               PROVE  WholeInv'
    <2>1. RegistrarTypeInv /\ Holding => home' = home
      BY HoldingIs DEF RegistrarTypeInv, trouble
    <2> QED
      BY <2>1 DEF WholeInv, Undisturbed, NothingFails, NothingDies, HasPassword
  <1>0. RegistrarTypeOK /\ PosInv /\ CountInv /\ EnrollMem /\ RevokeMem /\ OtherMem
    BY DEF RegistrarTypeInv, MemInv
  <1>1. kind \in Kinds /\ Advance /\ dev' = dev /\ key' = key /\ mem' = mem /\ newUser' = newUser
    BY <1>0, HoldingIs DEF args
  <1>2. \/ kind' = kind /\ pos' = pos + 1 /\ outcome' = outcome /\ ~Ended
        \/ /\ kind' = "none" /\ Ended
           /\ outcome' = IF kind \in Reported THEN [outcome EXCEPT ![dev] = Report(kind)] ELSE outcome
    BY <1>0, <1>1, Advances DEF Reported
  <1>3. kind \in {"enroll", "revoke", "legacy", "policy"}
    BY <1>1, KindsAre, UndisturbedIs
  <1>4. /\ kind = "enroll" => pos \in 1..7
        /\ kind \in {"undo", "revoke"} => pos \in 1..5
        /\ kind = "legacy" => pos \in 1..4
        /\ kind = "policy" => pos \in 1..3
    BY <1>0, <1>1, PosIs
  <1>5. /\ Step = "save" => registry' = mem
        /\ Step # "save" => registry' = registry
        /\ Step = "sync" => conf'.keys = KnownKeys(mem)
        /\ Step # "sync" => conf' = conf
        /\ Step = "user" => users' = users \cup {newUser}
        /\ Step = "retire" => users' = users \ {oldUser}
        /\ Step = "drop_user" => users' = users \ {mem.pc[dev].user}
        /\ Step \notin {"user", "retire", "drop_user", "drop_new"} => users' = users
        /\ Step \notin {"trust", "drop_pub", "drop_role", "trust_back"} => trust' = trust
    BY DEF Holding, CreateUser, CreateToken, SyncKeys, StartApp, Save, ChangeTrust, DropUser, Retire, stores
  <1>6. Step \notin {"trust_back", "drop_new"}
    BY <1>0, <1>3, StepIs DEF At, RegistrarTypeOK
  <1>7. \A d \in Devices : ~(kind \in {"enroll", "revoke"} /\ d = dev) => registry'.pc[d] = registry.pc[d]
    <2>1. \A d \in Devices : ~(kind \in {"enroll", "revoke"} /\ d = dev) => mem.pc[d] = registry.pc[d]
      BY <1>1, <1>3, OthersSame DEF Reported
    <2> QED
      BY <1>5, <2>1
  <1>8. \A d \in Devices : ~(kind \in {"enroll", "revoke"} /\ d = dev) => trust'[Pub[d]] = trust[Pub[d]]
    <2> SUFFICES ASSUME NEW d \in Devices, ~(kind \in {"enroll", "revoke"} /\ d = dev)
                 PROVE  trust'[Pub[d]] = trust[Pub[d]]
      OBVIOUS
    <2>0. Pub[d] \in PubIds /\ Pub[dev] \in PubIds /\ "role" \notin PubIds
      BY <1>0, RegistrarAssumption DEF RegistrarTypeOK
    <2>1. CASE Step \in {"trust", "drop_pub"}
      <3>1. kind \in {"enroll", "revoke"}
        BY <1>0, <2>1, StepIs DEF At, RegistrarTypeOK
      <3>2. Pub[d] # Pub[dev]
        BY <1>0, <3>1 DEF Undisturbed, RegistrarTypeOK
      <3>3. trust' = [trust EXCEPT ![Pub[dev]] = key] \/ trust' = [trust EXCEPT ![Pub[dev]] = "none"]
        BY <2>1 DEF Holding, CreateUser, CreateToken, SyncKeys, StartApp, Save, ChangeTrust, DropUser, Retire
      <3> QED
        BY <1>0, <2>0, <3>2, <3>3 DEF RegistrarTypeOK, Trust
    <2>2. CASE Step = "drop_role"
      <3>1. trust' = [trust EXCEPT !["role"] = "none"]
        BY <2>2 DEF Holding, CreateUser, CreateToken, SyncKeys, StartApp, Save, ChangeTrust, DropUser, Retire
      <3> QED
        BY <1>0, <2>0, <3>1 DEF RegistrarTypeOK, Trust
    <2> QED
      BY <1>5, <1>6, <2>1, <2>2
  <1>9. \A d \in Devices : /\ ~(kind \in {"enroll", "revoke"} /\ d = dev)
                          /\ registry.pc[d].status = "active" => Whole(d)
    BY DEF WholeInv, UnderWay
  <1>10. ASSUME NEW d \in Devices, ~(kind \in {"enroll", "revoke"} /\ d = dev), registry'.pc[d].status = "active"
         PROVE  Whole(d)'
    <2>1. registry'.pc[d] = registry.pc[d] /\ registry.pc[d].status = "active" /\ mem.pc[d] = registry.pc[d]
      BY <1>1, <1>3, <1>7, <1>10, OthersSame DEF Reported
    <2>2. registry.pc[d].user \in users /\ trust[Pub[d]] = registry.pc[d].key /\ registry.pc[d].key \in conf.keys
      BY <1>9, <1>10, <2>1 DEF Whole
    <2>3. registry.pc[d].key \in conf'.keys
      <3>1. registry.pc[d].key \in KnownKeys(mem)
        BY <2>1 DEF KnownKeys, ActiveKeys
      <3> QED
        BY <1>5, <2>2, <3>1
    <2>4. registry.pc[d].user \in users'
      <3>0. registry.pc[d].user # 0
        BY <1>0, <2>2 DEF RegistrarTypeOK, Users
      <3>1. CASE Step = "retire"
        <4>1. At("enroll", 7)
          BY <1>0, <3>1, StepIs DEF RegistrarTypeOK
        <4>2. oldUser \in {0, prevReg.pc[dev].user} /\ AsEnrolled(mem, prevReg)
          BY <1>0, <4>1 DEF At, UsersInv, EnrollMem
        <4>3. d # dev /\ registry.pc[d] = prevReg.pc[d]
          BY <1>10, <2>1, <4>1, <4>2 DEF AsEnrolled, At
        <4>4. prevReg.pc[d].user # prevReg.pc[dev].user
          BY <1>0, <3>0, <4>1, <4>3 DEF UsersInv, At, RegistrarTypeOK
        <4> QED
          BY <1>5, <2>2, <3>0, <3>1, <4>2, <4>3, <4>4
      <3>2. CASE Step = "drop_user"
        <4>1. At("revoke", 1)
          BY <1>0, <3>2, StepIs DEF RegistrarTypeOK
        <4>2. d # dev /\ mem.pc[dev].user = registry.pc[dev].user
          BY <1>0, <1>10, <4>1 DEF At, RevokeMem, AsRevoked
        <4>3. registry.pc[d].user # registry.pc[dev].user
          BY <1>0, <3>0, <4>2 DEF UsersInv, RegistrarTypeOK
        <4> QED
          BY <1>5, <2>2, <3>2, <4>2, <4>3
      <3> QED
        BY <1>5, <1>6, <2>2, <3>1, <3>2
    <2> QED
      BY <1>8, <1>10, <2>1, <2>2, <2>3, <2>4 DEF Whole
  <1>11. AfterSync' => KnownKeys(mem) \subseteq conf'.keys
    <2>1. AfterSync' => AfterSync \/ Step = "sync"
      BY <1>0, <1>2, <1>3, <1>4, StepIs DEF AfterSync, At, RegistrarTypeOK
    <2> QED
      BY <1>5, <2>1 DEF WholeInv
  <1>12. kind' = "enroll" /\ pos' > 1 => newUser \in users'
    <2> SUFFICES ASSUME kind' = "enroll"
                 PROVE  newUser \in users'
      OBVIOUS
    <2>1. kind = "enroll" /\ ~Ended
      BY <1>2
    <2>2. CASE pos = 1
      BY <1>0, <1>5, <2>1, <2>2, StepIs DEF At, RegistrarTypeOK
    <2>3. CASE pos # 1
      <3>1. Step \notin {"user", "retire", "drop_user", "drop_new"}
        BY <1>0, <2>1, <2>3, StepIs DEF At, Ended, RegistrarTypeOK
      <3>2. newUser \in users
        BY <1>4, <2>1, <2>3 DEF WholeInv
      <3> QED
        BY <1>5, <3>1, <3>2
    <2> QED
      BY <2>2, <2>3
  <1>13. kind' = "legacy" => \E d \in Devices : registry'.pc[d].status = "active" /\ registry'.pc[d].done
    BY <1>2, <1>7 DEF WholeInv
  <1>14. CASE kind' = kind /\ pos' = pos + 1 /\ outcome' = outcome
    <2>1. \A d \in Devices : outcome[d] = "enrolled" => registry'.pc[d].status = "active"
      BY <1>7 DEF WholeInv, RevokedInv, Reported
    <2>2. \A d \in Devices : registry'.pc[d].status = "active" /\ ~UnderWay(d)' => Whole(d)'
      BY <1>1, <1>10, <1>14 DEF UnderWay
    <2> QED
      BY <1>1, <1>11, <1>12, <1>13, <1>14, <2>1, <2>2 DEF WholeInv
  <1>15. CASE /\ kind' = "none" /\ Ended
              /\ outcome' = IF kind \in Reported THEN [outcome EXCEPT ![dev] = Report(kind)] ELSE outcome
    <2>1. kind = "enroll" => registry'.pc[dev].status = "active" /\ Whole(dev)'
      <3> SUFFICES ASSUME kind = "enroll"
                   PROVE  registry'.pc[dev].status = "active" /\ Whole(dev)'
        OBVIOUS
      <3>1. pos = 7 /\ Step = "retire"
        BY <1>0, <1>15, StepIs DEF At, Ended, RegistrarTypeOK
      <3>2. AsEnrolled(mem, prevReg) /\ registry = mem /\ trust[Pub[dev]] = key
        BY <1>0, <3>1 DEF EnrollMem
      <3>3. /\ registry'.pc[dev].status = "active" /\ registry'.pc[dev].key = key /\ registry'.pc[dev].user = newUser
            /\ mem.pc[dev].status = "active" /\ mem.pc[dev].key = key
        BY <1>5, <3>1, <3>2 DEF AsEnrolled
      <3>4. trust'[Pub[dev]] = key
        BY <1>5, <3>1, <3>2
      <3>5. key \in conf'.keys
        <4>1. key \in KnownKeys(mem)
          BY <1>0, <3>3 DEF KnownKeys, ActiveKeys, RegistrarTypeOK
        <4>2. AfterSync
          BY <3>1 DEF AfterSync
        <4> QED
          BY <1>5, <3>1, <4>1, <4>2 DEF WholeInv
      <3>6. newUser \in users'
        <4>1. newUser \in users /\ newUser \in 1..(nextUser - 1)
          BY <1>0, <3>1 DEF WholeInv, CountInv
        <4>2. oldUser \in {0, prevReg.pc[dev].user} /\ prevReg.pc[dev].user < newUser /\ prevReg.pc[dev].user \in Nat
          BY <1>0, Fieldwise DEF UsersInv, RegistrarTypeOK
        <4>3. oldUser # newUser
          BY <1>0, <4>1, <4>2 DEF RegistrarTypeOK
        <4> QED
          BY <1>5, <3>1, <4>1, <4>3
      <3> QED
        BY <1>1, <3>3, <3>4, <3>5, <3>6 DEF Whole
    <2>2. kind = "revoke" => registry'.pc[dev].status = "revoked"
      <3>1. kind = "revoke" => Step = "save"
        BY <1>0, <1>15, StepIs DEF At, Ended, RegistrarTypeOK
      <3> QED
        BY <1>0, <1>5, <3>1 DEF RevokeMem, AsRevoked
    <2>3. ASSUME NEW d \in Devices, registry'.pc[d].status = "active"
          PROVE  Whole(d)'
      <3>1. CASE ~(kind \in {"enroll", "revoke"} /\ d = dev)
        BY <1>10, <2>3, <3>1
      <3>2. CASE kind \in {"enroll", "revoke"} /\ d = dev
        <4>1. kind = "enroll"
          BY <2>2, <2>3, <3>2
        <4> QED
          BY <1>1, <2>1, <3>2, <4>1 DEF Whole
      <3> QED
        BY <3>1, <3>2
    <2>4. \A d \in Devices : outcome'[d] = "enrolled" => registry'.pc[d].status = "active"
      <3> SUFFICES ASSUME NEW d \in Devices, outcome'[d] = "enrolled"
                   PROVE  registry'.pc[d].status = "active"
        OBVIOUS
      <3>1. CASE ~(kind \in Reported /\ d = dev)
        <4>1. outcome[d] = "enrolled"
          BY <1>0, <1>15, <3>1 DEF RegistrarTypeOK
        <4> QED
          BY <1>7, <3>1, <4>1 DEF WholeInv, Reported
      <3>2. CASE kind \in Reported /\ d = dev
        <4>1. Report(kind) = "enrolled"
          BY <1>0, <1>15, <3>2 DEF RegistrarTypeOK
        <4>2. kind = "enroll"
          BY <3>2, <4>1 DEF Report, Reported
        <4> QED
          BY <2>1, <3>2, <4>2
      <3> QED
        BY <3>1, <3>2
    <2>5. ~AfterSync'
      BY <1>15 DEF AfterSync
    <2> QED
      BY <1>15, <2>3, <2>4, <2>5 DEF WholeInv
  <1> QED
    BY <1>2, <1>14, <1>15

LEMMA NextWhole ==
    RegistrarTypeInv /\ MemInv /\ UsersInv /\ RevokedInv /\ WholeInv /\ [RegistrarNext]_registrarVars => WholeInv'
  <1> SUFFICES ASSUME RegistrarTypeInv, MemInv, UsersInv, RevokedInv, WholeInv, [RegistrarNext]_registrarVars, Undisturbed'
               PROVE  WholeInv'
    BY DEF WholeInv
  <1>0. RegistrarTypeOK /\ PosInv
    BY DEF RegistrarTypeInv
  <1>1. home' = home
    <2>1. Fail => home' = home
      BY <1>0, FailIs
    <2>2. Holding => home' = home
      BY <1>0, HoldingIs DEF trouble
    <2> QED
      BY <2>1, <2>2 DEF RegistrarNext, Operation, Holding, CreateCode, ConsumeCode, WritePassword, StartWithPassword, Reload,
         HomeAssistantDies, SpendRegistrar, Enroll, Commission, Revoke, RevokeLegacy, Policy, trouble, registrarVars
  <1>2. Undisturbed
    BY <1>1 DEF Undisturbed, NothingFails, NothingDies, HasPassword
  <1>3. ~Fail /\ ~HomeAssistantDies /\ ~WritePassword
    BY <1>2, UndisturbedIs
  <1>4. CASE Holding
    BY <1>4, HoldingWhole
  <1>5. ASSUME NEW d \in Devices, NEW k \in Keys, Enroll(d, k)
        PROVE  WholeInv'
    <2>1. UNCHANGED stores /\ kind = "none"
      BY <1>5 DEF Enroll
    <2>2. CASE registry.pc[d].status = "active" /\ registry.pc[d].key # k
      BY <1>2, <1>5, <2>1, <2>2 DEF Enroll, op, WholeInv, Whole, UnderWay, AfterSync, stores
    <2>3. CASE ~(registry.pc[d].status = "active" /\ registry.pc[d].key # k)
      <3>1. dev' = d /\ kind' = "enroll" /\ pos' = 1 /\ outcome' = [outcome EXCEPT ![d] = "none"]
        BY <1>5, <2>3, EnrollIs
      <3> QED
        BY <1>0, <1>2, <2>1, <3>1 DEF WholeInv, Whole, UnderWay, AfterSync, stores, RegistrarTypeOK
    <2> QED
      BY <2>2, <2>3
  <1>6. ASSUME NEW d \in Devices, Commission(d)
        PROVE  WholeInv'
    <2>1. /\ kind = "none" /\ UNCHANGED <<op, trust, users, conf, outcome>>
          /\ \A e \in Devices : /\ registry'.pc[e].key = registry.pc[e].key /\ registry'.pc[e].status = registry.pc[e].status
                                /\ registry'.pc[e].user = registry.pc[e].user
      BY <1>6, CommissionIs
    <2> QED
      BY <1>2, <2>1 DEF WholeInv, Whole, UnderWay, AfterSync, op
  <1>7. ASSUME NEW d \in Devices, Revoke(d)
        PROVE  WholeInv'
    <2>1. dev' = d /\ kind' = "revoke" /\ pos' = 1 /\ kind = "none" /\ outcome' = [outcome EXCEPT ![d] = "none"] /\ UNCHANGED stores
      BY <1>7, RevokeIs DEF Revoke
    <2> QED
      BY <1>0, <1>2, <2>1 DEF WholeInv, Whole, UnderWay, AfterSync, stores, RegistrarTypeOK
  <1>8. CASE RevokeLegacy
    <2>1. /\ kind = "none" /\ kind' = "legacy" /\ pos' = 1 /\ UNCHANGED <<stores, outcome>>
          /\ \E d \in Devices : registry.pc[d].status = "active" /\ registry.pc[d].done
      BY <1>8 DEF RevokeLegacy, Start
    <2> QED
      BY <1>2, <2>1 DEF WholeInv, Whole, UnderWay, AfterSync, stores
  <1>9. CASE Policy
    <2>1. kind = "none" /\ kind' = "policy" /\ pos' = 1 /\ UNCHANGED <<stores, outcome>>
      BY <1>9 DEF Policy, Start
    <2> QED
      BY <1>2, <2>1 DEF WholeInv, Whole, UnderWay, AfterSync, stores
  <1>10. CASE \/ CreateCode \/ (\E d \in Devices, k \in Keys : ConsumeCode(d, k))
              \/ StartWithPassword \/ Reload \/ UNCHANGED registrarVars
    <2>1. UNCHANGED <<registry, trust, users, conf, op, outcome>>
      BY <1>10 DEF CreateCode, ConsumeCode, StartWithPassword, Reload, registrarVars, stores
    <2> QED
      BY <1>2, <2>1 DEF WholeInv, Whole, UnderWay, AfterSync, op, args
  <1> QED
    BY <1>3, <1>4, <1>5, <1>6, <1>7, <1>8, <1>9, <1>10 DEF RegistrarNext, Operation, Holding

-----------------------------------------------------------------------------
(* The promises.                                                           *)

RegistrarInv ==
    RegistrarTypeInv /\ MemInv /\ SyncedInv /\ KeysInv /\ UsersInv /\ RevokedInv /\ TrustInv /\ WholeInv

LEMMA RegistrarInitInv == RegistrarInit => RegistrarInv
  <1> SUFFICES ASSUME RegistrarInit
               PROVE  RegistrarInv
    OBVIOUS
  <1>1. /\ kind = "none" /\ outcome = [d \in Devices |-> "none"] /\ nextUser = 1
        /\ \A d \in Devices : registry.pc[d] = NoRecord
        /\ trust = [p \in PubIds \cup {"role"} |-> IF p = "role" THEN LegacyKey ELSE "none"]
    BY DEF RegistrarInit
  <1>2. \A p \in PubIds : trust[p] = "none"
    BY <1>1, RegistrarAssumption
  <1>3. UsersInv /\ RevokedInv /\ TrustInv /\ WholeInv
    BY <1>1, <1>2 DEF UsersInv, RevokedInv, Reported, TrustInv, Owned, WholeInv, AfterSync, NoRecord
  <1> QED
    BY <1>3, RegistrarInitTyped, InitMem, InitKeys DEF RegistrarInv

LEMMA RegistrarNextInv == RegistrarInv /\ [RegistrarNext]_registrarVars => RegistrarInv'
  BY RegistrarNextTyped, NextMem, NextKeys, NextUsers, NextRevoked, NextTrust, NextWhole DEF RegistrarInv

THEOREM RegistrarInvariance == RegistrarSpec => []RegistrarInv
  BY RegistrarInitInv, RegistrarNextInv, PTL DEF RegistrarSpec

LEMMA RevokedOut == RegistrarInv /\ OnlyKnownKeys => RevokedIsOut
  <1> SUFFICES ASSUME RegistrarInv, OnlyKnownKeys, Quiet, NEW d \in Devices, outcome[d] = "revoked"
               PROVE  /\ registry.pc[d].status = "revoked" /\ registry.pc[d].user \notin users
                      /\ trust[Pub[d]] # "none" => \E e \in Devices \ {d} : Pub[e] = Pub[d] /\ ActiveAs(e, trust[Pub[e]])
                      /\ (NothingFails \/ (OneFails /\ NothingDies)) /\ registry.pc[d].key \in live.keys =>
                            registry.pc[d].key \in KnownKeys(registry)
    BY DEF RevokedIsOut
  <1>1. registry.pc[d].status = "revoked" /\ registry.pc[d].user \notin users
    BY DEF RegistrarInv, RevokedInv
  <1>2. trust[Pub[d]] # "none" => \E e \in Devices \ {d} : Pub[e] = Pub[d] /\ ActiveAs(e, trust[Pub[e]])
    <2> SUFFICES ASSUME trust[Pub[d]] # "none"
                 PROVE  \E e \in Devices \ {d} : Pub[e] = Pub[d] /\ ActiveAs(e, trust[Pub[e]])
      OBVIOUS
    <2>1. Pub[d] \in PubIds
      BY RegistrarAssumption
    <2>2. PICK e \in Devices : registry.pc[e].status = "active" /\ Pub[e] = Pub[d] /\ registry.pc[e].key = trust[Pub[d]]
      BY <2>1 DEF RegistrarInv, TrustInv, Owned
    <2> QED
      BY <1>1, <2>2 DEF ActiveAs
  <1>3. (NothingFails \/ (OneFails /\ NothingDies)) /\ registry.pc[d].key \in live.keys =>
          registry.pc[d].key \in KnownKeys(registry)
    BY DEF OnlyKnownKeys
  <1> QED
    BY <1>1, <1>2, <1>3

\* What was reported of a PC is so: for any devices, keys, publisher ids and
\* installations (ReportIsTrue).
THEOREM ReportTrue == RegistrarSpec => []ReportIsTrue
  <1>1. RegistrarInv => EnrolledIsWhole
    BY DEF RegistrarInv, WholeInv, EnrolledIsWhole, Whole, UnderWay, Quiet
  <1>2. RegistrarInv /\ OnlyKnownKeys => ReportIsTrue
    BY <1>1, RevokedOut DEF ReportIsTrue
  <1> QED
    BY <1>2, OnlyKnown, RegistrarInvariance, PTL

LEMMA UndoneStep ==
    ASSUME RegistrarInv, RegistrarNext, home.times["fail"] <= 1
    PROVE  FailedEnrolmentUndone
  <1> SUFFICES ASSUME NEW d \in Devices, kind = "undo", outcome[d] = "none", outcome'[d] = "failed"
               PROVE  registry' = prevReg /\ trust' = prevTrust /\ newUser \notin users'
                      /\ conf'.keys \subseteq KnownKeys(prevReg)
    BY DEF FailedEnrolmentUndone
  <1>0. RegistrarTypeOK /\ PosInv /\ UndoMem /\ SpentInv /\ SyncedInv
    BY DEF RegistrarInv, RegistrarTypeInv, MemInv
  <1>1. ~Fail
    <2>1. registrarBudget["fail"] \in Nat /\ home.times["fail"] \in Nat /\ registrarBudget["fail"] < home.times["fail"]
      BY <1>0, RegistrarAssumption DEF RegistrarTypeOK, RegistrarMishaps, SpentInv
    <2> QED
      BY <2>1 DEF Fail, SpendRegistrar
  <1>2. Holding
    BY <1>1 DEF RegistrarNext, Operation, Holding, CreateCode, ConsumeCode, Enroll, Commission, Revoke, RevokeLegacy, Policy,
                Start, WritePassword, StartWithPassword, Reload, HomeAssistantDies
  <1>3. kind \in Kinds /\ Advance
    BY <1>0, <1>2, HoldingIs
  <1>4. At("undo", 5)
    BY <1>0, <1>3, Advances DEF Ended, At
  <1>5. Step = "drop_new"
    BY <1>0, <1>4, StepIs DEF RegistrarTypeOK
  <1>6. registry' = registry /\ trust' = trust /\ conf' = conf /\ users' = users \ {newUser}
    BY <1>2, <1>5 DEF Holding, CreateUser, CreateToken, SyncKeys, StartApp, Save, ChangeTrust, DropUser, Retire
  <1>7. registry = prevReg /\ trust = prevTrust /\ mem = prevReg /\ conf.keys \subseteq KnownKeys(mem)
    BY <1>0, <1>4 DEF UndoMem, SyncedInv, AfterSync, At
  <1> QED
    BY <1>6, <1>7

LEMMA LegacyStep ==
    ASSUME RegistrarInv, RegistrarNext, Undisturbed
    PROVE  LegacyAfterCommission
  <1> SUFFICES ASSUME trust["role"] = LegacyKey, trust'["role"] = "none"
               PROVE  \E d \in Devices : registry.pc[d].done /\ registry.pc[d].key \in conf.keys /\ trust[Pub[d]] = registry.pc[d].key
    BY DEF LegacyAfterCommission
  <1>0. RegistrarTypeOK /\ PosInv /\ WholeInv
    BY DEF RegistrarInv, RegistrarTypeInv
  <1>1. kind # "undo" /\ ~Fail
    BY UndisturbedIs DEF RegistrarInv
  <1>2. ChangeTrust
    <2>1. trust' # trust
      BY DEF LegacyKey
    <2> QED
      BY <1>1, <2>1 DEF RegistrarNext, Operation, CreateUser, CreateToken, SyncKeys, StartApp, Save, DropUser, Retire, CreateCode, ConsumeCode,
                  Enroll, Commission, Revoke, RevokeLegacy, Policy, WritePassword, StartWithPassword, Reload, HomeAssistantDies, stores
  <1>3. Step \notin {"trust", "drop_pub"}
    <2>1. Pub[dev] \in PubIds /\ "role" \notin PubIds
      BY <1>0, RegistrarAssumption DEF RegistrarTypeOK
    <2>2. Step \in {"trust", "drop_pub"} => trust'["role"] = trust["role"]
      BY <1>0, <1>2, <2>1 DEF ChangeTrust, RegistrarTypeOK, Trust
    <2> QED
      BY <2>2 DEF LegacyKey
  <1>4. Step = "drop_role"
    BY <1>0, <1>1, <1>2, <1>3, StepIs DEF ChangeTrust, At, RegistrarTypeOK
  <1>5. kind = "legacy"
    BY <1>0, <1>4, StepIs DEF At, RegistrarTypeOK
  <1> QED
    BY <1>0, <1>5 DEF WholeInv, UnderWay, Whole

\* No credential is lost by what fails or comes too early: for any devices,
\* keys, publisher ids and installations (CredentialsAreKept).
THEOREM CredentialsKept == RegistrarSpec => CredentialsAreKept
  <1>1. RegistrarInv /\ RegistrarNext =>
          (NothingFails \/ OneFails => FailedEnrolmentUndone) /\ (Undisturbed => LegacyAfterCommission)
    <2>1. NothingFails \/ OneFails => home.times["fail"] <= 1
      BY DEF NothingFails, OneFails
    <2> QED
      BY <2>1, UndoneStep, LegacyStep
  <1>2. RegistrarInv /\ [RegistrarNext]_registrarVars =>
          [(NothingFails \/ OneFails => FailedEnrolmentUndone) /\ (Undisturbed => LegacyAfterCommission)]_registrarVars
    BY <1>1
  <1> QED
    BY <1>2, RegistrarInvariance, PTL DEF RegistrarSpec, CredentialsAreKept

-----------------------------------------------------------------------------
(* SftpApp: the app that is driven through the Supervisor.                 *)

\* The port that is chosen while the other apps hold theirs.
Free == Ports \ Used
Lowest == CHOOSE p \in Free : \A q \in Free : p <= q

\* What a call is at each step of it.
CallInv ==
    /\ call.step = "none" <=> call = NoCall
    /\ call.kind = "none" => call = NoCall
    /\ call.kind = "enrol" => call.pc \in PCs
    /\ call.kind = "remove" => ~sftpEntry.there
    /\ AtStep("erase") => call.kind = "remove"
    /\ call.step \in {"repo", "find", "port", "install", "backup", "renew", "options", "start", "wait", "identity"}
           => call.conf # Empty
    /\ last.kind # "none" => Idle
\* Whether the app is there.
ThereInv ==
    /\ ~Installed => app.state = "off" /\ app.host = 0
    /\ owner = "none" <=> ~Installed
    /\ AtStep("port") => (call.created <=> ~Installed)
    /\ AtStep("install") => call.created /\ ~Installed
    /\ call.step \in {"backup", "renew"} => ~call.created
    /\ call.created /\ call.step \in {"options", "start", "wait"} => owner = "jns"
    /\ call.step \in {"backup", "renew", "options", "start", "wait", "identity", "halt", "erase"} => Installed
    /\ AtStep("renew") => app.version \in backups
\* The port chosen.
Chosen ==
    \/ call.step \in {"install", "options", "start", "wait"}
    \/ call.step \in {"backup", "renew"} /\ call.kind # "update"
PortInv == Chosen => call.port \in Free /\ call.port = Lowest
\* What was configured.
ConfInv ==
    /\ call.step \in {"start", "wait"} => app.port = call.port /\ app.conf = call.conf
    /\ call.step \in {"wait", "identity"} /\ Started => sftpLive.port = call.port /\ sftpLive.conf = call.conf
LeftInv == \A m \in SftpMishaps : sftpBudget[m] <= site.times[m]
ToldInv ==
    /\ AtStep("identity") => sftpRegistry.port = app.port /\ app.port = Lowest
    /\ sftpEntry.there =>
         /\ export = app.host
         /\ \A d \in PCs : /\ told[d].port # 0 => Installed /\ told[d].port = app.port /\ app.port = Lowest
                           /\ told[d].host # 0 => told[d].host = app.host
OwnerInv ==
    /\ sftpEntry.created /\ sftpEntry.there => owner = "jns" \/ (owner = "none" /\ sftpBudget["manual"] = 0)
    /\ call.kind = "remove" => owner # "administrator"
SftpInv ==
    /\ SftpTypeOK /\ CallInv /\ ThereInv /\ PortInv /\ ConfInv /\ LeftInv /\ AppliedIsLive
    /\ NobodyElse => ToldInv
    /\ site.times["manual"] <= 1 => OwnerInv

LEMMA LeastOf ==
    ASSUME NEW S, S \subseteq Nat, S # {}
    PROVE  \E p \in S : \A q \in S : p <= q
  <1> DEFINE R == OpToRel(<, Nat)
  <1>1. IsWellFoundedOn(R, Nat)
    BY NatLessThanWellFounded, Zenon
  <1> HIDE DEF R
  <1>2. PICK p \in S : \A q \in S : <<q, p>> \notin R
    BY <1>1, WFMin
  <1>3. \A q \in S : ~(q < p)
    BY <1>2 DEF R, OpToRel
  <1> QED
    BY <1>3

LEMMA LowestIs == Free # {} => Lowest \in Free /\ Lowest \in Ports /\ Lowest \notin Used
  <1> SUFFICES ASSUME Free # {} PROVE Lowest \in Free
    BY DEF Free
  <1>1. Free \subseteq Nat
    BY PortAssumption DEF Free
  <1>2. \E p \in Free : \A q \in Free : p <= q
    BY <1>1, LeastOf
  <1> QED
    BY <1>2 DEF Lowest

LEMMA Nothing ==
    /\ NoCall \in Calls /\ NoApp \in Apps /\ Empty \in Confs /\ Password \in Confs /\ Password # Empty
    /\ \A pcs \in SUBSET PCs : Applied(pcs) \in Confs /\ (Applied(pcs) = Empty <=> pcs = {})
    /\ NoCall.kind = "none" /\ NoCall.step = "none"
  BY PortAssumption DEF NoCall, Calls, CallKinds, CallSteps, NoApp, Apps, Empty, Password, Confs, Applied

\* What a step writes into the call in flight, and what it says of it.
LEMMA CallFields ==
    ASSUME call \in Calls
    PROVE  /\ \A s \in {"find", "install", "renew", "options", "start", "wait", "identity", "halt", "erase"} :
                 s \in CallSteps
           /\ call.pc \in PCs \cup {"none"} /\ call.conf \in Confs /\ call.port \in Ports /\ call.created \in BOOLEAN
  BY DEF Calls, CallSteps

LEMMA SpendLeft ==
    ASSUME SftpTypeOK, NEW m \in SftpMishaps, SpendSftp(m)
    PROVE  sftpBudget' \in [SftpMishaps -> Nat] /\ (LeftInv /\ UNCHANGED site => LeftInv')
  <1>1. sftpBudget \in [SftpMishaps -> Nat] /\ site.times \in [SftpMishaps -> Nat]
    BY SiteAssumption DEF SftpTypeOK
  <1>2. sftpBudget[m] - 1 \in Nat /\ sftpBudget' = [sftpBudget EXCEPT ![m] = sftpBudget[m] - 1]
    BY <1>1 DEF SpendSftp
  <1>3. sftpBudget' \in [SftpMishaps -> Nat] /\ \A k \in SftpMishaps : sftpBudget'[k] <= sftpBudget[k]
    BY <1>1, <1>2
  <1> QED
    BY <1>1, <1>3 DEF LeftInv

LEMMA FailedIs ==
    ASSUME SftpTypeOK, Failed
    PROVE  /\ call' \in Calls /\ last' = NoCall /\ UNCHANGED notes
           /\ \/ call' = NoCall
              \/ /\ call'.kind = "undo" /\ call'.step \in {"stop", "repo"} /\ ~call'.created
                 /\ call'.step = "repo" => call'.conf # Empty
  <1>1. sftpRegistry.pcs \in SUBSET PCs
    BY DEF SftpTypeOK
  <1>2. CASE call.kind # "enrol"
    BY <1>2, Nothing DEF Failed
  <1>3. CASE call.kind = "enrol"
    <2> DEFINE c == [NoCall EXCEPT !.kind = "undo", !.conf = Applied(sftpRegistry.pcs),
                       !.step = IF sftpRegistry.pcs = {} THEN "stop" ELSE "repo"]
    <2>1. call' = c /\ last' = NoCall /\ UNCHANGED notes
      BY <1>3 DEF Failed
    <2>2. Applied(sftpRegistry.pcs) \in Confs /\ (sftpRegistry.pcs # {} => Applied(sftpRegistry.pcs) # Empty)
      BY <1>1, Nothing
    <2>3. /\ c \in Calls /\ c.kind = "undo" /\ c.conf = Applied(sftpRegistry.pcs) /\ c.created = FALSE
          /\ c.step = IF sftpRegistry.pcs = {} THEN "stop" ELSE "repo"
      BY <2>2, Nothing DEF NoCall, Calls, CallKinds, CallSteps
    <2> QED
      BY <2>1, <2>2, <2>3
  <1> QED
    BY <1>2, <1>3

LEMMA RegisterIs ==
    ASSUME SftpTypeOK, CallInv, NEW p \in Ports, Register(p)
    PROVE  /\ sftpRegistry' \in [pcs : SUBSET PCs, port : Ports]
           /\ call.kind = "enrol" => sftpRegistry'.port = p
  <1>1. sftpRegistry \in [pcs : SUBSET PCs, port : Ports]
    BY DEF SftpTypeOK
  <1>2. CASE call.kind = "enrol"
    BY <1>1, <1>2 DEF Register, CallInv
  <1>3. CASE call.kind = "revoke"
    BY <1>1, <1>3 DEF Register
  <1>4. CASE call.kind = "policy"
    BY <1>1, <1>4 DEF Register
  <1>5. CASE call.kind \notin {"enrol", "revoke", "policy"}
    BY <1>1, <1>5 DEF Register
  <1> QED
    BY <1>2, <1>3, <1>4, <1>5

LEMMA RecordIs ==
    ASSUME SftpTypeOK, Record
    PROVE  /\ sftpEntry' \in [there : BOOLEAN, created : BOOLEAN, slug : BOOLEAN, port : Ports]
           /\ sftpEntry'.there = sftpEntry.there
           /\ sftpEntry'.created => sftpEntry.created \/ call.created
  <1>1. /\ sftpEntry \in [there : BOOLEAN, created : BOOLEAN, slug : BOOLEAN, port : Ports]
        /\ call.port \in Ports /\ call.created \in BOOLEAN /\ First \in Ports
    BY CallFields, PortAssumption DEF SftpTypeOK
  <1>2. CASE call.kind = "setup" /\ ~sftpEntry.slug
    BY <1>1, <1>2 DEF Record
  <1>3. CASE call.kind = "legacy"
    BY <1>1, <1>3 DEF Record
  <1>4. CASE call.kind # "legacy" /\ ~(call.kind = "setup" /\ ~sftpEntry.slug)
    BY <1>1, <1>4 DEF Record
  <1> QED
    BY <1>2, <1>3, <1>4

\* The fields of a call that are not written to stay.
LEMMA CallsAre == Calls = [kind : CallKinds, step : CallSteps, pc : PCs \cup {"none"}, conf : Confs,
                           created : BOOLEAN, port : Ports]
  BY DEF Calls

Begun(k, d, o, s) == [NoCall EXCEPT !.kind = k, !.pc = d, !.conf = o, !.step = s]
Going(k, s) == [NoCall EXCEPT !.kind = k, !.step = s]
Stepped(c, s) == [c EXCEPT !.step = s]
Turned(c, k, s) == [c EXCEPT !.kind = k, !.step = s]
Placed(c, p, s) == [c EXCEPT !.port = p, !.step = s]
Sought(c, n, s, k) == [c EXCEPT !.created = n, !.step = s, !.kind = k]

LEMMA SteppedIs ==
    ASSUME NEW c \in Calls, NEW s \in CallSteps
    PROVE  /\ Stepped(c, s) \in Calls /\ Stepped(c, s).kind = c.kind /\ Stepped(c, s).step = s
           /\ Stepped(c, s).pc = c.pc /\ Stepped(c, s).conf = c.conf /\ Stepped(c, s).created = c.created
           /\ Stepped(c, s).port = c.port
  BY CallsAre DEF Stepped

LEMMA TurnedIs ==
    ASSUME NEW c \in Calls, NEW k \in CallKinds, NEW s \in CallSteps
    PROVE  /\ Turned(c, k, s) \in Calls /\ Turned(c, k, s).kind = k /\ Turned(c, k, s).step = s
           /\ Turned(c, k, s).pc = c.pc /\ Turned(c, k, s).conf = c.conf /\ Turned(c, k, s).created = c.created
           /\ Turned(c, k, s).port = c.port
  BY CallsAre DEF Turned

LEMMA PlacedIs ==
    ASSUME NEW c \in Calls, NEW p \in Ports, NEW s \in CallSteps
    PROVE  /\ Placed(c, p, s) \in Calls /\ Placed(c, p, s).kind = c.kind /\ Placed(c, p, s).step = s
           /\ Placed(c, p, s).pc = c.pc /\ Placed(c, p, s).conf = c.conf /\ Placed(c, p, s).created = c.created
           /\ Placed(c, p, s).port = p
  BY CallsAre DEF Placed

LEMMA SoughtIs ==
    ASSUME NEW c \in Calls, NEW n \in BOOLEAN, NEW s \in CallSteps, NEW k \in CallKinds
    PROVE  /\ Sought(c, n, s, k) \in Calls /\ Sought(c, n, s, k).kind = k /\ Sought(c, n, s, k).step = s
           /\ Sought(c, n, s, k).pc = c.pc /\ Sought(c, n, s, k).conf = c.conf /\ Sought(c, n, s, k).created = n
           /\ Sought(c, n, s, k).port = c.port
  BY CallsAre DEF Sought

LEMMA CallBegun ==
    ASSUME NEW k \in CallKinds, NEW s \in CallSteps, NEW d \in PCs \cup {"none"}, NEW o \in Confs
    PROVE  /\ Begun(k, d, o, s) \in Calls /\ Begun(k, d, o, s).kind = k /\ Begun(k, d, o, s).step = s
           /\ Begun(k, d, o, s).pc = d /\ Begun(k, d, o, s).conf = o /\ ~Begun(k, d, o, s).created
  BY PortAssumption, Nothing, CallsAre DEF NoCall, Begun

LEMMA CallGoing ==
    ASSUME NEW k \in CallKinds, NEW s \in CallSteps
    PROVE  /\ Going(k, s) \in Calls /\ Going(k, s).kind = k /\ Going(k, s).step = s
           /\ ~Going(k, s).created
  BY PortAssumption, Nothing, CallsAre DEF NoCall, Going

\* Nor do those of the app.
InState(a, t) == [a EXCEPT !.state = t]
AtVersion(a, v) == [a EXCEPT !.version = v]
WithConf(a, c) == [a EXCEPT !.conf = c]
WithOptions(a, c, p) == [a EXCEPT !.conf = c, !.port = p]
WithHost(a, h, t) == [a EXCEPT !.host = h, !.state = t]
ByHand(a, v, c) == [a EXCEPT !.version = v, !.conf = c]

LEMMA InStateIs ==
    ASSUME NEW a \in Apps, NEW t \in {"off", "starting", "serving"}
    PROVE  /\ InState(a, t) \in Apps /\ InState(a, t).version = a.version /\ InState(a, t).state = t
           /\ InState(a, t).port = a.port /\ InState(a, t).conf = a.conf /\ InState(a, t).host = a.host
  BY DEF Apps, InState

LEMMA AtVersionIs ==
    ASSUME NEW a \in Apps, NEW v \in Nat
    PROVE  /\ AtVersion(a, v) \in Apps /\ AtVersion(a, v).version = v /\ AtVersion(a, v).state = a.state
           /\ AtVersion(a, v).port = a.port /\ AtVersion(a, v).conf = a.conf /\ AtVersion(a, v).host = a.host
  BY DEF Apps, AtVersion

LEMMA WithConfIs ==
    ASSUME NEW a \in Apps, NEW c \in Confs
    PROVE  /\ WithConf(a, c) \in Apps /\ WithConf(a, c).version = a.version /\ WithConf(a, c).state = a.state
           /\ WithConf(a, c).port = a.port /\ WithConf(a, c).conf = c /\ WithConf(a, c).host = a.host
  BY DEF Apps, WithConf

LEMMA WithOptionsIs ==
    ASSUME NEW a \in Apps, NEW c \in Confs, NEW p \in Ports
    PROVE  /\ WithOptions(a, c, p) \in Apps /\ WithOptions(a, c, p).version = a.version /\ WithOptions(a, c, p).state = a.state
           /\ WithOptions(a, c, p).port = p /\ WithOptions(a, c, p).conf = c /\ WithOptions(a, c, p).host = a.host
  BY DEF Apps, WithOptions

LEMMA WithHostIs ==
    ASSUME NEW a \in Apps, NEW h \in Nat, NEW t \in {"off", "starting", "serving"}
    PROVE  /\ WithHost(a, h, t) \in Apps /\ WithHost(a, h, t).version = a.version /\ WithHost(a, h, t).state = t
           /\ WithHost(a, h, t).port = a.port /\ WithHost(a, h, t).conf = a.conf /\ WithHost(a, h, t).host = h
  BY DEF Apps, WithHost

LEMMA ByHandIs ==
    ASSUME NEW a \in Apps, NEW v \in Nat, NEW c \in Confs
    PROVE  /\ ByHand(a, v, c) \in Apps /\ ByHand(a, v, c).version = v /\ ByHand(a, v, c).state = a.state
           /\ ByHand(a, v, c).port = a.port /\ ByHand(a, v, c).conf = c /\ ByHand(a, v, c).host = a.host
  BY DEF Apps, ByHand

LEMMA NewApp ==
    NoApp \in Apps /\ NoApp.version = 0 /\ NoApp.state = "off" /\ NoApp.host = 0 /\ NoApp.port = First /\ NoApp.conf = Empty
  BY Nothing DEF NoApp

LEMMA PortsSame == UNCHANGED others => Used' = Used /\ Free' = Free /\ Lowest' = Lowest
  <1> SUFFICES ASSUME others' = others PROVE Used' = Used /\ Free' = Free /\ Lowest' = Lowest
    OBVIOUS
  <1>1. Used' = Used
    BY DEF Used
  <1>2. Free' = Free
    BY <1>1 DEF Free
  <1> QED
    BY <1>1, <1>2 DEF Lowest

\* A call begins.
LEMMA BeginInv ==
    ASSUME SftpInv, NEW k \in CallKinds \ {"none", "remove"}, NEW d \in PCs \cup {"none"}, NEW o \in Confs,
           k = "enrol" => d \in PCs, Begin(k, d, o)
    PROVE  SftpInv'
  <1>1. /\ SftpTypeOK /\ CallInv /\ ThereInv /\ PortInv /\ ConfInv /\ LeftInv /\ AppliedIsLive
        /\ NobodyElse => ToldInv
        /\ site.times["manual"] <= 1 => OwnerInv
    BY DEF SftpInv
  <1>2. UNCHANGED <<server, supervisor, notes, sftpBudget>> /\ last' = NoCall /\ call = NoCall /\ sftpEntry.there
    BY DEF Begin, Idle
  <1>3. /\ call' \in Calls /\ call'.kind = k /\ call'.pc = d /\ call'.conf = o /\ ~call'.created
        /\ call'.step = IF o = Empty THEN "stop" ELSE "repo"
    <2> DEFINE s == IF o = Empty THEN "stop" ELSE "repo"
    <2>1. s \in CallSteps /\ k \in CallKinds
      BY DEF CallSteps
    <2>2. call' = Begun(k, d, o, s)
      BY DEF Begin, Begun
    <2> HIDE DEF s
    <2>3. call' \in Calls /\ call'.kind = k /\ call'.pc = d /\ call'.conf = o /\ ~call'.created /\ call'.step = s
      BY <2>1, <2>2, CallBegun
    <2> QED
      BY <2>3 DEF s
  <1>4. SftpTypeOK'
    BY <1>1, <1>2, <1>3, Nothing DEF SftpTypeOK, server, supervisor, notes
  <1>5. CallInv'
    BY <1>1, <1>2, <1>3, Nothing DEF CallInv, AtStep, Idle, server, supervisor, notes
  <1>6. ThereInv' /\ PortInv' /\ ConfInv' /\ AppliedIsLive'
    BY <1>1, <1>2, <1>3, Nothing DEF ThereInv, PortInv, Chosen, ConfInv, AppliedIsLive, AtStep, Installed, Started, server, supervisor, notes
  <1>7. LeftInv' /\ (NobodyElse => ToldInv')
    BY <1>1, <1>2, <1>3, PortsSame DEF LeftInv, ToldInv, AtStep, Installed, server, supervisor, notes
  <1>8. site.times["manual"] <= 1 => OwnerInv'
    BY <1>1, <1>2, <1>3 DEF OwnerInv, server, supervisor, notes
  <1> QED
    BY <1>2, <1>4, <1>5, <1>6, <1>7, <1>8 DEF SftpInv, NobodyElse, supervisor

LEMMA RequestsInv == SftpInv /\ (Requests /\ ~Remove) => SftpInv'
  <1> SUFFICES ASSUME SftpInv, Requests, ~Remove PROVE SftpInv'
    OBVIOUS
  <1>1. sftpRegistry.pcs \in SUBSET PCs
    BY DEF SftpInv, SftpTypeOK
  <1>2. {"policy", "enrol", "revoke", "setup", "repair", "update", "legacy"} \subseteq CallKinds \ {"none", "remove"}
    BY DEF CallKinds
  <1>3. CASE ApplyPolicy
    BY <1>1, <1>2, <1>3, BeginInv, Nothing DEF ApplyPolicy
  <1>4. ASSUME NEW d \in PCs, Enrol(d) PROVE SftpInv'
    BY <1>1, <1>2, <1>4, BeginInv, Nothing DEF Enrol
  <1>5. ASSUME NEW d \in PCs, RevokeKey(d) PROVE SftpInv'
    BY <1>1, <1>2, <1>5, BeginInv, Nothing DEF RevokeKey
  <1>6. ASSUME NEW k \in {"setup", "repair", "update", "legacy"}, UsePassword(k) PROVE SftpInv'
    BY <1>2, <1>6, BeginInv, Nothing DEF UsePassword
  <1> QED
    BY <1>3, <1>4, <1>5, <1>6 DEF Requests, Setup

LEMMA RemoveInv == SftpInv /\ Remove => SftpInv'
  <1> SUFFICES ASSUME SftpInv, Remove PROVE SftpInv'
    OBVIOUS
  <1>1. /\ SftpTypeOK /\ CallInv /\ ThereInv /\ PortInv /\ ConfInv /\ LeftInv /\ AppliedIsLive
        /\ NobodyElse => ToldInv
        /\ site.times["manual"] <= 1 => OwnerInv
    BY DEF SftpInv
  <1>2. UNCHANGED <<server, supervisor, sftpRegistry, told, sftpBudget>> /\ last' = NoCall /\ call = NoCall /\ sftpEntry.there
    BY DEF Remove, Idle
  <1>3. /\ sftpEntry' \in [there : BOOLEAN, created : BOOLEAN, slug : BOOLEAN, port : Ports]
        /\ sftpEntry'.there = FALSE
    BY <1>1 DEF Remove, SftpTypeOK
  <1>4. /\ call' \in Calls /\ ~call'.created
        /\ \/ call' = NoCall
           \/ call'.kind = "remove" /\ call'.step = "stop" /\ sftpEntry.created
    <2>1. "remove" \in CallKinds /\ "stop" \in CallSteps
      BY DEF CallSteps, CallKinds
    <2>2. CASE sftpEntry.created /\ sftpEntry.slug
      <3>1. call' = Going("remove", "stop")
        BY <2>2 DEF Remove, Going
      <3> QED
        BY <2>1, <2>2, <3>1, CallGoing
    <2>3. CASE ~(sftpEntry.created /\ sftpEntry.slug)
      <3>1. call' = NoCall /\ ~NoCall.created
        BY <1>2, <2>3 DEF Remove, NoCall
      <3> QED
        BY <3>1, Nothing
    <2> QED
      BY <2>2, <2>3
  <1>5. SftpTypeOK'
    BY <1>1, <1>2, <1>3, <1>4, Nothing DEF SftpTypeOK, server, supervisor
  <1>6. CallInv'
    BY <1>1, <1>2, <1>3, <1>4, Nothing DEF CallInv, AtStep, Idle
  <1>7. ThereInv' /\ PortInv' /\ ConfInv' /\ AppliedIsLive'
    BY <1>1, <1>2, <1>4, Nothing DEF ThereInv, PortInv, Chosen, ConfInv, AppliedIsLive, AtStep, Installed, Started, server, supervisor
  <1>8. LeftInv' /\ (NobodyElse => ToldInv')
    BY <1>1, <1>2, <1>3, <1>4, Nothing DEF LeftInv, ToldInv, AtStep, Installed, server, supervisor
  <1>9. site.times["manual"] <= 1 => OwnerInv'
    BY <1>1, <1>2, <1>3, <1>4, Nothing DEF OwnerInv, server, supervisor
  <1> QED
    BY <1>2, <1>5, <1>6, <1>7, <1>8, <1>9 DEF SftpInv, NobodyElse, supervisor

\* A call is given up, by what fails or because Home Assistant dies; the app may
\* have been stopped.
GivenUp ==
    /\ call' \in Calls /\ last' = NoCall
    /\ \/ call' = NoCall
       \/ /\ call'.kind = "undo" /\ call'.step \in {"stop", "repo"} /\ ~call'.created
          /\ call'.step = "repo" => call'.conf # Empty
    /\ app' = app \/ (Installed /\ app' = InState(app, "off"))
    /\ repo' \in BOOLEAN
    /\ sftpBudget' \in [SftpMishaps -> Nat] /\ LeftInv' /\ sftpBudget'["manual"] = sftpBudget["manual"]
    /\ UNCHANGED <<sftpLive, nextHost, export, owner, listed, store, backups, others, site, notes>>

LEMMA GivenUpInv == SftpInv /\ GivenUp => SftpInv'
  <1> SUFFICES ASSUME SftpInv, GivenUp PROVE SftpInv'
    OBVIOUS
  <1>1. /\ SftpTypeOK /\ CallInv /\ ThereInv /\ PortInv /\ ConfInv /\ LeftInv /\ AppliedIsLive
        /\ NobodyElse => ToldInv
        /\ site.times["manual"] <= 1 => OwnerInv
    BY DEF SftpInv
  <1>2. /\ app' \in Apps /\ app'.version = app.version /\ app'.host = app.host /\ app'.port = app.port
        /\ app'.state = app.state \/ app'.state = "off"
    BY <1>1, InStateIs DEF GivenUp, SftpTypeOK
  <1>3. SftpTypeOK'
    BY <1>1, <1>2, Nothing DEF SftpTypeOK, GivenUp, notes
  <1>4. CallInv'
    BY <1>1, Nothing DEF CallInv, AtStep, Idle, GivenUp, notes
  <1>5. ThereInv' /\ PortInv' /\ ConfInv' /\ AppliedIsLive'
    BY <1>1, <1>2, Nothing DEF ThereInv, PortInv, Chosen, ConfInv, AppliedIsLive, AtStep, Installed, Started, GivenUp
  <1>6. NobodyElse => ToldInv'
    BY <1>1, <1>2, PortsSame, Nothing DEF ToldInv, AtStep, Installed, GivenUp, notes
  <1>7. site.times["manual"] <= 1 => OwnerInv'
    BY <1>1, Nothing DEF OwnerInv, GivenUp, notes
  <1>8. LeftInv' /\ UNCHANGED site
    BY DEF GivenUp
  <1> QED
    BY <1>3, <1>4, <1>5, <1>6, <1>7, <1>8 DEF SftpInv, NobodyElse

LEMMA FailsInv ==
    SftpInv /\ (AppDeadline \/ (WaitForRunning /\ ~Started) \/ (SelectPort /\ Free = {}) \/ CallFails \/ HomeAssistantStops) => SftpInv'
  <1> SUFFICES ASSUME SftpInv,
                      AppDeadline \/ (WaitForRunning /\ ~Started) \/ (SelectPort /\ Free = {}) \/ CallFails \/ HomeAssistantStops
               PROVE  GivenUp
    BY GivenUpInv
  <1>1. SftpTypeOK /\ LeftInv /\ ThereInv
    BY DEF SftpInv
  <1>2. sftpBudget \in [SftpMishaps -> Nat] /\ repo \in BOOLEAN
    BY <1>1 DEF SftpTypeOK
  <1>3. CASE UNCHANGED <<server, supervisor, sftpBudget>> /\ Failed
    BY <1>1, <1>2, <1>3, FailedIs DEF GivenUp, LeftInv, server, supervisor
  <1>4. CASE CallFails
    <2>1. /\ Failed /\ SpendSftp("fail") /\ (app' = app \/ (Installed /\ app' = InState(app, "off")))
          /\ repo' \in BOOLEAN /\ UNCHANGED <<sftpLive, nextHost, export, owner, listed, store, backups, others, site>>
      BY <1>1, <1>2, <1>4 DEF CallFails, ThereInv, AtStep, InState
    <2>2. sftpBudget' \in [SftpMishaps -> Nat] /\ LeftInv' /\ sftpBudget'["manual"] = sftpBudget["manual"]
      <3>1. "fail" \in SftpMishaps /\ "manual" \in SftpMishaps
        BY DEF SftpMishaps
      <3>2. UNCHANGED site
        BY <2>1
      <3> QED
        BY <1>1, <1>2, <2>1, <3>1, <3>2, SpendLeft DEF SpendSftp
    <2> QED
      BY <1>1, <2>1, <2>2, FailedIs DEF GivenUp
  <1>5. CASE HomeAssistantStops
    <2>1. sftpBudget' \in [SftpMishaps -> Nat] /\ LeftInv' /\ sftpBudget'["manual"] = sftpBudget["manual"]
      BY <1>1, <1>2, <1>5, SpendLeft DEF SpendSftp, SftpMishaps, HomeAssistantStops, supervisor
    <2> QED
      BY <1>2, <1>5, <2>1, Nothing DEF GivenUp, HomeAssistantStops, server, supervisor
  <1> QED
    BY <1>3, <1>4, <1>5 DEF AppDeadline, WaitForRunning, SelectPort, Free

\* While a call is in flight, none is the last to have succeeded.
LEMMA Working ==
    ASSUME CallInv, call.step # "none"
    PROVE  call # NoCall /\ call.kind # "none" /\ last.kind = "none"
  BY Nothing DEF CallInv, Idle

\* Steps that only move the call on.
LEMMA EnsureRepositoryInv == SftpInv /\ EnsureRepository => SftpInv'
  <1> SUFFICES ASSUME SftpInv, EnsureRepository PROVE SftpInv'
    OBVIOUS
  <1>1. /\ SftpTypeOK /\ CallInv /\ ThereInv /\ PortInv /\ ConfInv /\ LeftInv /\ AppliedIsLive
        /\ NobodyElse => ToldInv
        /\ site.times["manual"] <= 1 => OwnerInv
    BY DEF SftpInv
  <1>2. /\ UNCHANGED <<server, listed, store, backups, others, site, notes, last, sftpBudget>> /\ repo' = TRUE
        /\ call.step = "repo" /\ last.kind = "none" /\ call.kind # "none" /\ call # NoCall
    BY <1>1, Working DEF EnsureRepository, AtStep
  <1>3. /\ call' \in Calls /\ call'.kind = call.kind /\ call'.step = "find" /\ call'.pc = call.pc /\ call'.conf = call.conf
        /\ call'.created = call.created /\ call'.port = call.port
    <2>1. call' = Stepped(call, "find") /\ call \in Calls /\ "find" \in CallSteps
      BY <1>1, CallFields DEF EnsureRepository, Goto, Stepped, SftpTypeOK
    <2> QED
      BY <2>1, SteppedIs
  <1>4. SftpTypeOK'
    BY <1>1, <1>2, <1>3, Nothing DEF SftpTypeOK, server, supervisor, notes
  <1>5. CallInv'
    BY <1>1, <1>2, <1>3, Nothing DEF CallInv, AtStep, Idle, server, supervisor, notes
  <1>6. ThereInv'
    BY <1>1, <1>2, <1>3, Nothing DEF ThereInv, AtStep, Installed, server, supervisor, notes
  <1>7. PortInv' /\ ConfInv' /\ AppliedIsLive'
    BY <1>1, <1>2, <1>3, Nothing, PortsSame DEF PortInv, Chosen, ConfInv, AppliedIsLive, AtStep, Started, server, supervisor, notes
  <1>8. LeftInv' /\ (NobodyElse => ToldInv')
    BY <1>1, <1>2, <1>3, PortsSame DEF LeftInv, ToldInv, AtStep, Installed, server, supervisor, notes
  <1>9. site.times["manual"] <= 1 => OwnerInv'
    BY <1>1, <1>2, <1>3 DEF OwnerInv, server, supervisor, notes
  <1> QED
    BY <1>2, <1>4, <1>5, <1>6, <1>7, <1>8, <1>9 DEF SftpInv, NobodyElse, supervisor

\* The app is found: whether it is there is noted.
LEMMA WaitForAppInv == SftpInv /\ WaitForApp => SftpInv'
  <1> SUFFICES ASSUME SftpInv, WaitForApp PROVE SftpInv'
    OBVIOUS
  <1>1. /\ SftpTypeOK /\ CallInv /\ ThereInv /\ PortInv /\ ConfInv /\ LeftInv /\ AppliedIsLive
        /\ NobodyElse => ToldInv
        /\ site.times["manual"] <= 1 => OwnerInv
    BY DEF SftpInv
  <1>2. /\ UNCHANGED <<server, supervisor, notes, last, sftpBudget>>
        /\ call.step = "find" /\ last.kind = "none" /\ call.kind # "none" /\ call # NoCall
    BY <1>1, Working DEF WaitForApp, AtStep
  <1>3. /\ call' \in Calls /\ call'.pc = call.pc /\ call'.conf = call.conf
        /\ call'.kind = call.kind \/ (call'.kind = "repair" /\ call.kind = "update")
        /\ (call'.created <=> ~Installed)
        /\ \/ call'.step = "port"
           \/ call'.step = "repo"
           \/ call'.step = "backup" /\ call'.kind = "update" /\ Installed
    <2> DEFINE k == IF call.kind = "update" /\ app.version \notin 1..(store - 1) THEN "repair" ELSE call.kind
               n == ~Installed
               t == IF call.kind # "update" THEN "port" ELSE IF app.version \in 1..(store - 1) THEN "backup" ELSE "repo"
    <2>1. call' = Sought(call, n, t, k) /\ call \in Calls
      BY <1>1 DEF WaitForApp, Sought, SftpTypeOK
    <2>2. k \in CallKinds /\ t \in CallSteps /\ n \in BOOLEAN
      <3>1. call.kind \in CallKinds
        BY <2>1, CallsAre
      <3>2. "repair" \in CallKinds /\ {"port", "backup", "repo"} \subseteq CallSteps
        BY DEF CallKinds, CallSteps
      <3> QED
        BY <3>1, <3>2
    <2>3. t = "backup" => k = "update" /\ Installed
      BY <1>1 DEF Installed, SftpTypeOK, Apps
    <2>4. (t = "port" \/ t = "repo" \/ t = "backup") /\ (k = call.kind \/ (k = "repair" /\ call.kind = "update"))
      OBVIOUS
    <2>5. n <=> ~Installed
      OBVIOUS
    <2> HIDE DEF k, n, t
    <2> QED
      BY <2>1, <2>2, <2>3, <2>4, <2>5, SoughtIs
  <1>4. SftpTypeOK'
    BY <1>1, <1>2, <1>3, Nothing DEF SftpTypeOK, server, supervisor, notes
  <1>5. CallInv'
    BY <1>1, <1>2, <1>3, Nothing DEF CallInv, AtStep, Idle, server, supervisor, notes
  <1>6. ThereInv'
    BY <1>1, <1>2, <1>3, Nothing DEF ThereInv, AtStep, Installed, server, supervisor, notes
  <1>7. PortInv' /\ ConfInv' /\ AppliedIsLive'
    BY <1>1, <1>2, <1>3, Nothing, PortsSame DEF PortInv, Chosen, ConfInv, AppliedIsLive, AtStep, Started, server, supervisor, notes
  <1>8. LeftInv' /\ (NobodyElse => ToldInv')
    BY <1>1, <1>2, <1>3, PortsSame DEF LeftInv, ToldInv, AtStep, Installed, server, supervisor, notes
  <1>9. site.times["manual"] <= 1 => OwnerInv'
    BY <1>1, <1>2, <1>3 DEF OwnerInv, server, supervisor, notes
  <1> QED
    BY <1>2, <1>4, <1>5, <1>6, <1>7, <1>8, <1>9 DEF SftpInv, NobodyElse, supervisor

\* The lowest free port is chosen.
LEMMA SelectPortInv == SftpInv /\ (SelectPort /\ Free # {}) => SftpInv'
  <1> SUFFICES ASSUME SftpInv, (SelectPort /\ Free # {}) PROVE SftpInv'
    OBVIOUS
  <1>1. /\ SftpTypeOK /\ CallInv /\ ThereInv /\ PortInv /\ ConfInv /\ LeftInv /\ AppliedIsLive
        /\ NobodyElse => ToldInv
        /\ site.times["manual"] <= 1 => OwnerInv
    BY DEF SftpInv
  <1>2. /\ UNCHANGED <<server, supervisor, notes, last, sftpBudget>>
        /\ call.step = "port" /\ last.kind = "none" /\ call.kind # "none" /\ call # NoCall
    BY <1>1, Working DEF SelectPort, AtStep, Free
  <1>3. /\ call' \in Calls /\ call'.kind = call.kind /\ call'.pc = call.pc /\ call'.conf = call.conf
        /\ call'.created = call.created /\ call'.port = Lowest /\ Lowest \in Free
        /\ \/ call'.step = "install" /\ call.created
           \/ call'.step \in {"backup", "options"} /\ ~call.created
    <2> DEFINE t == IF call.created THEN "install" ELSE IF app.version < store THEN "backup" ELSE "options"
    <2>1. call' = Placed(call, Lowest, t) /\ call \in Calls
      BY <1>1 DEF SelectPort, Placed, SftpTypeOK, Lowest, Free
    <2>2. t \in CallSteps /\ Lowest \in Ports /\ Lowest \in Free
      BY LowestIs DEF CallSteps
    <2>3. (t = "install" /\ call.created) \/ (t \in {"backup", "options"} /\ ~call.created)
      OBVIOUS
    <2> HIDE DEF t
    <2> QED
      BY <2>1, <2>2, <2>3, PlacedIs
  <1>4. SftpTypeOK'
    BY <1>1, <1>2, <1>3, Nothing DEF SftpTypeOK, server, supervisor, notes
  <1>5. CallInv'
    BY <1>1, <1>2, <1>3, Nothing DEF CallInv, AtStep, Idle, server, supervisor, notes
  <1>6. ThereInv'
    BY <1>1, <1>2, <1>3, Nothing DEF ThereInv, AtStep, Installed, server, supervisor, notes
  <1>7. PortInv' /\ ConfInv' /\ AppliedIsLive'
    BY <1>1, <1>2, <1>3, Nothing, PortsSame DEF PortInv, Chosen, ConfInv, AppliedIsLive, AtStep, Started, server, supervisor, notes
  <1>8. LeftInv' /\ (NobodyElse => ToldInv')
    BY <1>1, <1>2, <1>3, PortsSame DEF LeftInv, ToldInv, AtStep, Installed, server, supervisor, notes
  <1>9. site.times["manual"] <= 1 => OwnerInv'
    BY <1>1, <1>2, <1>3 DEF OwnerInv, server, supervisor, notes
  <1> QED
    BY <1>2, <1>4, <1>5, <1>6, <1>7, <1>8, <1>9 DEF SftpInv, NobodyElse, supervisor

\* A new app.
LEMMA InstallInv == SftpInv /\ Install => SftpInv'
  <1> SUFFICES ASSUME SftpInv, Install PROVE SftpInv'
    OBVIOUS
  <1>1. /\ SftpTypeOK /\ CallInv /\ ThereInv /\ PortInv /\ ConfInv /\ LeftInv /\ AppliedIsLive
        /\ NobodyElse => ToldInv
        /\ site.times["manual"] <= 1 => OwnerInv
    BY DEF SftpInv
  <1>2. /\ UNCHANGED <<sftpLive, nextHost, export, supervisor, notes, last, sftpBudget>>
        /\ call.step = "install" /\ last.kind = "none" /\ call.kind # "none" /\ call # NoCall
        /\ owner' = "jns"
    BY <1>1, Working DEF Install, AtStep
  <1>3. /\ call' \in Calls /\ call'.kind = call.kind /\ call'.pc = call.pc /\ call'.conf = call.conf
        /\ (call'.created <=> call.created) /\ call'.port = call.port /\ call'.step = "options"
        /\ app' \in Apps /\ app'.version # 0 /\ app'.state = "off" /\ app'.host = 0
    <2>1. call' = Stepped(call, "options") /\ call \in Calls /\ "options" \in CallSteps
      BY <1>1, CallFields DEF Install, Goto, Stepped, SftpTypeOK
    <2>2. app' = AtVersion(NoApp, store) /\ store \in Nat \ {0}
      BY <1>1 DEF Install, AtVersion, SftpTypeOK
    <2> QED
      BY <2>1, <2>2, SteppedIs, AtVersionIs, NewApp
  <1>4. SftpTypeOK'
    BY <1>1, <1>2, <1>3, Nothing DEF SftpTypeOK, server, supervisor, notes
  <1>5. CallInv'
    BY <1>1, <1>2, <1>3, Nothing DEF CallInv, AtStep, Idle, server, supervisor, notes
  <1>6. ThereInv'
    BY <1>1, <1>2, <1>3, Nothing DEF ThereInv, AtStep, Installed, server, supervisor, notes
  <1>7. PortInv' /\ ConfInv' /\ AppliedIsLive'
    BY <1>1, <1>2, <1>3, Nothing, PortsSame DEF PortInv, Chosen, ConfInv, AppliedIsLive, AtStep, Started, server, supervisor, notes
  <1>8. LeftInv' /\ (NobodyElse => ToldInv')
    BY <1>1, <1>2, <1>3, PortsSame DEF ThereInv, LeftInv, ToldInv, AtStep, Installed, server, supervisor, notes
  <1>9. site.times["manual"] <= 1 => OwnerInv'
    BY <1>1, <1>2, <1>3 DEF OwnerInv, server, supervisor, notes
  <1> QED
    BY <1>2, <1>4, <1>5, <1>6, <1>7, <1>8, <1>9 DEF SftpInv, NobodyElse, supervisor

\* A backup of the version that is there.
LEMMA BackupInv == SftpInv /\ Backup => SftpInv'
  <1> SUFFICES ASSUME SftpInv, Backup PROVE SftpInv'
    OBVIOUS
  <1>1. /\ SftpTypeOK /\ CallInv /\ ThereInv /\ PortInv /\ ConfInv /\ LeftInv /\ AppliedIsLive
        /\ NobodyElse => ToldInv
        /\ site.times["manual"] <= 1 => OwnerInv
    BY DEF SftpInv
  <1>2. /\ UNCHANGED <<server, repo, listed, store, others, site, notes, last, sftpBudget>>
        /\ call.step = "backup" /\ last.kind = "none" /\ call.kind # "none" /\ call # NoCall
        /\ backups' = backups \cup {app.version}
    BY <1>1, Working DEF Backup, AtStep
  <1>3. /\ call' \in Calls /\ call'.kind = call.kind /\ call'.pc = call.pc /\ call'.conf = call.conf
        /\ (call'.created <=> call.created) /\ call'.port = call.port /\ call'.step = "renew"
        /\ app.version \in Nat
    <2>1. call' = Stepped(call, "renew") /\ call \in Calls /\ "renew" \in CallSteps
      BY <1>1, CallFields DEF Backup, Goto, Stepped, SftpTypeOK
    <2>2. app.version \in Nat
      BY <1>1 DEF SftpTypeOK, Apps
    <2> QED
      BY <2>1, <2>2, SteppedIs
  <1>4. SftpTypeOK'
    BY <1>1, <1>2, <1>3, Nothing DEF SftpTypeOK, server, supervisor, notes
  <1>5. CallInv'
    BY <1>1, <1>2, <1>3, Nothing DEF CallInv, AtStep, Idle, server, supervisor, notes
  <1>6. ThereInv'
    BY <1>1, <1>2, <1>3, Nothing DEF ThereInv, AtStep, Installed, server, supervisor, notes
  <1>7. PortInv' /\ ConfInv' /\ AppliedIsLive'
    BY <1>1, <1>2, <1>3, Nothing, PortsSame DEF PortInv, Chosen, ConfInv, AppliedIsLive, AtStep, Started, server, supervisor, notes
  <1>8. LeftInv' /\ (NobodyElse => ToldInv')
    BY <1>1, <1>2, <1>3, PortsSame DEF LeftInv, ToldInv, AtStep, Installed, server, supervisor, notes
  <1>9. site.times["manual"] <= 1 => OwnerInv'
    BY <1>1, <1>2, <1>3 DEF OwnerInv, server, supervisor, notes
  <1> QED
    BY <1>2, <1>4, <1>5, <1>6, <1>7, <1>8, <1>9 DEF SftpInv, NobodyElse, supervisor

\* The app is updated, and restarted if it ran.
LEMMA RenewInv == SftpInv /\ Renew => SftpInv'
  <1> SUFFICES ASSUME SftpInv, Renew PROVE SftpInv'
    OBVIOUS
  <1>1. /\ SftpTypeOK /\ CallInv /\ ThereInv /\ PortInv /\ ConfInv /\ LeftInv /\ AppliedIsLive
        /\ NobodyElse => ToldInv
        /\ site.times["manual"] <= 1 => OwnerInv
    BY DEF SftpInv
  <1>2. /\ UNCHANGED <<nextHost, export, owner, supervisor, notes, last, sftpBudget>>
        /\ call.step = "renew" /\ last.kind = "none" /\ call.kind # "none" /\ call # NoCall
    BY <1>1, Working DEF Renew, AtStep
  <1>3. /\ call' \in Calls /\ call'.pc = call.pc /\ call'.conf = call.conf
        /\ (call'.created <=> call.created) /\ call'.port = call.port
        /\ \/ call.kind # "update" /\ call'.kind = call.kind /\ call'.step = "options"
           \/ call.kind = "update" /\ call'.kind = "repair" /\ call'.step = "repo"
        /\ app' \in Apps /\ app'.version # 0 /\ app'.port = app.port /\ app'.host = app.host
        /\ sftpLive' \in [port : Ports, conf : Confs]
    <2>1. call \in Calls /\ "options" \in CallSteps /\ "repo" \in CallSteps /\ "repair" \in CallKinds
      BY <1>1 DEF SftpTypeOK, CallSteps, CallKinds
    <2>2. \/ call.kind # "update" /\ call' = Stepped(call, "options")
          \/ call.kind = "update" /\ call' = Turned(call, "repair", "repo")
      BY DEF Renew, Stepped, Turned
    <2>3. /\ \/ app' = AtVersion(app, store) /\ sftpLive' = sftpLive
             \/ /\ app' = InState(AtVersion(app, store), "starting")
                /\ sftpLive' = [port |-> AtVersion(app, store).port, conf |-> AtVersion(app, store).conf]
          /\ store \in Nat \ {0} /\ app \in Apps
      BY <1>1 DEF Renew, AtVersion, InState, Launched, SftpTypeOK
    <2>4. AtVersion(app, store).port \in Ports /\ AtVersion(app, store).conf \in Confs
      BY <2>3, AtVersionIs DEF Apps
    <2>5. sftpLive' \in [port : Ports, conf : Confs]
      BY <1>1, <2>3, <2>4 DEF SftpTypeOK
    <2>6. app' \in Apps /\ app'.version = store /\ app'.port = app.port /\ app'.host = app.host
      BY <2>3, AtVersionIs, InStateIs
    <2> QED
      BY <2>1, <2>2, <2>3, <2>5, <2>6, SteppedIs, TurnedIs
  <1>4. SftpTypeOK'
    BY <1>1, <1>2, <1>3, Nothing DEF SftpTypeOK, server, supervisor, notes
  <1>5. CallInv'
    BY <1>1, <1>2, <1>3, Nothing DEF CallInv, AtStep, Idle, server, supervisor, notes
  <1>6. ThereInv'
    BY <1>1, <1>2, <1>3, Nothing DEF ThereInv, AtStep, Installed, server, supervisor, notes
  <1>7. PortInv' /\ ConfInv' /\ AppliedIsLive'
    BY <1>1, <1>2, <1>3, Nothing, PortsSame DEF PortInv, Chosen, ConfInv, AppliedIsLive, AtStep, Started, server, supervisor, notes
  <1>8. LeftInv' /\ (NobodyElse => ToldInv')
    BY <1>1, <1>2, <1>3, PortsSame DEF LeftInv, ToldInv, AtStep, Installed, server, supervisor, notes
  <1>9. site.times["manual"] <= 1 => OwnerInv'
    BY <1>1, <1>2, <1>3 DEF OwnerInv, server, supervisor, notes
  <1> QED
    BY <1>2, <1>4, <1>5, <1>6, <1>7, <1>8, <1>9 DEF SftpInv, NobodyElse, supervisor

\* The options and the port of the call become those of the app.
LEMMA ApplyOptionsInv == SftpInv /\ ApplyOptions => SftpInv'
  <1> SUFFICES ASSUME SftpInv, ApplyOptions PROVE SftpInv'
    OBVIOUS
  <1>1. /\ SftpTypeOK /\ CallInv /\ ThereInv /\ PortInv /\ ConfInv /\ LeftInv /\ AppliedIsLive
        /\ NobodyElse => ToldInv
        /\ site.times["manual"] <= 1 => OwnerInv
    BY DEF SftpInv
  <1>2. /\ UNCHANGED <<sftpLive, nextHost, export, owner, supervisor, notes, last, sftpBudget>>
        /\ call.step = "options" /\ last.kind = "none" /\ call.kind # "none" /\ call # NoCall
    BY <1>1, Working DEF ApplyOptions, AtStep
  <1>3. /\ call' \in Calls /\ call'.kind = call.kind /\ call'.pc = call.pc /\ call'.conf = call.conf
        /\ (call'.created <=> call.created) /\ call'.port = call.port /\ call'.step = "start"
        /\ app' \in Apps /\ app'.version = app.version /\ app'.state = app.state /\ app'.host = app.host
        /\ app'.port = call.port /\ app'.conf = call.conf
    <2>1. call' = Stepped(call, "start") /\ call \in Calls /\ "start" \in CallSteps
      BY <1>1, CallFields DEF ApplyOptions, Goto, Stepped, SftpTypeOK
    <2>2. app' = WithOptions(app, call.conf, call.port) /\ app \in Apps /\ call.conf \in Confs /\ call.port \in Ports
      BY <1>1, CallFields DEF ApplyOptions, WithOptions, SftpTypeOK
    <2> QED
      BY <2>1, <2>2, SteppedIs, WithOptionsIs
  <1>4. SftpTypeOK'
    BY <1>1, <1>2, <1>3, Nothing DEF SftpTypeOK, server, supervisor, notes
  <1>5. CallInv'
    BY <1>1, <1>2, <1>3, Nothing DEF CallInv, AtStep, Idle, server, supervisor, notes
  <1>6. ThereInv'
    BY <1>1, <1>2, <1>3, Nothing DEF ThereInv, AtStep, Installed, server, supervisor, notes
  <1>7. PortInv' /\ ConfInv' /\ AppliedIsLive'
    BY <1>1, <1>2, <1>3, Nothing, PortsSame DEF PortInv, Chosen, ConfInv, AppliedIsLive, AtStep, Started, server, supervisor, notes
  <1>8. LeftInv' /\ (NobodyElse => ToldInv')
    BY <1>1, <1>2, <1>3, PortsSame DEF PortInv, Chosen, LeftInv, ToldInv, AtStep, Installed, server, supervisor, notes
  <1>9. site.times["manual"] <= 1 => OwnerInv'
    BY <1>1, <1>2, <1>3 DEF OwnerInv, server, supervisor, notes
  <1> QED
    BY <1>2, <1>4, <1>5, <1>6, <1>7, <1>8, <1>9 DEF SftpInv, NobodyElse, supervisor

\* The app is started, or restarted, with its options.
LEMMA StartServerInv == SftpInv /\ StartServer => SftpInv'
  <1> SUFFICES ASSUME SftpInv, StartServer PROVE SftpInv'
    OBVIOUS
  <1>1. /\ SftpTypeOK /\ CallInv /\ ThereInv /\ PortInv /\ ConfInv /\ LeftInv /\ AppliedIsLive
        /\ NobodyElse => ToldInv
        /\ site.times["manual"] <= 1 => OwnerInv
    BY DEF SftpInv
  <1>0. app.port \notin Used
    BY <1>1 DEF StartServer, AtStep, ConfInv, PortInv, Chosen, Free
  <1>2. /\ UNCHANGED <<nextHost, export, owner, supervisor, notes, last, sftpBudget>>
        /\ call.step = "start" /\ last.kind = "none" /\ call.kind # "none" /\ call # NoCall
    BY <1>0, <1>1, Working DEF StartServer, AtStep
  <1>3. /\ call' \in Calls /\ call'.kind = call.kind /\ call'.pc = call.pc /\ call'.conf = call.conf
        /\ (call'.created <=> call.created) /\ call'.port = call.port /\ call'.step = "wait"
        /\ app' \in Apps /\ app'.version = app.version /\ app'.host = app.host
        /\ app'.port = app.port /\ app'.conf = app.conf
        /\ sftpLive' \in [port : Ports, conf : Confs] /\ sftpLive'.port = app.port /\ sftpLive'.conf = app.conf
    <2>1. call' = Stepped(call, "wait") /\ call \in Calls /\ "wait" \in CallSteps
      BY <1>0, <1>1, CallFields DEF StartServer, Goto, Stepped, SftpTypeOK
    <2>2. app' = InState(app, "starting") /\ sftpLive' = [port |-> app.port, conf |-> app.conf] /\ app \in Apps
      BY <1>0, <1>1 DEF StartServer, InState, Launched, SftpTypeOK
    <2>3. app.port \in Ports /\ app.conf \in Confs
      BY <2>2 DEF Apps
    <2> QED
      BY <2>1, <2>2, <2>3, SteppedIs, InStateIs
  <1>4. SftpTypeOK'
    BY <1>1, <1>2, <1>3, Nothing DEF SftpTypeOK, server, supervisor, notes
  <1>5. CallInv'
    BY <1>1, <1>2, <1>3, Nothing DEF CallInv, AtStep, Idle, server, supervisor, notes
  <1>6. ThereInv'
    BY <1>1, <1>2, <1>3, Nothing DEF ThereInv, AtStep, Installed, server, supervisor, notes
  <1>7. PortInv' /\ ConfInv' /\ AppliedIsLive'
    BY <1>1, <1>2, <1>3, Nothing, PortsSame DEF PortInv, Chosen, ConfInv, AppliedIsLive, AtStep, Started, server, supervisor, notes
  <1>8. LeftInv' /\ (NobodyElse => ToldInv')
    BY <1>1, <1>2, <1>3, PortsSame DEF LeftInv, ToldInv, AtStep, Installed, server, supervisor, notes
  <1>9. site.times["manual"] <= 1 => OwnerInv'
    BY <1>1, <1>2, <1>3 DEF OwnerInv, server, supervisor, notes
  <1> QED
    BY <1>2, <1>4, <1>5, <1>6, <1>7, <1>8, <1>9 DEF SftpInv, NobodyElse, supervisor

\* The app runs: what was done is recorded and registered.
LEMMA SucceedInv == SftpInv /\ (WaitForRunning /\ Started) => SftpInv'
  <1> SUFFICES ASSUME SftpInv, (WaitForRunning /\ Started) PROVE SftpInv'
    OBVIOUS
  <1>1. /\ SftpTypeOK /\ CallInv /\ ThereInv /\ PortInv /\ ConfInv /\ LeftInv /\ AppliedIsLive
        /\ NobodyElse => ToldInv
        /\ site.times["manual"] <= 1 => OwnerInv
    BY DEF SftpInv
  <1>2. /\ UNCHANGED <<server, supervisor, told, sftpBudget>>
        /\ call.step = "wait" /\ last.kind = "none" /\ call.kind # "none" /\ call # NoCall /\ Started /\ Installed /\ call.conf # Empty
    BY <1>1, Working DEF WaitForRunning, Succeed, AtStep, CallInv, ThereInv
  <1>3. /\ sftpEntry' \in [there : BOOLEAN, created : BOOLEAN, slug : BOOLEAN, port : Ports]
        /\ sftpEntry'.there = sftpEntry.there
        /\ sftpEntry'.created => sftpEntry.created \/ owner = "jns"
        /\ sftpRegistry' \in [pcs : SUBSET PCs, port : Ports]
        /\ \/ call' = NoCall /\ last' = call
           \/ /\ call' \in Calls /\ call'.kind = call.kind /\ call'.step = "identity" /\ call'.pc = call.pc
              /\ call'.conf = call.conf /\ (call'.created <=> call.created) /\ call'.port = call.port
              /\ sftpRegistry'.port = call.port /\ last' = last
        /\ call \in Calls
    <2>1. call \in Calls /\ "identity" \in CallSteps /\ Record /\ Register(call.port) /\ call.port \in Ports
      BY <1>1, <1>2, CallFields DEF WaitForRunning, Succeed, SftpTypeOK
    <2>2. \/ call.kind = "enrol" /\ call' = Stepped(call, "identity") /\ last' = last
          \/ call' = NoCall /\ last' = call
      BY <1>2 DEF WaitForRunning, Succeed, Goto, Stepped
    <2>3. call.created => owner = "jns"
      BY <1>1, <1>2 DEF ThereInv
    <2>4. /\ sftpEntry' \in [there : BOOLEAN, created : BOOLEAN, slug : BOOLEAN, port : Ports]
          /\ sftpEntry'.there = sftpEntry.there /\ (sftpEntry'.created => sftpEntry.created \/ call.created)
      BY <1>1, <2>1, RecordIs
    <2>5. sftpRegistry' \in [pcs : SUBSET PCs, port : Ports] /\ (call.kind = "enrol" => sftpRegistry'.port = call.port)
      BY <1>1, <2>1, RegisterIs
    <2> QED
      BY <2>1, <2>2, <2>3, <2>4, <2>5, SteppedIs
  <1>4. SftpTypeOK'
    BY <1>1, <1>2, <1>3, Nothing DEF SftpTypeOK, server, supervisor, notes
  <1>5. CallInv'
    BY <1>1, <1>2, <1>3, Nothing DEF CallInv, AtStep, Idle, server, supervisor, notes
  <1>6. ThereInv'
    BY <1>1, <1>2, <1>3, Nothing DEF ThereInv, AtStep, Installed, server, supervisor, notes
  <1>7. PortInv' /\ ConfInv' /\ AppliedIsLive'
    BY <1>1, <1>2, <1>3, Nothing, PortsSame DEF PortInv, Chosen, ConfInv, AppliedIsLive, AtStep, Started, server, supervisor, notes
  <1>8. LeftInv' /\ (NobodyElse => ToldInv')
    BY <1>1, <1>2, <1>3, Nothing, PortsSame DEF ConfInv, PortInv, Chosen, LeftInv, ToldInv, AtStep, Installed, server, supervisor, notes
  <1>9. site.times["manual"] <= 1 => OwnerInv'
    BY <1>1, <1>2, <1>3, Nothing DEF OwnerInv, server, supervisor, notes
  <1> QED
    BY <1>2, <1>4, <1>5, <1>6, <1>7, <1>8, <1>9 DEF SftpInv, NobodyElse, supervisor

\* The PC is told.
LEMMA AnswerInv == SftpInv /\ Answer => SftpInv'
  <1> SUFFICES ASSUME SftpInv, Answer PROVE SftpInv'
    OBVIOUS
  <1>1. /\ SftpTypeOK /\ CallInv /\ ThereInv /\ PortInv /\ ConfInv /\ LeftInv /\ AppliedIsLive
        /\ NobodyElse => ToldInv
        /\ site.times["manual"] <= 1 => OwnerInv
    BY DEF SftpInv
  <1>2. /\ UNCHANGED <<server, supervisor, sftpEntry, sftpRegistry, sftpBudget>>
        /\ call.step = "identity" /\ last.kind = "none" /\ call.kind # "none" /\ call # NoCall /\ Installed /\ call.conf # Empty
        /\ call' = NoCall /\ last' = call
    BY <1>1, Working DEF Answer, AtStep, CallInv, ThereInv
  <1>3. /\ told' \in [PCs -> [port : {0} \cup Ports, host : Nat]]
        /\ \A d \in PCs : told'[d] = told[d] \/ (told'[d].port = sftpRegistry.port /\ told'[d].host = export)
        /\ call \in Calls
    <2> DEFINE new == [port |-> sftpRegistry.port, host |-> export]
    <2>1. told \in [PCs -> [port : {0} \cup Ports, host : Nat]] /\ call \in Calls
          /\ sftpRegistry.port \in Ports /\ export \in Nat
      BY <1>1 DEF SftpTypeOK
    <2>2. told' = [told EXCEPT ![call.pc] = new]
      BY DEF Answer
    <2>3. new \in [port : {0} \cup Ports, host : Nat] /\ new.port = sftpRegistry.port /\ new.host = export
      BY <2>1
    <2> HIDE DEF new
    <2>4. told' \in [PCs -> [port : {0} \cup Ports, host : Nat]] /\ \A d \in PCs : told'[d] = told[d] \/ told'[d] = new
      BY <2>1, <2>2, <2>3
    <2>5. \A d \in PCs : told'[d] = told[d] \/ (told'[d].port = sftpRegistry.port /\ told'[d].host = export)
      BY <2>3, <2>4
    <2>6. told' \in [PCs -> [port : {0} \cup Ports, host : Nat]] /\ call \in Calls
      BY <2>1, <2>4
    <2> QED
      BY <2>5, <2>6
  <1>4. SftpTypeOK'
    BY <1>1, <1>2, <1>3, Nothing DEF SftpTypeOK, server, supervisor, notes
  <1>5. CallInv'
    BY <1>1, <1>2, <1>3, Nothing DEF CallInv, AtStep, Idle, server, supervisor, notes
  <1>6. ThereInv'
    BY <1>1, <1>2, <1>3, Nothing DEF ThereInv, AtStep, Installed, server, supervisor, notes
  <1>7. PortInv' /\ ConfInv' /\ AppliedIsLive'
    BY <1>1, <1>2, <1>3, Nothing, PortsSame DEF PortInv, Chosen, ConfInv, AppliedIsLive, AtStep, Started, server, supervisor, notes
  <1>8. LeftInv' /\ (NobodyElse => ToldInv')
    BY <1>1, <1>2, <1>3, Nothing, PortsSame DEF LeftInv, ToldInv, AtStep, Installed, server, supervisor, notes
  <1>9. site.times["manual"] <= 1 => OwnerInv'
    BY <1>1, <1>2, <1>3, Nothing DEF OwnerInv, server, supervisor, notes
  <1> QED
    BY <1>2, <1>4, <1>5, <1>6, <1>7, <1>8, <1>9 DEF SftpInv, NobodyElse, supervisor

\* The transport is disabled, or an app is about to be removed.
LEMMA DisableInv == SftpInv /\ Disable => SftpInv'
  <1> SUFFICES ASSUME SftpInv, Disable PROVE SftpInv'
    OBVIOUS
  <1>1. /\ SftpTypeOK /\ CallInv /\ ThereInv /\ PortInv /\ ConfInv /\ LeftInv /\ AppliedIsLive
        /\ NobodyElse => ToldInv
        /\ site.times["manual"] <= 1 => OwnerInv
    BY DEF SftpInv
  <1>2. /\ UNCHANGED <<sftpLive, nextHost, export, owner, supervisor, sftpEntry, told, sftpBudget>>
        /\ call.step = "stop" /\ last.kind = "none" /\ call.kind # "none" /\ call # NoCall
    BY <1>1, Working DEF Disable, AtStep, notes
  <1>3. /\ sftpRegistry' \in [pcs : SUBSET PCs, port : Ports]
        /\ \/ call' = NoCall /\ last' = call /\ app' = app /\ ~Installed
           \/ /\ call' \in Calls /\ call'.kind = call.kind /\ call'.step = "halt" /\ call'.pc = call.pc
              /\ call'.conf = call.conf /\ (call'.created <=> call.created) /\ call'.port = call.port
              /\ last' = last /\ Installed
        /\ call \in Calls
        /\ app' \in Apps /\ app'.version = app.version /\ app'.state = app.state /\ app'.port = app.port
        /\ app'.host = app.host
    <2>1. call \in Calls /\ "halt" \in CallSteps /\ app \in Apps /\ sftpRegistry.port \in Ports
          /\ sftpRegistry \in [pcs : SUBSET PCs, port : Ports] /\ Empty \in Confs
      BY <1>1, CallFields, Nothing DEF SftpTypeOK
    <2>2. CASE ~Installed
      <3>1. Register(sftpRegistry.port) /\ call' = NoCall /\ last' = call /\ app' = app
        BY <2>2 DEF Disable
      <3> QED
        BY <1>1, <2>1, <2>2, <3>1, RegisterIs
    <2>3. CASE Installed
      <3>1. /\ call' = Stepped(call, "halt") /\ last' = last /\ sftpRegistry' = sftpRegistry
            /\ app' = app \/ app' = WithConf(app, Empty)
        BY <2>3 DEF Disable, Goto, Stepped, WithConf, notes
      <3> QED
        BY <2>1, <2>3, <3>1, SteppedIs, WithConfIs
    <2> QED
      BY <2>2, <2>3
  <1>4. SftpTypeOK'
    BY <1>1, <1>2, <1>3, Nothing DEF SftpTypeOK, server, supervisor, notes
  <1>5. CallInv'
    BY <1>1, <1>2, <1>3, Nothing DEF CallInv, AtStep, Idle, server, supervisor, notes
  <1>6. ThereInv'
    BY <1>1, <1>2, <1>3, Nothing DEF ThereInv, AtStep, Installed, server, supervisor, notes
  <1>7. PortInv' /\ ConfInv' /\ AppliedIsLive'
    BY <1>1, <1>2, <1>3, Nothing, PortsSame DEF ThereInv, Installed, PortInv, Chosen, ConfInv, AppliedIsLive, AtStep, Started, server, supervisor, notes
  <1>8. LeftInv' /\ (NobodyElse => ToldInv')
    BY <1>1, <1>2, <1>3, Nothing, PortsSame DEF LeftInv, ToldInv, AtStep, Installed, server, supervisor, notes
  <1>9. site.times["manual"] <= 1 => OwnerInv'
    BY <1>1, <1>2, <1>3, Nothing DEF OwnerInv, server, supervisor, notes
  <1> QED
    BY <1>2, <1>4, <1>5, <1>6, <1>7, <1>8, <1>9 DEF SftpInv, NobodyElse, supervisor

\* The app is stopped.
LEMMA HaltInv == SftpInv /\ Halt => SftpInv'
  <1> SUFFICES ASSUME SftpInv, Halt PROVE SftpInv'
    OBVIOUS
  <1>1. /\ SftpTypeOK /\ CallInv /\ ThereInv /\ PortInv /\ ConfInv /\ LeftInv /\ AppliedIsLive
        /\ NobodyElse => ToldInv
        /\ site.times["manual"] <= 1 => OwnerInv
    BY DEF SftpInv
  <1>2. /\ UNCHANGED <<sftpLive, nextHost, export, owner, supervisor, sftpEntry, told, sftpBudget>>
        /\ call.step = "halt" /\ last.kind = "none" /\ call.kind # "none" /\ call # NoCall /\ Installed
    BY <1>1, Working DEF Halt, AtStep, notes, ThereInv
  <1>3. /\ sftpRegistry' \in [pcs : SUBSET PCs, port : Ports]
        /\ \/ call' = NoCall /\ last' = call
           \/ /\ call' \in Calls /\ call'.kind = call.kind /\ call'.step = "erase" /\ call'.pc = call.pc
              /\ call'.conf = call.conf /\ (call'.created <=> call.created) /\ call'.port = call.port
              /\ last' = last /\ call.kind = "remove"
        /\ call \in Calls
        /\ app' \in Apps /\ app'.version = app.version /\ app'.state = "off" /\ app'.port = app.port
        /\ app'.host = app.host
    <2>1. call \in Calls /\ "erase" \in CallSteps /\ app \in Apps /\ app.port \in Ports
          /\ sftpRegistry \in [pcs : SUBSET PCs, port : Ports]
      BY <1>1, CallFields DEF SftpTypeOK, Apps
    <2>2. app' = InState(app, "off")
      BY DEF Halt, InState
    <2>3. CASE call.kind = "remove"
      <3>1. call' = Stepped(call, "erase") /\ last' = last /\ sftpRegistry' = sftpRegistry
        BY <2>3 DEF Halt, Goto, Stepped, notes
      <3> QED
        BY <2>1, <2>2, <2>3, <3>1, SteppedIs, InStateIs
    <2>4. CASE call.kind # "remove"
      <3>1. Register(app.port) /\ call' = NoCall /\ last' = call
        BY <2>4 DEF Halt
      <3> QED
        BY <1>1, <2>1, <2>2, <3>1, RegisterIs, InStateIs
    <2> QED
      BY <2>3, <2>4
  <1>4. SftpTypeOK'
    BY <1>1, <1>2, <1>3, Nothing DEF SftpTypeOK, server, supervisor, notes
  <1>5. CallInv'
    BY <1>1, <1>2, <1>3, Nothing DEF CallInv, AtStep, Idle, server, supervisor, notes
  <1>6. ThereInv'
    BY <1>1, <1>2, <1>3, Nothing DEF ThereInv, AtStep, Installed, server, supervisor, notes
  <1>7. PortInv' /\ ConfInv' /\ AppliedIsLive'
    BY <1>1, <1>2, <1>3, Nothing, PortsSame DEF PortInv, Chosen, ConfInv, AppliedIsLive, AtStep, Started, server, supervisor, notes
  <1>8. LeftInv' /\ (NobodyElse => ToldInv')
    BY <1>1, <1>2, <1>3, Nothing, PortsSame DEF LeftInv, ToldInv, AtStep, Installed, server, supervisor, notes
  <1>9. site.times["manual"] <= 1 => OwnerInv'
    BY <1>1, <1>2, <1>3, Nothing DEF OwnerInv, server, supervisor, notes
  <1> QED
    BY <1>2, <1>4, <1>5, <1>6, <1>7, <1>8, <1>9 DEF SftpInv, NobodyElse, supervisor

\* The app is removed.
LEMMA UninstallInv == SftpInv /\ Uninstall => SftpInv'
  <1> SUFFICES ASSUME SftpInv, Uninstall PROVE SftpInv'
    OBVIOUS
  <1>1. /\ SftpTypeOK /\ CallInv /\ ThereInv /\ PortInv /\ ConfInv /\ LeftInv /\ AppliedIsLive
        /\ NobodyElse => ToldInv
        /\ site.times["manual"] <= 1 => OwnerInv
    BY DEF SftpInv
  <1>2. /\ UNCHANGED <<sftpLive, nextHost, export, supervisor, notes, sftpBudget>>
        /\ call.step = "erase" /\ last.kind = "none" /\ call.kind # "none" /\ call # NoCall /\ call.kind = "remove" /\ ~sftpEntry.there
        /\ call' = NoCall /\ last' = call /\ app' = NoApp /\ owner' = "none"
    BY <1>1, Working DEF Uninstall, AtStep, CallInv
  <1>3. call \in Calls /\ app' \in Apps /\ app'.version = 0 /\ app'.state = "off" /\ app'.host = 0
    BY <1>1, <1>2, NewApp DEF SftpTypeOK
  <1>4. SftpTypeOK'
    BY <1>1, <1>2, <1>3, Nothing DEF SftpTypeOK, server, supervisor, notes
  <1>5. CallInv'
    BY <1>1, <1>2, <1>3, Nothing DEF CallInv, AtStep, Idle, server, supervisor, notes
  <1>6. ThereInv'
    BY <1>1, <1>2, <1>3, Nothing DEF ThereInv, AtStep, Installed, server, supervisor, notes
  <1>7. PortInv' /\ ConfInv' /\ AppliedIsLive'
    BY <1>1, <1>2, <1>3, Nothing, PortsSame DEF PortInv, Chosen, ConfInv, AppliedIsLive, AtStep, Started, server, supervisor, notes
  <1>8. LeftInv' /\ (NobodyElse => ToldInv')
    BY <1>1, <1>2, <1>3, Nothing, PortsSame DEF LeftInv, ToldInv, AtStep, Installed, server, supervisor, notes
  <1>9. site.times["manual"] <= 1 => OwnerInv'
    BY <1>1, <1>2, <1>3, Nothing DEF OwnerInv, server, supervisor, notes
  <1> QED
    BY <1>2, <1>4, <1>5, <1>6, <1>7, <1>8, <1>9 DEF SftpInv, NobodyElse, supervisor

\* The container serves, under its host key, or exits for want of a credential.
LEMMA SshdInv == SftpInv /\ Sshd => SftpInv'
  <1> SUFFICES ASSUME SftpInv, Sshd PROVE SftpInv'
    OBVIOUS
  <1>1. /\ SftpTypeOK /\ CallInv /\ ThereInv /\ PortInv /\ ConfInv /\ LeftInv /\ AppliedIsLive
        /\ NobodyElse => ToldInv
        /\ site.times["manual"] <= 1 => OwnerInv
    BY DEF SftpInv
  <1>2. UNCHANGED <<sftpLive, owner, supervisor, notes, call, last, sftpBudget>> /\ Started /\ Installed
    BY <1>1 DEF Sshd, Started, ThereInv
  <1>3. /\ app' \in Apps /\ app'.version = app.version /\ app'.port = app.port /\ app'.conf = app.conf
        /\ export' = app'.host /\ (app.host # 0 => app'.host = app.host)
        /\ export' \in Nat /\ nextHost' \in Nat \ {0}
    <2>1. app \in Apps /\ app.host \in Nat /\ nextHost \in Nat \ {0}
      BY <1>1 DEF SftpTypeOK, Apps
    <2>2. PICK h \in Nat, t \in {"off", "starting", "serving"} :
            /\ app' = WithHost(app, h, t) /\ export' = h /\ (app.host # 0 => h = app.host)
            /\ nextHost' = nextHost + 1 \/ nextHost' = nextHost
      <3>1. /\ app' = WithHost(app, IF app.host = 0 THEN nextHost ELSE app.host, IF sftpLive.conf = Empty THEN "off" ELSE "serving")
            /\ export' = IF app.host = 0 THEN nextHost ELSE app.host
            /\ nextHost' = nextHost + 1 \/ nextHost' = nextHost
        BY DEF Sshd, WithHost
      <3> QED
        BY <2>1, <3>1
    <2>3. /\ app' \in Apps /\ app'.version = app.version /\ app'.port = app.port /\ app'.conf = app.conf
          /\ app'.host = h
      <3>1. app \in Apps
        BY <2>1
      <3>2. app' = WithHost(app, h, t)
        BY <2>2
      <3> QED
        BY <3>1, <3>2, WithHostIs
    <2>4. nextHost' \in Nat \ {0}
      BY <2>1, <2>2
    <2> QED
      BY <2>2, <2>3, <2>4
  <1>4. SftpTypeOK'
    BY <1>1, <1>2, <1>3, Nothing DEF SftpTypeOK, server, supervisor, notes
  <1>5. CallInv'
    BY <1>1, <1>2, <1>3, Nothing DEF CallInv, AtStep, Idle, server, supervisor, notes
  <1>6. ThereInv'
    BY <1>1, <1>2, <1>3, Nothing DEF ThereInv, AtStep, Installed, server, supervisor, notes
  <1>7. PortInv' /\ ConfInv' /\ AppliedIsLive'
    BY <1>1, <1>2, <1>3, Nothing, PortsSame DEF PortInv, Chosen, ConfInv, AppliedIsLive, AtStep, Started, server, supervisor, notes
  <1>8. LeftInv' /\ (NobodyElse => ToldInv')
    BY <1>1, <1>2, <1>3, Nothing, PortsSame DEF LeftInv, ToldInv, AtStep, Installed, server, supervisor, notes
  <1>9. site.times["manual"] <= 1 => OwnerInv'
    BY <1>1, <1>2, <1>3, Nothing DEF OwnerInv, server, supervisor, notes
  <1> QED
    BY <1>2, <1>4, <1>5, <1>6, <1>7, <1>8, <1>9 DEF SftpInv, NobodyElse, supervisor

\* The container exits.
LEMMA SshdExitsInv == SftpInv /\ SshdExits => SftpInv'
  <1> SUFFICES ASSUME SftpInv, SshdExits PROVE SftpInv'
    OBVIOUS
  <1>1. /\ SftpTypeOK /\ CallInv /\ ThereInv /\ PortInv /\ ConfInv /\ LeftInv /\ AppliedIsLive
        /\ NobodyElse => ToldInv
        /\ site.times["manual"] <= 1 => OwnerInv
    BY DEF SftpInv
  <1>2. UNCHANGED <<sftpLive, nextHost, export, owner, supervisor, notes, call, last>> /\ Started /\ Installed
    BY <1>1 DEF SshdExits, Started, ThereInv
  <1>3. /\ app' \in Apps /\ app'.version = app.version /\ app'.state = "off" /\ app'.port = app.port /\ app'.conf = app.conf
        /\ app'.host = app.host
        /\ sftpBudget' \in [SftpMishaps -> Nat] /\ LeftInv' /\ sftpBudget'["manual"] = sftpBudget["manual"]
    <2>1. "exit" \in SftpMishaps /\ "manual" \in SftpMishaps /\ SpendSftp("exit") /\ UNCHANGED site
      BY <1>2 DEF SftpMishaps, SshdExits, supervisor
    <2>2. sftpBudget' \in [SftpMishaps -> Nat] /\ LeftInv'
      BY <1>1, <2>1, SpendLeft DEF SpendSftp
    <2>3. sftpBudget'["manual"] = sftpBudget["manual"]
      BY <1>1, <2>1 DEF SpendSftp, SftpTypeOK
    <2>4. app' = InState(app, "off") /\ app \in Apps
      BY <1>1 DEF SshdExits, InState, SftpTypeOK
    <2> QED
      BY <2>2, <2>3, <2>4, InStateIs
  <1>4. SftpTypeOK'
    BY <1>1, <1>2, <1>3, Nothing DEF SftpTypeOK, server, supervisor, notes
  <1>5. CallInv'
    BY <1>1, <1>2, <1>3, Nothing DEF CallInv, AtStep, Idle, server, supervisor, notes
  <1>6. ThereInv'
    BY <1>1, <1>2, <1>3, Nothing DEF ThereInv, AtStep, Installed, server, supervisor, notes
  <1>7. PortInv' /\ ConfInv' /\ AppliedIsLive'
    BY <1>1, <1>2, <1>3, Nothing, PortsSame DEF PortInv, Chosen, ConfInv, AppliedIsLive, AtStep, Started, server, supervisor, notes
  <1>8. LeftInv' /\ (NobodyElse => ToldInv')
    BY <1>1, <1>2, <1>3, Nothing, PortsSame DEF LeftInv, ToldInv, AtStep, Installed, server, supervisor, notes
  <1>9. site.times["manual"] <= 1 => OwnerInv'
    BY <1>1, <1>2, <1>3, Nothing DEF OwnerInv, server, supervisor, notes
  <1> QED
    BY <1>2, <1>4, <1>5, <1>6, <1>7, <1>8, <1>9 DEF SftpInv, NobodyElse, supervisor

\* The store lists the app, or a new version of it.
LEMMA StoreInv == SftpInv /\ (List \/ Release) => SftpInv'
  <1> SUFFICES ASSUME SftpInv, (List \/ Release) PROVE SftpInv'
    OBVIOUS
  <1>1. /\ SftpTypeOK /\ CallInv /\ ThereInv /\ PortInv /\ ConfInv /\ LeftInv /\ AppliedIsLive
        /\ NobodyElse => ToldInv
        /\ site.times["manual"] <= 1 => OwnerInv
    BY DEF SftpInv
  <1>2. UNCHANGED <<server, repo, backups, others, site, notes, call, last>>
    BY DEF List, Release
  <1>3. /\ listed' \in BOOLEAN /\ store' \in Nat \ {0}
        /\ sftpBudget' \in [SftpMishaps -> Nat] /\ LeftInv' /\ sftpBudget'["manual"] = sftpBudget["manual"]
    <2>1. CASE List
      BY <1>1, <2>1 DEF List, SftpTypeOK, LeftInv
    <2>2. CASE Release
      <3>1. "release" \in SftpMishaps /\ "manual" \in SftpMishaps /\ SpendSftp("release") /\ UNCHANGED site
        BY <1>2, <2>2 DEF SftpMishaps, Release
      <3>2. sftpBudget' \in [SftpMishaps -> Nat] /\ LeftInv'
        BY <1>1, <3>1, SpendLeft
      <3>3. sftpBudget'["manual"] = sftpBudget["manual"]
        BY <1>1, <3>1 DEF SpendSftp, SftpTypeOK
      <3> QED
        BY <1>1, <2>2, <3>2, <3>3 DEF Release, SftpTypeOK
    <2> QED
      BY <2>1, <2>2
  <1>4. SftpTypeOK'
    BY <1>1, <1>2, <1>3, Nothing DEF SftpTypeOK, server, supervisor, notes
  <1>5. CallInv'
    BY <1>1, <1>2, <1>3, Nothing DEF CallInv, AtStep, Idle, server, supervisor, notes
  <1>6. ThereInv'
    BY <1>1, <1>2, <1>3, Nothing DEF ThereInv, AtStep, Installed, server, supervisor, notes
  <1>7. PortInv' /\ ConfInv' /\ AppliedIsLive'
    BY <1>1, <1>2, <1>3, Nothing, PortsSame DEF PortInv, Chosen, ConfInv, AppliedIsLive, AtStep, Started, server, supervisor, notes
  <1>8. LeftInv' /\ (NobodyElse => ToldInv')
    BY <1>1, <1>2, <1>3, Nothing, PortsSame DEF LeftInv, ToldInv, AtStep, Installed, server, supervisor, notes
  <1>9. site.times["manual"] <= 1 => OwnerInv'
    BY <1>1, <1>2, <1>3, Nothing DEF OwnerInv, server, supervisor, notes
  <1> QED
    BY <1>2, <1>4, <1>5, <1>6, <1>7, <1>8, <1>9 DEF SftpInv, NobodyElse, supervisor

\* Another app comes or goes, between two calls.
LEMMA OtherAppInv == SftpInv /\ (\E o \in Others : OtherApp(o)) => SftpInv'
  <1> SUFFICES ASSUME SftpInv, (\E o \in Others : OtherApp(o)) PROVE SftpInv'
    OBVIOUS
  <1>1. /\ SftpTypeOK /\ CallInv /\ ThereInv /\ PortInv /\ ConfInv /\ LeftInv /\ AppliedIsLive
        /\ NobodyElse => ToldInv
        /\ site.times["manual"] <= 1 => OwnerInv
    BY DEF SftpInv
  <1>2. /\ UNCHANGED <<server, repo, listed, store, backups, site, notes, call, last>>
        /\ call = NoCall
    BY DEF OtherApp, Idle
  <1>3. /\ others' \in [Others -> {0} \cup Ports]
        /\ sftpBudget' \in [SftpMishaps -> Nat] /\ LeftInv' /\ sftpBudget'["manual"] = sftpBudget["manual"]
        /\ sftpBudget["gateway"] # 0 /\ site.times["gateway"] # 0
    <2>1. "gateway" \in SftpMishaps /\ "manual" \in SftpMishaps /\ SpendSftp("gateway") /\ UNCHANGED site
      BY <1>2 DEF SftpMishaps, OtherApp
    <2>2. sftpBudget' \in [SftpMishaps -> Nat] /\ LeftInv'
      BY <1>1, <2>1, SpendLeft
    <2>3. sftpBudget'["manual"] = sftpBudget["manual"] /\ sftpBudget["gateway"] > 0 /\ sftpBudget \in [SftpMishaps -> Nat]
      BY <1>1, <2>1 DEF SpendSftp, SftpTypeOK
    <2>4. site.times["gateway"] # 0
      BY <1>1, <2>1, <2>3, SiteAssumption DEF LeftInv, SftpTypeOK
    <2>5. others' \in [Others -> {0} \cup Ports]
      <3>1. PICK o \in Others, p \in {0} \cup Ports : others' = [others EXCEPT ![o] = p]
        BY DEF OtherApp
      <3> QED
        BY <1>1, <3>1 DEF SftpTypeOK
    <2> QED
      BY <2>2, <2>3, <2>4, <2>5
  <1>4. SftpTypeOK'
    BY <1>1, <1>2, <1>3, Nothing DEF SftpTypeOK, server, supervisor, notes
  <1>5. CallInv'
    BY <1>1, <1>2, <1>3, Nothing DEF CallInv, AtStep, Idle, server, supervisor, notes
  <1>6. ThereInv'
    BY <1>1, <1>2, <1>3, Nothing DEF ThereInv, AtStep, Installed, server, supervisor, notes
  <1>7. PortInv' /\ ConfInv' /\ AppliedIsLive'
    BY <1>1, <1>2, Nothing DEF PortInv, Chosen, ConfInv, AppliedIsLive, AtStep, Started, server, supervisor, notes
  <1>8. LeftInv' /\ (NobodyElse => ToldInv')
    BY <1>1, <1>2, <1>3, Nothing, PortsSame DEF NobodyElse, LeftInv, ToldInv, AtStep, Installed, server, supervisor, notes
  <1>9. site.times["manual"] <= 1 => OwnerInv'
    BY <1>1, <1>2, <1>3, Nothing DEF OwnerInv, server, supervisor, notes
  <1> QED
    BY <1>2, <1>4, <1>5, <1>6, <1>7, <1>8, <1>9 DEF SftpInv, NobodyElse, supervisor

\* The administrator removes the app, or installs it, between two calls.
LEMMA AdministratorInv == SftpInv /\ Administrator => SftpInv'
  <1> SUFFICES ASSUME SftpInv, Administrator PROVE SftpInv'
    OBVIOUS
  <1>1. /\ SftpTypeOK /\ CallInv /\ ThereInv /\ PortInv /\ ConfInv /\ LeftInv /\ AppliedIsLive
        /\ NobodyElse => ToldInv
        /\ site.times["manual"] <= 1 => OwnerInv
    BY DEF SftpInv
  <1>2. /\ UNCHANGED <<sftpLive, nextHost, export, store, backups, others, site, notes, call>>
        /\ call = NoCall /\ last' = NoCall /\ repo' \in BOOLEAN /\ listed' \in BOOLEAN
    BY <1>1 DEF Administrator, Idle, SftpTypeOK
  <1>3. /\ app' \in Apps /\ app'.state = "off" /\ app'.host = 0
        /\ \/ Installed /\ app'.version = 0 /\ owner' = "none"
           \/ ~Installed /\ app'.version # 0 /\ owner' = "administrator"
        /\ sftpBudget' \in [SftpMishaps -> Nat] /\ LeftInv'
        /\ sftpBudget["manual"] # 0 /\ site.times["manual"] # 0
        /\ site.times["manual"] <= 1 => sftpBudget'["manual"] = 0
    <2>1. "manual" \in SftpMishaps /\ SpendSftp("manual") /\ UNCHANGED site
      BY <1>2 DEF SftpMishaps, Administrator
    <2>2. sftpBudget' \in [SftpMishaps -> Nat] /\ LeftInv'
      BY <1>1, <2>1, SpendLeft
    <2>3. /\ sftpBudget'["manual"] = sftpBudget["manual"] - 1 /\ sftpBudget["manual"] > 0
          /\ sftpBudget["manual"] \in Nat
      BY <1>1, <2>1 DEF SpendSftp, SftpTypeOK
    <2>4. sftpBudget["manual"] <= site.times["manual"] /\ site.times["manual"] \in Nat
      BY <1>1, <2>1, SiteAssumption DEF LeftInv, SftpTypeOK
    <2>5. CASE Installed
      <3>1. app' = NoApp /\ owner' = "none"
        BY <2>5 DEF Administrator
      <3> QED
        BY <2>2, <2>3, <2>4, <2>5, <3>1, NewApp
    <2>6. CASE ~Installed
      <3>1. app' = ByHand(NoApp, store, Password) /\ owner' = "administrator" /\ store \in Nat \ {0}
        BY <1>1, <2>6 DEF Administrator, ByHand, SftpTypeOK
      <3>2. app' \in Apps /\ app'.version = store /\ app'.state = "off" /\ app'.host = 0
        BY <3>1, NewApp, ByHandIs, Nothing
      <3> QED
        BY <2>2, <2>3, <2>4, <2>6, <3>1, <3>2
    <2> QED
      BY <2>5, <2>6
  <1>4. SftpTypeOK'
    BY <1>1, <1>2, <1>3, Nothing DEF SftpTypeOK, server, supervisor, notes
  <1>5. CallInv'
    BY <1>1, <1>2, <1>3, Nothing DEF CallInv, AtStep, Idle, server, supervisor, notes
  <1>6. ThereInv'
    BY <1>1, <1>2, <1>3, Nothing DEF ThereInv, AtStep, Installed, server, supervisor, notes
  <1>7. PortInv' /\ ConfInv' /\ AppliedIsLive'
    BY <1>1, <1>2, <1>3, Nothing, PortsSame DEF PortInv, Chosen, ConfInv, AppliedIsLive, AtStep, Started, server, supervisor, notes
  <1>8. LeftInv' /\ (NobodyElse => ToldInv')
    BY <1>1, <1>2, <1>3, Nothing, PortsSame DEF NobodyElse, LeftInv, ToldInv, AtStep, Installed, server, supervisor, notes
  <1>9. site.times["manual"] <= 1 => OwnerInv'
    BY <1>1, <1>2, <1>3, Nothing DEF ThereInv, Installed, OwnerInv, server, supervisor, notes
  <1> QED
    BY <1>2, <1>4, <1>5, <1>6, <1>7, <1>8, <1>9 DEF SftpInv, NobodyElse, supervisor

LEMMA SftpInitInv == SftpInit => SftpInv
  <1> SUFFICES ASSUME SftpInit PROVE SftpInv
    OBVIOUS
  <1>1. /\ site \in Sites /\ site.times \in [SftpMishaps -> Nat] /\ sftpBudget = site.times
        /\ call = NoCall /\ last = NoCall /\ app = NoApp /\ owner = "none" /\ export = 0
        /\ sftpEntry = [there |-> TRUE, created |-> FALSE, slug |-> FALSE, port |-> First]
        /\ told = [d \in PCs |-> [port |-> 0, host |-> 0]]
    BY SiteAssumption DEF SftpInit
  <1>2. /\ call.kind = "none" /\ call.step = "none" /\ last.kind = "none" /\ app.version = 0 /\ app.state = "off" /\ app.host = 0
    BY <1>1, Nothing, NewApp
  <1>3. SftpTypeOK
    <2>1. /\ app \in Apps /\ call \in Calls /\ last \in Calls /\ Empty \in Confs /\ First \in Ports
      BY <1>1, Nothing, PortAssumption
    <2>2. others \in [Others -> {0} \cup Ports]
      BY <2>1 DEF SftpInit
    <2>3. told \in [PCs -> [port : {0} \cup Ports, host : Nat]] /\ sftpLive \in [port : Ports, conf : Confs]
      BY <1>1, <2>1 DEF SftpInit
    <2>4. /\ sftpEntry \in [there : BOOLEAN, created : BOOLEAN, slug : BOOLEAN, port : Ports]
          /\ sftpRegistry \in [pcs : SUBSET PCs, port : Ports]
      BY <1>1, <2>1 DEF SftpInit
    <2>5. store \in Nat \ {0} /\ nextHost \in Nat \ {0} /\ export \in Nat /\ backups \subseteq Nat
      BY DEF SftpInit
    <2>6. repo \in BOOLEAN /\ listed \in BOOLEAN
      BY Zenon DEF SftpInit
    <2>7. owner \in {"none", "jns", "administrator"} /\ sftpBudget \in [SftpMishaps -> Nat]
      BY <1>1
    <2> QED
      BY <1>1, <2>1, <2>2, <2>3, <2>4, <2>5, <2>6, <2>7 DEF SftpTypeOK
  <1>4. CallInv /\ ThereInv /\ PortInv /\ ConfInv /\ AppliedIsLive
    BY <1>1, <1>2 DEF CallInv, ThereInv, PortInv, Chosen, ConfInv, AppliedIsLive, AtStep, Idle, Installed, Started
  <1>5. LeftInv
    BY <1>1 DEF LeftInv
  <1>6. ToldInv
    BY <1>1, <1>2 DEF ToldInv, AtStep
  <1>7. OwnerInv
    BY <1>1, <1>2 DEF OwnerInv
  <1> QED
    BY <1>3, <1>4, <1>5, <1>6, <1>7 DEF SftpInv

LEMMA SftpNextInv == SftpInv /\ [SftpNext]_sftpVars => SftpInv'
  <1> SUFFICES ASSUME SftpInv, [SftpNext]_sftpVars PROVE SftpInv'
    OBVIOUS
  <1>1. CASE Requests
    BY <1>1, RequestsInv, RemoveInv
  <1>2. CASE Work
    <2>1. CASE AppDeadline \/ SelectPort \/ WaitForRunning
      BY <2>1, FailsInv, SelectPortInv, SucceedInv
    <2>2. CASE EnsureRepository \/ WaitForApp \/ Install \/ Backup \/ Renew \/ ApplyOptions \/ StartServer
      BY <2>2, EnsureRepositoryInv, WaitForAppInv, InstallInv, BackupInv, RenewInv, ApplyOptionsInv, StartServerInv
    <2>3. CASE Answer \/ Disable \/ Halt \/ Uninstall
      BY <2>3, AnswerInv, DisableInv, HaltInv, UninstallInv
    <2> QED
      BY <1>2, <2>1, <2>2, <2>3 DEF Work
  <1>3. CASE World
    <2>1. CASE CallFails \/ HomeAssistantStops
      BY <2>1, FailsInv
    <2>2. CASE Sshd \/ SshdExits \/ List \/ Release \/ Administrator \/ \E o \in Others : OtherApp(o)
      BY <2>2, SshdInv, SshdExitsInv, StoreInv, AdministratorInv, OtherAppInv
    <2> QED
      BY <1>3, <2>1, <2>2 DEF World
  <1>4. CASE UNCHANGED sftpVars
    <2>1. UNCHANGED <<repo, listed, store, app, sftpLive, nextHost, export, others, backups, sftpEntry, sftpRegistry,
                      told, call, last, owner, site, sftpBudget>>
      BY <1>4 DEF sftpVars, server, supervisor, notes
    <2>2. SftpTypeOK' /\ CallInv' /\ ThereInv'
      BY <2>1 DEF SftpInv, SftpTypeOK, CallInv, ThereInv, AtStep, Idle, Installed
    <2>3. PortInv' /\ ConfInv' /\ LeftInv' /\ AppliedIsLive'
      BY <2>1, PortsSame DEF SftpInv, PortInv, Chosen, ConfInv, LeftInv, AppliedIsLive, AtStep, Started
    <2>4. (NobodyElse => ToldInv)' /\ (site.times["manual"] <= 1 => OwnerInv)'
      BY <2>1, PortsSame DEF SftpInv, NobodyElse, ToldInv, OwnerInv, AtStep, Installed
    <2> QED
      BY <2>2, <2>3, <2>4 DEF SftpInv
  <1> QED
    BY <1>1, <1>2, <1>3, <1>4 DEF SftpNext

\* The calls that drive the app keep to the invariant.
THEOREM SftpInvariance == SftpSpec => []SftpInv
  BY SftpInitInv, SftpNextInv, PTL DEF SftpSpec

LEMMA WhereTold == SftpInv => AppIsWhereTold
  <1> SUFFICES ASSUME SftpInv PROVE AppIsWhereTold
    OBVIOUS
  <1>1. SftpTypeOK /\ AppliedIsLive
    BY DEF SftpInv
  <1>2. StartsOnFreePort
    BY DEF SftpInv, StartsOnFreePort, ConfInv, PortInv, Chosen, AtStep, Free
  <1>3. ASSUME NobodyElse PROVE ToldIsServed
    <2>1. \A d \in sftpRegistry.pcs : d \in PCs
      BY <1>1 DEF SftpTypeOK
    <2> QED
      BY <1>3, <2>1 DEF SftpInv, ToldInv, ToldIsServed
  <1> QED
    BY <1>1, <1>2, <1>3 DEF AppIsWhereTold

\* The app is where it was told: a call that succeeded is what the server accepts
\* from then on, it starts on a free port, and where no other app comes or goes and
\* nobody reinstalls it, an enrolled PC finds it on the port and under the host key
\* it was told: for any PCs, ports, apps, releases and mishaps.
THEOREM WhereItWasTold == SftpSpec => []AppIsWhereTold
  BY SftpInvariance, WhereTold, PTL

\* Only an update changes the version of an app that is there.
LEMMA OnlyUpdates ==
    ASSUME SftpInv, SftpNext
    PROVE  app'.version = app.version \/ app'.version = 0 \/ ~Installed \/ call.step = "renew"
  <1>1. app \in Apps /\ (call.step = "install" => ~Installed)
    BY DEF SftpInv, SftpTypeOK, ThereInv, AtStep
  <1>2. CASE UNCHANGED server
    BY <1>2 DEF server
  <1>3. CASE Install \/ Renew
    BY <1>1, <1>3 DEF Install, Renew, AtStep
  <1>4. CASE ApplyOptions
    <2>1. app' = WithOptions(app, call.conf, call.port) /\ call.conf \in Confs /\ call.port \in Ports
      BY <1>4, CallFields DEF ApplyOptions, WithOptions, SftpInv, SftpTypeOK
    <2> QED
      BY <1>1, <2>1, WithOptionsIs
  <1>5. CASE StartServer \/ Halt \/ CallFails \/ SshdExits
    <2>1. app' = app \/ app' = InState(app, "off") \/ app' = InState(app, "starting")
      BY <1>5 DEF StartServer, Halt, CallFails, SshdExits, Launched, InState
    <2> QED
      BY <1>1, <2>1, InStateIs
  <1>6. CASE Disable
    <2>1. app' = app \/ app' = WithConf(app, Empty)
      BY <1>6 DEF Disable, WithConf
    <2> QED
      BY <1>1, <2>1, WithConfIs, Nothing
  <1>7. CASE Uninstall
    BY <1>7, NewApp DEF Uninstall
  <1>8. CASE Sshd
    <2>1. PICK h, t : app' = WithHost(app, h, t)
      BY <1>8 DEF Sshd, WithHost
    <2> QED
      BY <1>1, <2>1 DEF WithHost, Apps
  <1>9. CASE Administrator
    BY <1>9, NewApp DEF Administrator
  <1>10. CASE Requests
    BY <1>2, <1>10 DEF Requests, ApplyPolicy, Setup, Remove, Enrol, RevokeKey, UsePassword, Begin
  <1>11. CASE EnsureRepository \/ WaitForApp \/ AppDeadline \/ SelectPort \/ Backup \/ WaitForRunning \/ Answer
    BY <1>2, <1>11 DEF EnsureRepository, WaitForApp, AppDeadline, SelectPort, Backup, WaitForRunning, Answer
  <1>12. CASE HomeAssistantStops \/ List \/ Release \/ \E o \in Others : OtherApp(o)
    BY <1>2, <1>12 DEF HomeAssistantStops, List, Release, OtherApp
  <1> QED
    BY <1>3, <1>4, <1>5, <1>6, <1>7, <1>8, <1>9, <1>10, <1>11, <1>12 DEF SftpNext, Work, World

LEMMA KeptStep ==
    ASSUME SftpInv, [SftpNext]_sftpVars
    PROVE  UpdateIsBackedUp /\ (site.times["manual"] <= 1 => AdministratorsAppIsKept)
  <1>1. CASE SftpNext
    <2>1. app.version \in Nat /\ (call.step = "renew" => app.version \in backups)
      BY DEF SftpInv, SftpTypeOK, Apps, ThereInv, AtStep
    <2>2. UpdateIsBackedUp
      BY <1>1, <2>1, OnlyUpdates DEF UpdateIsBackedUp
    <2>3. ASSUME site.times["manual"] <= 1 PROVE AdministratorsAppIsKept
      BY <1>1, <2>3 DEF SftpInv, OwnerInv, AdministratorsAppIsKept
    <2> QED
      BY <2>2, <2>3
  <1>2. CASE UNCHANGED sftpVars
    BY <1>2 DEF UpdateIsBackedUp, AdministratorsAppIsKept, sftpVars, server, SftpInv, SftpTypeOK, Apps
  <1> QED
    BY <1>1, <1>2

\* No version of the app goes without a backup of it, and an app that the administrator
\* installed, on the one visit, does not go with the entry.
THEOREM AppKept == SftpSpec => AppIsKept
  <1>1. SftpInv /\ [SftpNext]_sftpVars
          => [UpdateIsBackedUp /\ (site.times["manual"] <= 1 => AdministratorsAppIsKept)]_sftpVars
    BY KeptStep
  <1> QED
    BY <1>1, SftpInvariance, PTL DEF SftpSpec, AppIsKept
=============================================================================
