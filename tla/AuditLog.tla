------------------------------ MODULE AuditLog ------------------------------
(***************************************************************************)
(* The hash-chained audit trail (audit.py) and its writers: operations of  *)
(* the engine, which hold its lock, and the confirmation of a platform     *)
(* update at set-up of the config entry, which does not.                   *)
(*                                                                         *)
(* append verifies the whole file, makes a record that follows the last    *)
(* one, writes it with one os.write and calls fsync.  A hash stands for    *)
(* the record it is made from: record n is chained to record prev.         *)
(***************************************************************************)
EXTENDS Naturals, Sequences

CONSTANTS
    Locked,     \* writers that hold the engine's lock
    Unlocked,   \* writers that do not
    MaxRecord,  \* bound: records ever made
    Budget      \* bound: how often each kind of mishap may happen

Mishaps == {"crash",   \* the machine stops
            "short",   \* os.write writes less than it was given
            "fsync",   \* fsync raises
            "tamper"}  \* somebody changes the file

Writers == Locked \cup Unlocked
Ids == 1..MaxRecord
ASSUME BoundAssumption == MaxRecord \in Nat /\ Budget \in [Mishaps -> Nat]
ASSUME WriterAssumption == "none" \notin Writers

\* A line is whole when it is JSON with the hash of its record, and cut when it
\* lacks its end.
Lines == [id : Ids, seq : Nat, prev : 0..MaxRecord, form : {"whole", "cut", "changed"}]

VARIABLES
    file,      \* the lines
    synced,    \* how many of them are on the disk
    lock,      \* the engine's lock
    pc,        \* [Writers -> step]
    rec,       \* [Writers -> the record it is about to write]
    next,      \* the next record
    returned,  \* ghost: records whose append returned
    tampered,  \* ghost: somebody changed the file
    overlapped,  \* ghost: an append began before another one had ended
    budget     \* mishaps left

vars == <<file, synced, lock, pc, rec, next, returned, tampered, overlapped, budget>>

NoLine == [id |-> 0, seq |-> 0, prev |-> 0, form |-> "cut"]

Init ==
    /\ file = <<>> /\ synced = 0 /\ lock = "none"
    /\ pc = [w \in Writers |-> "idle"] /\ rec = [w \in Writers |-> NoLine]
    /\ next = 1 /\ returned = {} /\ tampered = FALSE /\ overlapped = FALSE
    /\ budget = Budget

Spend(mishap) == budget[mishap] > 0 /\ budget' = [budget EXCEPT ![mishap] = @ - 1]

\* Mutant: the hash of a record is not computed again.
ChainedLoosely(i) ==
    /\ file[i].seq = i
    /\ file[i].prev = IF i = 1 THEN 0 ELSE file[i - 1].id

Chained(i) ==
    /\ file[i].form = "whole" /\ file[i].seq = i
    /\ file[i].prev = IF i = 1 THEN 0 ELSE file[i - 1].id
\* verify raises unless every line follows the one before it.
Verified == \A i \in 1..Len(file) : Chained(i)

\* append begins.
Starts(w) ==
    /\ pc[w] = "idle" /\ pc' = [pc EXCEPT ![w] = "append"]
    /\ overlapped' = (overlapped \/ \E v \in Writers : pc[v] # "idle")
    /\ UNCHANGED <<file, synced, rec, next, returned, tampered, budget>>

\* _exclusive_operation; its file lock makes one writer of all managers.
Acquire(w) ==
    /\ w \in Locked /\ lock = "none" /\ lock' = w /\ Starts(w)

Confirm(w) == w \in Unlocked /\ Starts(w) /\ UNCHANGED lock

Done(w) ==
    /\ pc' = [pc EXCEPT ![w] = "idle"] /\ rec' = [rec EXCEPT ![w] = NoLine]
    /\ lock' = IF lock = w THEN "none" ELSE lock

\* append verifies and makes its record; a chain that does not verify raises.
Prepare(w) ==
    /\ pc[w] = "append"
    /\ \/ /\ Verified /\ next <= MaxRecord
          /\ rec' = [rec EXCEPT ![w] = [id |-> next, seq |-> Len(file) + 1, form |-> "whole",
                                        prev |-> IF file = <<>> THEN 0 ELSE file[Len(file)].id]]
          /\ next' = next + 1 /\ pc' = [pc EXCEPT ![w] = "write"]
          /\ UNCHANGED lock
       \/ ~Verified /\ Done(w) /\ UNCHANGED next
    /\ UNCHANGED <<file, synced, returned, tampered, overlapped, budget>>

\* Mutant: the file is written from its start.
WriteOver(w) ==
    /\ pc[w] = "write"
    /\ \/ UNCHANGED budget /\ file' = <<rec[w]>>
       \/ Spend("short") /\ file' = Append(file, [rec[w] EXCEPT !.form = "cut"])
    /\ pc' = [pc EXCEPT ![w] = "sync"]
    /\ UNCHANGED <<synced, lock, rec, next, returned, tampered, overlapped>>

\* Text put behind a line that lacks its end becomes a part of that line.
Extended(line) ==
    IF file # <<>> /\ file[Len(file)].form = "cut"
    THEN [file EXCEPT ![Len(file)].form = IF line.form = "cut" THEN "cut" ELSE "changed"]
    ELSE Append(file, line)

\* O_APPEND: the line goes to the end.  What os.write returns is not looked at.
Write(w) ==
    /\ pc[w] = "write"
    /\ \/ UNCHANGED budget /\ file' = Extended(rec[w])
       \/ Spend("short") /\ file' = Extended([rec[w] EXCEPT !.form = "cut"])
    /\ pc' = [pc EXCEPT ![w] = "sync"]
    /\ UNCHANGED <<synced, lock, rec, next, returned, tampered, overlapped>>

Sync(w) ==
    /\ pc[w] = "sync"
    /\ \/ synced' = Len(file) /\ returned' = returned \cup {rec[w].id} /\ UNCHANGED budget
       \/ Spend("fsync") /\ UNCHANGED <<synced, returned>>
    /\ Done(w)
    /\ UNCHANGED <<file, next, tampered, overlapped>>

\* A prefix of what was not synced survives, its last line perhaps in part.
Crash ==
    /\ Spend("crash")
    /\ \E n \in synced..Len(file) : \E torn \in BOOLEAN :
         file' = [i \in 1..n |-> IF torn /\ i = n /\ n > synced THEN [file[i] EXCEPT !.form = "cut"] ELSE file[i]]
    /\ synced' = Len(file')
    /\ lock' = "none" /\ pc' = [w \in Writers |-> "idle"] /\ rec' = [w \in Writers |-> NoLine]
    /\ UNCHANGED <<next, returned, tampered, overlapped>>

\* A line is changed, or one that is not the last is taken out.
Tamper(i) ==
    /\ Spend("tamper") /\ i \in 1..Len(file)
    /\ tampered' = TRUE
    /\ \/ file' = [file EXCEPT ![i].form = "changed"] /\ UNCHANGED synced
       \/ /\ i < Len(file) /\ synced = Len(file)
          /\ file' = SubSeq(file, 1, i - 1) \o SubSeq(file, i + 1, Len(file))
          /\ synced' = synced - 1
    /\ UNCHANGED <<lock, pc, rec, next, returned, overlapped>>

Writer(w) == Prepare(w) \/ Write(w) \/ Sync(w)
Next == \/ \E w \in Writers : Acquire(w) \/ Confirm(w) \/ Writer(w)
        \/ Crash \/ \E i \in 1..Len(file) : Tamper(i)

Spec == Init /\ [][Next]_vars

-----------------------------------------------------------------------------
(* Properties.                                                             *)

TypeOK ==
    /\ file \in Seq(Lines) /\ synced \in 0..Len(file) /\ lock \in Locked \cup {"none"}
    /\ pc \in [Writers -> {"idle", "append", "write", "sync"}]
    /\ rec \in [Writers -> Lines \cup {NoLine}]
    /\ next \in 1..(MaxRecord + 1) /\ returned \subseteq Ids /\ tampered \in BOOLEAN /\ overlapped \in BOOLEAN
    /\ budget \in [Mishaps -> Nat]

\* The trail verifies as long as nobody has changed it: a chain that does not
\* verify is evidence.
IntactVerifies == ~tampered => Verified

\* A change to any line, or the removal of one that others follow, is seen by
\* every later verification.
TamperDetected == tampered => ~Verified

\* What append has returned is in the file, at its place and whole.
ReturnedIsKept ==
    ~tampered => \A n \in returned : \E i \in 1..synced : file[i].id = n /\ file[i].form = "whole"

\* The trail can be trusted: what append has returned is in it, whole and at its
\* place, after crashes and failing fsyncs (as long as no write falls short);
\* it verifies as long as nothing but fsync fails and no appends overlap; and every
\* change is seen by the next verification, unless a crash comes between.
Never(mishap) == budget[mishap] = Budget[mishap]
TrailIsTrue ==
    /\ Never("short") => ReturnedIsKept
    /\ Never("short") /\ Never("crash") /\ ~overlapped => IntactVerifies
    /\ Never("crash") /\ ~overlapped => TamperDetected

\* The trail implements the ledger until somebody changes it: it only grows, and
\* what is on the disk stays, whatever writers and mishaps do.
Trail == INSTANCE Ledger WITH
    Entries <- Ids, log <- [i \in 1..Len(file) |-> file[i].id], stable <- synced, broken <- tampered
ImplementsLedger == Trail!Spec
=============================================================================
