----------------------- MODULE MCPackageTransactions -----------------------
(* PackageTransactions for TLC.  Package A has two versions, the second    *)
(* without a file of the first; B shares that file with A.  A behaviour is *)
(* two transactions of A with crashes and a foreign edit, or two with      *)
(* writes that fail and an archive that is replaced, or a long life of     *)
(* both packages to which nothing happens.                                 *)
EXTENDS PackageTransactions

CONSTANTS t1, t2, user, new1, new2, A1, A2, B1

VARIABLE part    \* which of the three this behaviour is
MCVars == <<part, vars>>

MCTargets == {t1, t2}
MCContents == {user, new1, new2}
MCPackages == {A1, A2, B1}
MCIdOf == [p \in Packages |-> IF p = B1 THEN "b" ELSE "a"]
MCFilesOf ==
    [p \in Packages |->
        CASE p = A1 -> [t \in Targets |-> new1]
          [] p = A2 -> [t \in Targets |-> IF t = t1 THEN new2 ELSE Absent]
          [] p = B1 -> [t \in Targets |-> IF t = t2 THEN new1 ELSE Absent]]

Mishap(crash, io, edit, swap) ==
    [m \in Mishaps |-> CASE m = "crash" -> crash [] m = "io" -> io
                         [] m = "edit" -> edit [] m = "swap" -> swap]
Crashes == Mishap(2, 0, 1, 0)
Faults == Mishap(0, 2, 0, 1)
OneEdit == Mishap(0, 0, 1, 0)

Faulty == INSTANCE PackageTransactions WITH Budget <- Faults

\* Before the first operation each file is missing, somebody's own, or already
\* what version 1 of A would install.
Before == live \in [Targets -> {Absent, user, new1}]
BeforeAll == \E before \in {Absent, user, new1} : live = [t \in Targets |-> before]

\* Two transactions, and of A only.
ShortLife == count' <= 2 /\ mem'.package_id # "b" /\ manifest' # FilesOf[B1]
Uneventful == UNCHANGED budget

InitOne == part = "crashes" /\ Init /\ Before
MCInit ==
    \/ InitOne
    \/ part = "faults" /\ Faulty!Init /\ Before
    \/ part = "long" /\ Init /\ BeforeAll
MCNext ==
    /\ Next
    /\ IF part = "long" THEN Uneventful ELSE ShortLife
    /\ UNCHANGED part

OneSpec == InitOne /\ [][MCNext]_MCVars
MCSpec == MCInit /\ [][MCNext]_MCVars
=============================================================================
