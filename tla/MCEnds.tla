------------------------------- MODULE MCEnds -------------------------------
(* What must come to an end in the integrations and on the gateway, for    *)
(* TLC: smaller instances of the components than those of the safety runs, *)
(* each a part of its own.  A behaviour is about one of them, so that they *)
(* can take turns in the same variables.                                   *)
EXTENDS Naturals, TLC, ReleaseScripts

CONSTANTS t1, t2, user, new1, new2, A1, A2, Absent, c1, c2, d1, k1, k2,
    id1, gateway, r1, r2, p1, macA, macB, macC, adr1, adr2, i, j

VARIABLE part    \* the part this behaviour is about
\* What its component calls them is said where it is instantiated; variables
\* that it has no use for are "unused".
VARIABLES x1, x2, x3, x4, x5, x6, x7, x8, x9, x10, x11, x12, x13, x14, x15,
    x16, x17, x18, x19, x20, x21, x22

vars == <<part, x1, x2, x3, x4, x5, x6, x7, x8, x9, x10, x11, x12, x13,
    x14, x15, x16, x17, x18, x19, x20, x21, x22>>

\* Two versions of a package, the second of which drops a file.
FilesOf ==
    [p \in {A1, A2} |-> [t \in {t1, t2} |->
        IF p = A1 THEN new1 ELSE IF t = t1 THEN new2 ELSE Absent]]
OneCrash == [m \in {"crash", "io", "edit", "swap"} |-> IF m = "crash" THEN 1 ELSE 0]

From == [u \in {"to_v1", "to_v2"} |-> IF u = "to_v1" THEN {"v0"} ELSE {"v0", "v1"}]
To == [u \in {"to_v1", "to_v2"} |-> IF u = "to_v1" THEN "v1" ELSE "v2"]
NoMishap ==
    [updates |-> 2, mishaps |-> [m \in {"crash", "io", "reload", "swap", "foreign"} |-> 0]]

Troubles == [m \in {"fail", "exit", "crash", "gateway", "release", "manual"} |->
                IF m = "fail" THEN 1 ELSE 0]

\* Two of three MACs share a name.
NameOfMac == (macA :> 1) @@ (macB :> 2) @@ (macC :> 2)
\* The second changes the package that the first has added.
HeatingSchedule ==
    [scripts |-> ("heating" :> HeatingPresence) @@ ("manual" :> ManualSetpoint),
     edits |-> {}, guestSlow |-> FALSE, checkSlow |-> TRUE, faults |-> 0]
Files == {{<<macA, adr1>>, <<macB, adr2>>}, {<<macA, adr2>>, <<macC, adr1>>}}

Package == INSTANCE PackageTransactions WITH
    Targets <- {t1, t2}, Contents <- {user, new1, new2},
    PackageIds <- {"a"}, Packages <- {A1, A2},
    IdOf <- [p \in {A1, A2} |-> "a"], FilesOf <- FilesOf, MaxTx <- 2,
    Budget <- OneCrash, live <- x1, backup <- x2, records <- x3,
    count <- x4, pc <- x5, tx <- x6, mem <- x7, manifest <- x8, todo <- x9,
    tgt <- x10, budget <- x11, pre <- x12, touched <- x13, declared <- x14
Platform == INSTANCE PlatformUpdate WITH
    Versions <- {"v0", "v1", "v2"}, Updates <- {"to_v1", "to_v2"},
    FromOf <- From, ToOf <- To, MaxUpdates <- 2, Bounds <- {NoMishap},
    live <- x1, stage <- x2, hold <- x3, aside <- x4, backup <- x5,
    state <- x6, to <- x7, begun <- x8, pending <- x9, running <- x10,
    step <- x11, current <- x12, pkg <- x13, boot <- x14, bpend <- x15,
    tool <- x16, ttx <- x17, bounds <- x18, left <- x19, pre <- x20, spoilt <- x21
Service == INSTANCE ServiceLayer WITH
    Calls <- {c1, c2}, MaxTx <- 1,
    Budget <- [reload |-> 1, crash |-> 0, edit |-> 1, check |-> 0],
    gen <- x1, loaded <- x2, queue <- x3, tlock <- x4, flock <- x5,
    pc <- x6, kind <- x7, lockgen <- x8, mgr <- x9, tx <- x10,
    check <- x11, status <- x12, count <- x13, bad <- x14, drift <- x15,
    checked <- x16, budget <- x17
Registrar == INSTANCE ManagementPCs WITH
    Devices <- {d1}, Keys <- {k1, k2}, PubIds <- {id1}, Pub <- (d1 :> id1),
    MaxUser <- 2,
    Homes <- {[password |-> FALSE,
                times |-> [fail |-> 1, crash |-> 0, reload |-> 0, password |-> 0]]},
    registry <- x1, trust <- x2, users <- x3, nextUser <- x4, conf <- x5,
    live <- x6, codes <- x7, waiting <- x8, kind <- x9, pos <- x10,
    dev <- x11, key <- x12, mem <- x13, prevReg <- x14, prevTrust <- x15,
    newUser <- x16, oldUser <- x17, entry <- x18, writer <- x19,
    outcome <- x20, registrarBudget <- x21, home <- x22
Sftp == INSTANCE SftpApp WITH
    PCs <- {d1}, Others <- {gateway}, First <- 1, Ports <- {1, 2},
    Sites <- {[pcs |-> {d1}, others |-> {gateway}, newest |-> 1, hosts |-> 1, times |-> Troubles]},
    repo <- x1, listed <- x2, store <- x3, app <- x4, sftpLive <- x5, nextHost <- x6,
    export <- x7, others <- x8, backups <- x9, sftpEntry <- x10,
    sftpRegistry <- x11, told <- x12, call <- x13, last <- x14, owner <- x15,
    sftpBudget <- x16, site <- x17
Queue == INSTANCE GatewayQueue WITH
    JsonJobs <- {1, 2}, LegacyJobs <- {}, Attempts <- 5, MaxExec <- 5,
    Limits <- {[kill |-> 0, die |-> 0, foreign |-> 2, overlap |-> 2]},
    main <- x1, tip <- x2, pending <- x3, queuePc <- x4, ws <- x5,
    base <- x6, todo <- x7, exec <- x8, seen <- x9, attempt <- x10,
    asked <- x11, queueBudget <- x12, limits <- x13
Apply == INSTANCE StewardApply WITH
    Requests <- {r1, r2}, Proposals <- {p1}, Target <- (p1 :> 1),
    Additions <- {}, Concurrency <- 2, Seconds <- 1,
    ApplyLimits <- {[command |-> 1, undo |-> 1, lost |-> 0, blind |-> 0,
                     record |-> 0, crash |-> 0, post |-> 2]},
    present <- x1, automations <- x2, tmp <- x3, backups <- x4,
    running <- x5, clock <- x6, applyPc <- x7, wants <- x8, stamp <- x9,
    inGuest <- x10, existed <- x11, data <- x12, answer <- x13, prior <- x14,
    applyBudget <- x15, granted <- x16
Names == INSTANCE DnsImport WITH
    Macs <- {macA, macB, macC}, NameOf <- NameOfMac,
    Addresses <- {adr1, adr2}, Uploads <- Files, Importers <- {i, j},
    Imports <- 2, Failures <- 2, rewrites <- x1, status <- x2, dnsPc <- x3,
    upload <- x4, records <- x5, existing <- x6, left <- x7, imports <- x8,
    failures <- x9, answered <- x10
Release == INSTANCE GuardedRelease WITH
    Plans <- {HeatingSchedule}, file <- x1, broken <- x2, script <- x3,
    guest <- x4, old <- x5, done <- x6, note <- x7, ranOut <- x8,
    core <- x9, up <- x10, edits <- x11, faults <- x12, plan <- x13

\* The variables from the k-th on.
Rest18 == <<x18, x19, x20, x21, x22>>
Unused18 ==
    x18 = "unused" /\ x19 = "unused" /\ x20 = "unused" /\ x21 = "unused" /\ x22 = "unused"
Rest17 == <<x17, Rest18>>
Unused17 == x17 = "unused" /\ Unused18
Rest15 == <<x15, x16, Rest17>>
Unused15 == x15 = "unused" /\ x16 = "unused" /\ Unused17
Rest13 == <<x13, x14, Rest15>>
Unused13 == x13 = "unused" /\ x14 = "unused" /\ Unused15
Rest11 == <<x11, x12, Rest13>>
Unused11 == x11 = "unused" /\ x12 = "unused" /\ Unused13

ASSUME ConstantAssumption ==
    /\ Platform!VersionAssumption /\ Platform!UpdateAssumption /\ Service!BoundAssumption
    /\ Registrar!RegistrarAssumption /\ Sftp!PortAssumption /\ Sftp!SiteAssumption
    /\ Queue!JobAssumption /\ Apply!ApplyAssumption /\ Names!NameAssumption
    /\ Names!UploadAssumption /\ Names!ImportAssumption
    /\ Release!PlanAssumption

Init ==
    \/ part = "package" /\ Package!Init /\ x1 \in [{t1, t2} -> {Absent, new1}] /\ Unused15
    \/ part = "platform" /\ Platform!UpdateInit /\ x22 = "unused"
    \/ part = "service" /\ Service!Init /\ Unused18
    \/ part = "registrar" /\ Registrar!RegistrarInit /\ x1.legacy = {}
    \/ part = "sftp" /\ Sftp!SftpInit /\ Unused18
    \/ part = "queue" /\ Queue!QueueInit /\ x14 = "unused" /\ Unused15
    \/ part = "apply" /\ Apply!ApplyInit /\ Unused17
    \/ part = "names" /\ Names!DnsInit /\ Unused11
    \/ part = "release" /\ Release!Init /\ x14 = "unused" /\ Unused15

\* Only the variables of the part may change.
InPackage == part = "package" /\ UNCHANGED <<part, Rest15>>
InPlatform == part = "platform" /\ UNCHANGED <<part, x22>>
InService == part = "service" /\ UNCHANGED <<part, Rest18>>
InRegistrar == part = "registrar" /\ UNCHANGED part
InSftp == part = "sftp" /\ UNCHANGED <<part, Rest18>>
InQueue == part = "queue" /\ UNCHANGED <<part, x14, Rest15>>
InApply == part = "apply" /\ UNCHANGED <<part, Rest17>>
InNames == part = "names" /\ UNCHANGED <<part, Rest11>>
InRelease == part = "release" /\ UNCHANGED <<part, x14, Rest15>>

Next ==
    \/ InPackage /\ Package!Next
    \/ InPlatform /\ Platform!UpdateNext
    \/ InService /\ Service!Next
    \/ InRegistrar /\ Registrar!RegistrarNext
    \/ InSftp /\ Sftp!SftpNext
    \/ InQueue /\ Queue!QueueNext
    \/ InApply /\ Apply!ApplyNext
    \/ InNames /\ Names!DnsNext
    \/ InRelease /\ Release!Next

\* What goes on by itself in each part, as its component's FairSpec says; the
\* actions of different parts share a fairness condition, since no behaviour
\* is about two parts.
Goes1 ==
    \/ InPackage /\ Package!Step
    \/ InPlatform /\ Platform!OperationStep
    \/ InService /\ Service!Step(c1)
    \/ InRegistrar /\ Registrar!Operation
    \/ InSftp /\ Sftp!Work
    \/ InQueue /\ Queue!Runner
    \/ InApply /\ Apply!ApplyHandlerStep(r1)
    \/ InNames /\ Names!ImportStep(i)
    \/ InRelease /\ Release!Patching("heating")
Goes2 ==
    \/ InPlatform /\ Platform!ConfirmStep
    \/ InService /\ Service!Step(c2)
    \/ InApply /\ Apply!ApplyHandlerStep(r2)
    \/ InNames /\ Names!ImportStep(j)
    \/ InRelease /\ Release!Restoring("heating")
Goes3 ==
    \/ InApply /\ Apply!ApplyScriptStep(r1)
    \/ InRelease /\ Release!Job("heating")
Goes4 ==
    \/ InApply /\ Apply!ApplyScriptStep(r2)
    \/ InRelease /\ Release!Patching("manual")
Goes5 ==
    \/ InRelease /\ Release!Restoring("manual")
Goes6 ==
    \/ InRelease /\ Release!Job("manual")

Spec == Init /\ [][Next]_vars

FairSpec ==
    /\ Spec
    /\ WF_vars(Goes1) /\ WF_vars(Goes2) /\ WF_vars(Goes3) /\ WF_vars(Goes4)
    /\ WF_vars(Goes5) /\ WF_vars(Goes6)
    /\ \A k \in {k1, k2} : SF_vars(InRegistrar /\ Registrar!Enroll(d1, k))

-----------------------------------------------------------------------------
(* Properties; each is the component's own, of the part that is about it.   *)
(* A behaviour stays in its part: what it has begun there has to end there.  *)

Begun1 ==
    \/ part = "package" /\ Package!InFlight
    \/ part = "sftp" /\ Sftp!InProgress
    \/ part = "names" /\ Names!Working
    \/ part = "release" /\ Release!Refused("heating")
    \/ part = "platform" /\ Platform!Unconfirmed(1)
Ended1 ==
    \/ part = "package" /\ ~Package!InFlight
    \/ part = "sftp" /\ Sftp!Idle
    \/ part = "names" /\ ~Names!Working
    \/ part = "release" /\ Release!InNone("heating")
    \/ part = "platform" /\ ~Platform!Unconfirmed(1)
Begun2 ==
    \/ part = "release" /\ Release!Refused("manual")
    \/ part = "platform" /\ Platform!Unconfirmed(2)
Ended2 ==
    \/ part = "release" /\ Release!InNone("manual")
    \/ part = "platform" /\ ~Platform!Unconfirmed(2)
\* What has begun ends: an operation on a package, however it fails and whether
\* or not the process dies; a call of the SFTP app, also with an app that never
\* becomes available or a Supervisor that raises; an import, however two of them
\* interleave and fail; a release that Core refuses, whose part is taken out again;
\* and the last update is confirmed or undone once the new code runs, as long as the
\* pending file names it.
OperationsEnd == (Begun1 ~> Ended1) /\ (Begun2 ~> Ended2)

Accepted(c, k, n, r) ==
    \/ part = "service" /\ Service!Accepted(c)
    \/ part = "registrar" /\ Registrar!Waits(d1, k)
    \/ part = "queue" /\ Queue!Asked(n)
    \/ part = "apply" /\ Apply!ApplyAccepted(r)
Answered(c, k, n, r) ==
    \/ part = "service" /\ Service!Returned(c)
    \/ part = "registrar" /\ Registrar!Answered(d1, k)
    \/ part = "queue" /\ Queue!Shown(n)
    \/ part = "apply" /\ Apply!ApplyEnded(r)
\* What was accepted is answered: a service call returns, whatever is reloaded in
\* between; an enrolment whose code was taken; a submitted job gets its result and
\* its final status on main, though others push to it; and a posted request, whose
\* restoration ends, too.
AcceptedIsAnswered ==
    /\ Accepted(c1, k1, 1, r1) ~> Answered(c1, k1, 1, r1)
    /\ Accepted(c2, k2, 2, r2) ~> Answered(c2, k2, 2, r2)
=============================================================================
