----------------------------- MODULE MCReturns ------------------------------
(* What must come back or come to an end in the house, for TLC: smaller    *)
(* instances of the components than those of the safety runs, each a part  *)
(* of its own.  A behaviour is about one of them, so that they can take    *)
(* turns in the same variables.                                            *)
EXTENDS TLC, RecorderTrials

CONSTANTS phone, wifi

VARIABLE part    \* the part this behaviour is about
\* What its component calls them is said where it is instantiated; variables
\* that it has no use for are "unused".
VARIABLES x1, x2, x3, x4, x5, x6, x7, x8, x9, x10, x11, x12, x13, x14, x15,
    x16

vars == <<part, x1, x2, x3, x4, x5, x6, x7, x8, x9, x10, x11, x12, x13,
    x14, x15, x16>>

\* The mishaps of the three accounts of the router's power, and of the covers.
Mishaps == {"fail", "restart", "raw", "press"}
CutMishaps == [m \in Mishaps |-> IF m = "raw" THEN 0 ELSE IF m = "press" THEN 3 ELSE 1]
LeaseMishaps == [m \in Mishaps |-> IF m = "fail" THEN 0 ELSE IF m = "press" THEN 3 ELSE 1]
RawMishaps == [m \in Mishaps |-> IF m = "raw" THEN 2 ELSE IF m = "press" THEN 3 ELSE 0]

CoverMishaps == {"break", "late", "refuse", "nonzero", "raise", "crash", "visionstop", "sampling", "mode", "manual",
                 "die", "player"}
SoundMishaps == [m \in CoverMishaps |->
                    IF m \in {"break", "crash", "die", "player", "mode", "manual", "late", "refuse"} THEN 1 ELSE 0]
EndMishaps == [m \in CoverMishaps |->
                    IF m = "break" THEN 2 ELSE IF m \in {"crash", "die", "manual", "sampling"} THEN 1 ELSE 0]

Durations == ("door" :> 3) @@ ("welcome" :> 3) @@ ("bell" :> 2)

\* All workflows and both watchdogs.
Everything == [jobs |-> {"cutover", "accept", "emergency"},
               watchdogs |-> {"cron", "timer"}]

House == INSTANCE ControllerHandover WITH
    Plans <- {Everything}, MaxFaults <- 2, plan <- x16, source <- x1,
    target <- x2, entry <- x3, flow <- x4, armed <- x5, late <- x6,
    fence <- x7, marker <- x8, timer <- x9, cron <- x10, todo <- x11,
    op <- x12, rst <- x13, told <- x14, faults <- x15
Cut == INSTANCE PowerInterlock WITH
    OffDelay <- 2, ForceDelay <- 3, ArmDelay <- 4, ArmTimeout <- 5,
    Cooldown <- 7, Settings <- {[fails |-> {"cut", "restore"}, times |-> CutMishaps]},
    power <- x1, rebootArmed <- x2, lease <- x3, cooldown <- x4, up <- x5,
    run <- x6, stale <- x7, powerBudget <- x8, off <- x9, sinceCut <- x10,
    armedFor <- x11, setting <- x12
Lease == INSTANCE PowerInterlock WITH
    OffDelay <- 2, ForceDelay <- 3, ArmDelay <- 4, ArmTimeout <- 5,
    Cooldown <- 7, Settings <- {[fails |-> {"restore"}, times |-> LeaseMishaps]},
    power <- x1, rebootArmed <- x2, lease <- x3, cooldown <- x4, up <- x5,
    run <- x6, stale <- x7, powerBudget <- x8, off <- x9, sinceCut <- x10,
    armedFor <- x11, setting <- x12
Cooldown == INSTANCE PowerInterlock WITH
    OffDelay <- 2, ForceDelay <- 3, ArmDelay <- 4, ArmTimeout <- 5,
    Cooldown <- 7, Settings <- {[fails |-> {"restore"}, times |-> RawMishaps]},
    power <- x1, rebootArmed <- x2, lease <- x3, cooldown <- x4, up <- x5,
    run <- x6, stale <- x7, powerBudget <- x8, off <- x9, sinceCut <- x10,
    armedFor <- x11, setting <- x12
Sound == INSTANCE AdCover WITH
    HeaderAgrees <- TRUE, AdBudget <- SoundMishaps, tv <- x1, bumper <- x2,
    mode <- x3, phase <- x4, call <- x5, pending <- x6, ctl <- x7,
    serving <- x8, cover <- x9, keeper <- x10, file <- x11, player <- x12,
    muted <- x13, adBudget <- x14, wantedMute <- x15
Cover == INSTANCE AdCover WITH
    HeaderAgrees <- TRUE, AdBudget <- EndMishaps, tv <- x1, bumper <- x2,
    mode <- x3, phase <- x4, call <- x5, pending <- x6, ctl <- x7,
    serving <- x8, cover <- x9, keeper <- x10, file <- x11, player <- x12,
    muted <- x13, adBudget <- x14, wantedMute <- x15
Welcome == INSTANCE ExteriorLights WITH
    Uses <- {[demands |-> {"welcome"}, user |-> TRUE]}, Duration <- Durations,
    Sources <- {phone, wifi}, MinimumAway <- 2, Events <- 7,
    light <- x1, lightTimer <- x2, preexisting <- x3, due <- x4,
    occupancy <- x5, away <- x6, events <- x7, owner <- x8, use <- x9
Trials == INSTANCE RecorderPause WITH
    Suites <- {[scripts |-> [a |-> V080, b |-> Obs133], kills |-> 1, restarts |-> 1]},
    recorder <- x1, stopped <- x2, trialPc <- x3, found <- x4, noted <- x5,
    recMarker <- x6, recTimer <- x7, asked <- x8, kills <- x9, suite <- x10

\* The variables from the k-th on.
Rest13 == <<x13, x14, x15, x16>>
Unused13 == x13 = "unused" /\ x14 = "unused" /\ x15 = "unused" /\ x16 = "unused"
Rest11 == <<x11, x12, Rest13>>
Unused11 == x11 = "unused" /\ x12 = "unused" /\ Unused13
Rest10 == <<x10, Rest11>>
Unused10 == x10 = "unused" /\ Unused11

ASSUME ConstantAssumption ==
    /\ House!ParameterAssumption /\ Cut!DelayAssumption
    /\ Cut!SettingAssumption /\ Lease!SettingAssumption
    /\ Cooldown!SettingAssumption /\ Sound!CoverAssumption
    /\ Cover!CoverAssumption /\ Welcome!DemandAssumption
    /\ Welcome!PresenceAssumption
    /\ Trials!SuiteAssumption

Init ==
    \/ part = "house" /\ House!Init
    \/ part = "cut" /\ Cut!PowerInit /\ Unused13
    \/ part = "lease" /\ Lease!PowerInit /\ Unused13
    \/ part = "cooldown" /\ Cooldown!PowerInit /\ Unused13
    \/ part = "sound" /\ Sound!CoverInit /\ x16 = "unused"
    \/ part = "cover" /\ Cover!CoverInit /\ x16 = "unused"
    \/ part = "welcome" /\ Welcome!LightsInit /\ Unused10
    \/ part = "trials" /\ Trials!TrialsInit /\ Unused11

\* Only the variables of the part may change.
InHouse == part = "house" /\ UNCHANGED part
InCut == part = "cut" /\ UNCHANGED <<part, Rest13>>
InLease == part = "lease" /\ UNCHANGED <<part, Rest13>>
InCooldown == part = "cooldown" /\ UNCHANGED <<part, Rest13>>
InSound == part = "sound" /\ UNCHANGED <<part, x16>>
InCover == part = "cover" /\ UNCHANGED <<part, x16>>
InWelcome == part = "welcome" /\ UNCHANGED <<part, Rest10>>
InTrials == part = "trials" /\ UNCHANGED <<part, Rest11>>

Next ==
    \/ InHouse /\ House!Next
    \/ InCut /\ Cut!PowerNext
    \/ InLease /\ Lease!PowerNext
    \/ InCooldown /\ Cooldown!PowerNext
    \/ InSound /\ Sound!CoverNext
    \/ InCover /\ Cover!CoverNext
    \/ InWelcome /\ Welcome!LightsNext
    \/ InTrials /\ Trials!TrialsNext

\* What goes on by itself in each part, as its component's FairSpec says; the
\* actions of different parts share a fairness condition, since no behaviour
\* is about two parts.
Goes1 ==
    \/ InHouse /\ House!Deadline
    \/ InCut /\ Cut!Disarm
    \/ InLease /\ Lease!Disarm
    \/ InCooldown /\ Cooldown!Disarm
    \/ InSound /\ Sound!BreakEnds
    \/ InCover /\ Cover!BreakEnds
    \/ InWelcome /\ Welcome!Tick
    \/ InTrials /\ Trials!Proceed("a")
Goes2 ==
    \/ InHouse /\ House!CronStarts
    \/ InCut /\ Cut!Reboot
    \/ InLease /\ Lease!Reboot
    \/ InCooldown /\ Cooldown!Reboot
    \/ InSound /\ Sound!BumperGoes
    \/ InCover /\ Cover!BumperGoes
    \/ InWelcome /\ Welcome!Releases
    \/ InTrials /\ Trials!Proceed("b")
Goes3 ==
    \/ InHouse /\ House!RestoreStep
    \/ InCut /\ Cut!Guard
    \/ InLease /\ Lease!Guard
    \/ InCooldown /\ Cooldown!Guard
    \/ InSound /\ Sound!Recogniser
    \/ InCover /\ Cover!Recogniser
    \/ InWelcome /\ Welcome!MotionEnds
    \/ InTrials /\ Trials!ResumptionFires("a")
Goes4 ==
    \/ InCut /\ (Cut!ForceOn \/ Cut!ForceRelease)
    \/ InLease /\ (Lease!ForceOn \/ Lease!ForceRelease)
    \/ InCooldown /\ (Cooldown!ForceOn \/ Cooldown!ForceRelease)
    \/ InSound /\ Sound!Controller
    \/ InCover /\ Cover!Controller
    \/ InTrials /\ Trials!ResumptionFires("b")
Goes5 ==
    \/ InCut /\ (Cut!StartupOn \/ Cut!StartupRelease)
    \/ InLease /\ (Lease!StartupOn \/ Lease!StartupRelease)
    \/ InCooldown /\ (Cooldown!StartupOn \/ Cooldown!StartupRelease)
    \/ InSound /\ Sound!PreviewDies
    \/ InCover /\ Cover!PreviewDies
Goes6 ==
    \/ InCut /\ Cut!ClearStaleArm
    \/ InLease /\ Lease!ClearStaleArm
    \/ InCooldown /\ Cooldown!ClearStaleArm
Goes7 ==
    \/ InCut /\ Cut!HomeAssistantStarts
    \/ InLease /\ Lease!HomeAssistantStarts
    \/ InCooldown /\ Cooldown!HomeAssistantStarts
Goes8 ==
    \/ InCut /\ Cut!TimePasses
    \/ InLease /\ Lease!TimePasses
    \/ InCooldown /\ Cooldown!TimePasses

Spec == Init /\ [][Next]_vars

FairSpec ==
    /\ Spec
    /\ WF_vars(Goes1) /\ WF_vars(Goes2) /\ WF_vars(Goes3) /\ WF_vars(Goes4)
    /\ WF_vars(Goes5) /\ WF_vars(Goes6) /\ WF_vars(Goes7) /\ WF_vars(Goes8)

-----------------------------------------------------------------------------
(* Properties; each is the component's own, of the part that is about it.   *)
(* A behaviour stays in its part: what is taken there has to return there.   *)

Taken ==
    \/ part = "house" /\ House!Ownerless
    \/ part = "cut" /\ Cut!CutOff
    \/ part = "sound" /\ Sound!MutedAlone
    \/ part = "trials" /\ Trials!Silent
Returned ==
    \/ part = "house" /\ House!Owned
    \/ part = "cut" /\ Cut!Powered
    \/ part = "sound" /\ ~Sound!MutedAlone
    \/ part = "trials" /\ ~Trials!Silent
\* What was taken away comes back.  Without acceptance the house does not stay
\* without a controller: 906 comes back, whichever script fails or dies at
\* whichever call.  Power comes back to the router during a lease, also when a call
\* of the reboot fails and when Home Assistant restarts in the middle of it.
\* The sound is as the viewer left it once no cover is shown.  And a recorder that
\* a trial stopped records again, wherever the trial is interrupted or killed.
TakenAwayReturns == Taken ~> Returned

Temporary ==
    \/ part = "lease" /\ Lease!Leased
    \/ part = "cooldown" /\ Cooldown!Cooling
    \/ part = "cover" /\ Cover!Shown
    \/ part = "welcome" /\ Welcome!OnByDemand
Over ==
    \/ part = "lease" /\ ~Lease!Leased
    \/ part = "cooldown" /\ ~Cooldown!Cooling
    \/ part = "cover" /\ ~Cover!Shown
    \/ part = "welcome" /\ ~Welcome!OnByDemand
\* What is meant for a while ends: a lease on the router, also when Home Assistant
\* restarts; the cool-down after a reboot; a cover over the picture; and a light
\* that was put on.
TemporaryEnds == Temporary ~> Over
=============================================================================
