----------------------------- MODULE MCGateway ------------------------------
(* StewardApply, ReviewStore, GatewayQueue and GuardedRelease, each in the *)
(* small instances that tell its properties apart. They share no state: a  *)
(* behaviour is about one of them, named by part; the variables of the     *)
(* others are unused.                                                      *)
EXTENDS GatewayQueue, GuardedRelease, ReleaseScripts, ReviewStore, StewardApply, TLC

CONSTANTS r1, r2, r3, p1, p2, p3, e1, c1, c2

VARIABLE part    \* the part, and the instance of it, this behaviour is about

gatewayVars == <<part, applyVars, reviewVars, queueVars, vars>>

Symmetric == Permutations(Requests)

\* Two of the three proposals control the same entity.
Entity == [p \in {p1, p2, p3} |-> IF p = p3 THEN 2 ELSE 1]

\* Which releases follow each other.  Two share the automations and the dashboard:
Undoing == ("lux" :> LuxPriority) @@ ("garden" :> GardenFeatures)
\* New files, and a file written whatever it is.
AddedFiles == ("boiler" :> BoilerMonitor) @@ ("observer" :> HallwayObserver)
              @@ ("warmup" :> HallwayWarmup) @@ ("monitor" :> DoorbellMonitor)
\* Two change the same file.
SameFile == ("bedtime" :> BedtimeGarden) @@ ("heating18" :> BedtimeHeating)
\* The three that changed the light controller.
LightController == ("repair" :> LuxRepair) @@ ("dusk" :> StaleDusk) @@ ("lux" :> LuxPriority)
\* Each changes the package that the first has added.
HeatingSchedule == ("heating" :> HeatingPresence) @@ ("manual" :> ManualSetpoint) @@ ("hallway" :> HallwaySchedule)
\* A job that a late check ends, and its successor in the same file.
LateCheck == ("wc" :> WcLighting) @@ ("dusk" :> StaleDusk)
\* One is taken back by reloading, the next is the one that was not.
Override == ("off" :> LuxManualOff) @@ ("v2" :> LuxManualV2) @@ ("steward" :> LuxManualV2Steward)
\* Those of the primary Home Assistant.
Primary == ("panel" :> EveningPanel) @@ ("area" :> AreaPresence) @@ ("phone" :> PhoneAlert)
\* Views and cards of one dashboard.
Views == ("view" :> BoilerView) @@ ("temperature" :> TemperatureView)
         @@ ("card" :> ManualCard) @@ ("observer" :> ObserverCard)
\* Those that move one file after another.
Moves == ("audio" :> AudioLighting) @@ ("clock" :> LuxClock)
\* Files copied as a whole, and files somebody is to have loaded.
Copies == ("dashboard" :> TestingDashboard) @@ ("urls" :> GeneralUrls) @@ ("porch" :> PorchDarkDay)
\* Patches that nothing checks.
Patches == ("daylight" :> DaylightOff) @@ ("solar" :> SolarLearning) @@ ("yaml" :> TestingYaml) @@ ("welcome" :> Welcome)
\* The first adds the package that the second changes.
DoorPackages == ("garden" :> GardenFeatures) @@ ("backdoor" :> BackDoor) @@ ("merged" :> DoorbellMerged)

\* What disturbs the releases of a plan: edits, slow processes of the guest, faults.
Following(scripts, made, slow, bound) ==
    [scripts |-> scripts, edits |-> made, guestSlow |-> slow, checkSlow |-> TRUE, faults |-> bound]
NoRelease == Following([r \in {} |-> r], {}, FALSE, 0)
ReleasePlans ==
    {NoRelease,
     Following(Undoing, {}, FALSE, 2),
     Following(SameFile, {"edit1", "edit2"}, TRUE, 1),
     Following(AddedFiles, {}, FALSE, 0),
     Following(LightController, {}, FALSE, 1),
     Following(DoorPackages, {}, FALSE, 1),
     Following(HeatingSchedule, {}, FALSE, 1),
     Following(LateCheck, {"edit1"}, FALSE, 1),
     Following(Override, {}, FALSE, 2),
     Following(Primary, {}, FALSE, 1),
     Following(Views, {"edit1"}, FALSE, 0),
     Following(Moves, {}, FALSE, 2),
     Following(Copies, {}, FALSE, 1),
     Following(Patches, {}, FALSE, 1)}

\* What disturbs a run of the gateway's workflow.
Undisturbed == [kill |-> 1, die |-> 1, foreign |-> 1, overlap |-> 0]
QueueLimits == {Undisturbed, [kill |-> 1, die |-> 1, foreign |-> 2, overlap |-> 1]}

\* What happens to the administrator's lists: the automations can be read, or not once.
Readable == [blind |-> 0, overlap |-> 0, crash |-> 1, vanish |-> 2, begin |-> 4]
ListLimits == {Readable, [blind |-> 1, overlap |-> 0, crash |-> 1, vanish |-> 1, begin |-> 5]}

\* What happens while automations are applied: a command fails, or each thing once.
InTimeOnly == [command |-> 1, undo |-> 0, lost |-> 0, blind |-> 0, record |-> 0, crash |-> 0, post |-> 3]
RequestLimits ==
    {InTimeOnly, [command |-> 1, undo |-> 1, lost |-> 1, blind |-> 1, record |-> 1, crash |-> 1, post |-> 2]}

\* The parts that the behaviour is not about.
ApplyRests == ApplyInit /\ granted = InTimeOnly /\ automations = NoFile
ReviewRests == ReviewInit /\ allowed = Readable
QueueRests == QueueInit /\ limits = Undisturbed
ReleaseRests == Init /\ plan = NoRelease

GatewayInit ==
    \/ part = "apply" /\ ApplyInit /\ ReviewRests /\ QueueRests /\ ReleaseRests
    \/ part = "review" /\ ReviewInit /\ ApplyRests /\ QueueRests /\ ReleaseRests
    \/ part = "queue" /\ QueueInit /\ ApplyRests /\ ReviewRests /\ ReleaseRests
    \/ part = "releases" /\ Init /\ ApplyRests /\ ReviewRests /\ QueueRests

GatewayNext ==
    /\ UNCHANGED part
    /\ \/ part = "apply" /\ ApplyNext /\ UNCHANGED <<reviewVars, queueVars, vars>>
       \/ part = "review" /\ ReviewNext /\ UNCHANGED <<applyVars, queueVars, vars>>
       \/ part = "queue" /\ QueueNext /\ UNCHANGED <<applyVars, reviewVars, vars>>
       \/ part = "releases" /\ Next /\ UNCHANGED <<applyVars, reviewVars, queueVars>>

GatewaySpec == GatewayInit /\ [][GatewayNext]_gatewayVars
=============================================================================
