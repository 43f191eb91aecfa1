--------------------------- MODULE ReleaseScripts ---------------------------
(***************************************************************************)
(* What the guarded releases of src/gateway and src/ha_testing_dashboard   *)
(* do differently, one record for each script, with its patch and its      *)
(* rollback where they are scripts of their own; GuardedRelease is what    *)
(* they have in common.                                                    *)
(*   files     in the order they are written                               *)
(*   new       those that do not exist before                              *)
(*   wholes    those written whatever was in them                          *)
(*   compares  which writes first look whether the files are still as read *)
(*   attests   whether the files are read back                             *)
(*   undoes    whether a failing patch takes its writes back               *)
(*   restores  the order of the rollback                                   *)
(*   looks     whether the rollback first compares the files               *)
(*   skips     whether it goes on after a file it cannot restore           *)
(*   tells     whether a rollback that does not succeed is reported        *)
(*   checks    whether Core checks the configuration                       *)
(*   leaves    whether a check that is not finished ends the job, no more  *)
(*   then      how Core is to load the files                               *)
(*   reloads   the files whose automations a reload loads                  *)
(*   verifies  what is looked at afterwards                                *)
(*   retracts  whether a failure after the check takes the release back    *)
(*   confirms  whether the answer to the reload after that is looked at    *)
(***************************************************************************)
EXTENDS Sequences

Script(files, new, compares, undoes) ==
    [files |-> files, new |-> new, wholes |-> {}, compares |-> compares,
     attests |-> TRUE, undoes |-> undoes, restores |-> files, looks |-> TRUE,
     skips |-> FALSE, tells |-> TRUE, checks |-> TRUE, leaves |-> FALSE,
     then |-> "restart", reloads |-> {}, verifies |-> {"up", "files", "core"},
     retracts |-> FALSE, confirms |-> TRUE]

-----------------------------------------------------------------------------
(* Home Assistant General, VM 905: lighting and doors.                     *)

LuxPriority == Script(<<"automations", "testing", "manual_off", "ladder">>, {"ladder"}, "each", TRUE)

GardenPatch == [Script(<<"automations", "doorbell", "testing", "backdoor">>, {"backdoor"}, "each", TRUE) EXCEPT !.attests = FALSE]
GardenRollback == <<"automations", "doorbell", "testing", "backdoor">>
GardenFeatures == [GardenPatch EXCEPT !.restores = GardenRollback, !.verifies = {"up"}]

LuxRepairPatch == Script(<<"automations", "synthetic", "environment">>, {}, "first", FALSE)
LuxRepair == [LuxRepairPatch EXCEPT !.verifies = {"up", "files"}]
StaleDuskPatch == Script(<<"automations">>, {}, "first", FALSE)
StaleDusk == [StaleDuskPatch EXCEPT !.then = "reload", !.reloads = {"automations"}, !.verifies = {}]
WcPatch == [Script(<<"automations">>, {}, "each", FALSE) EXCEPT !.attests = FALSE]
WcLighting == [WcPatch EXCEPT !.leaves = TRUE, !.verifies = {"up"}]

\* A patch that nothing here checks or loads.
PatchOnly(script) ==
    [script EXCEPT !.attests = FALSE, !.checks = FALSE, !.then = "nothing", !.verifies = {}]
DaylightOff == PatchOnly(Script(<<"automations", "synthetic">>, {}, "first", FALSE))
SolarLearning == PatchOnly([Script(<<"solar_learning">>, {"solar_learning"}, "never", FALSE) EXCEPT !.wholes = {"solar_learning"}])

LuxManualPatch == [Script(<<"automations", "testing", "manual_off">>, {"manual_off"}, "each", TRUE) EXCEPT !.attests = FALSE]
LuxManualRollback == <<"automations", "testing", "manual_off">>
LuxManualOff == [LuxManualPatch EXCEPT !.restores = LuxManualRollback, !.verifies = {"up"}]
LuxV2Patch == [Script(<<"automations", "manual_off", "testing">>, {}, "each", TRUE) EXCEPT !.attests = FALSE]
LuxV2Rollback == <<"automations", "manual_off", "testing">>
LuxManualV2 ==
    [LuxV2Patch EXCEPT !.restores = LuxV2Rollback, !.then = "reload", !.reloads = {"automations", "manual_off"},
                       !.verifies = {"core"}, !.retracts = TRUE, !.confirms = FALSE]
LuxManualV2Steward == [LuxManualV2 EXCEPT !.verifies = {"files", "core"}, !.confirms = TRUE]

BackDoorPatch == Script(<<"backdoor">>, {}, "each", FALSE)
BackDoor == [BackDoorPatch EXCEPT !.verifies = {}]
Replacing(f) ==
    [Script(<<f>>, {}, "never", FALSE) EXCEPT !.wholes = {f}, !.tells = FALSE, !.verifies = {}]
DoorbellMerged == Replacing("doorbell_merged")
DoorbellMonitor == Replacing("doorbell_monitor")
WelcomePatch == [Script(<<"welcome">>, {"welcome"}, "each", FALSE) EXCEPT !.attests = FALSE]
Welcome == [WelcomePatch EXCEPT !.verifies = {"up"}]
\* Somebody is to reload the automations.
ToReload(script) ==
    [script EXCEPT !.attests = FALSE, !.looks = FALSE, !.then = "nothing", !.verifies = {"files"}]
PorchDarkDay == ToReload(Script(<<"automations">>, {}, "each", FALSE))

-----------------------------------------------------------------------------
(* Heating.                                                                *)

BoilerMonitor ==
    [Script(<<"boiler", "boiler_view">>, {"boiler", "boiler_view"}, "each", TRUE) EXCEPT
        !.attests = FALSE, !.verifies = {"up", "core"}]
HeatingPatch == Script(<<"schedule", "testing">>, {"schedule"}, "first", FALSE)
HeatingPresence == [HeatingPatch EXCEPT !.restores = <<"testing", "schedule">>]
BedtimeGardenPatch == Script(<<"bedtime">>, {}, "each", FALSE)
BedtimeGarden == [BedtimeGardenPatch EXCEPT !.verifies = {"up", "files"}]
BedtimeHeatingPatch == Script(<<"bedtime">>, {}, "each", FALSE)
BedtimeHeating == BedtimeHeatingPatch
ManualSetpoint == Script(<<"schedule">>, {}, "each", FALSE)
HallwaySchedule == Script(<<"schedule">>, {}, "each", FALSE)
HallwayObserver == [Script(<<"observer">>, {"observer"}, "each", FALSE) EXCEPT !.verifies = {"up", "core"}]
HallwayWarmup == Script(<<"warmup">>, {"warmup"}, "each", FALSE)

\* A view or a card of a dashboard, which Home Assistant reads when it is shown.
Card(undoes) ==
    [Script(<<"testing">>, {}, "each", undoes) EXCEPT !.checks = FALSE, !.then = "nothing", !.verifies = {}]
BoilerView == Card(TRUE)
TemperatureView == Card(TRUE)
ObserverCard == Card(FALSE)
ManualCard == Card(FALSE)

-----------------------------------------------------------------------------
(* The releases that run on Node C and move one file after another.        *)

Live(files, new) ==
    [Script(files, new, "never", FALSE) EXCEPT
        !.attests = FALSE, !.looks = FALSE, !.skips = TRUE, !.verifies = {"up", "files"}, !.retracts = TRUE]
AudioFiles == <<"testing", "house_clock", "westminster">>
AudioLighting == Live(AudioFiles, {})
LuxClockFiles == <<"westminster", "automations", "testing", "lux_weather">>
LuxClock == Live(LuxClockFiles, {"lux_weather"})

UrlsPatch == [Script(<<"configuration">>, {}, "each", FALSE) EXCEPT !.attests = FALSE]
GeneralUrls == [UrlsPatch EXCEPT !.looks = FALSE, !.leaves = TRUE, !.verifies = {"core"}]
TestingDashboard ==
    [Script(<<"testing", "cards", "configuration">>, {"cards"}, "never", FALSE) EXCEPT
        !.wholes = {"testing", "cards"}, !.attests = FALSE, !.restores = <<"configuration">>, !.looks = FALSE,
        !.tells = FALSE, !.leaves = TRUE, !.verifies = {"up"}]
TestingYaml == PatchOnly([Script(<<"testing">>, {}, "never", FALSE) EXCEPT !.wholes = {"testing"}])

-----------------------------------------------------------------------------
(* Home Assistant Primary, VM 902.                                         *)

PanelPatch == [Script(<<"panel", "configuration">>, {"panel"}, "each", TRUE) EXCEPT !.attests = FALSE]
PanelRollback == <<"configuration", "panel">>
EveningPanel == [PanelPatch EXCEPT !.restores = PanelRollback, !.verifies = {"up"}]
AreaPatch == [Script(<<"area_py", "area_json", "configuration">>, {"area_py", "area_json"}, "each", TRUE) EXCEPT !.attests = FALSE]
AreaRollback == <<"configuration", "area_py", "area_json">>
AreaPresence == [AreaPatch EXCEPT !.restores = AreaRollback, !.verifies = {"up"}]
PhoneAlert == ToReload(Script(<<"automations">>, {}, "each", FALSE))
=============================================================================
