--------------------------- MODULE PowerInterlock ---------------------------
(***************************************************************************)
(* The interlock around the router's mains socket                          *)
(* (example_packages/infrastructure_power_interlocks.yaml): arming, the    *)
(* controlled reboot with its lease and cool-down, and the automations     *)
(* that put power back.                                                    *)
(*                                                                         *)
(* Home Assistant carries out the steps of its scripts and automations as  *)
(* soon as they are due, so time passes only when nothing is due.          *)
(* Delays are remaining times that count down, in units of five seconds.   *)
(* A restart loses every running script and every "for" that was being     *)
(* waited for; the helpers keep their state, since none has an initial     *)
(* value.                                                                  *)
(***************************************************************************)
EXTENDS Naturals

CONSTANTS
    OffDelay,      \* how long the controlled reboot leaves the socket off
    ForceDelay,    \* how long the lease automation waits
    ArmDelay,      \* the arm script's delay
    ArmTimeout,    \* "for" of the stale-arm automation
    Cooldown,      \* the delay after a reboot
    Settings       \* bound: which calls to the socket may fail, and how often each
                   \* of the following may happen

Disturbances == {"fail",      \* a call to the socket raises
                 "restart",   \* Home Assistant is restarted
                 "raw",       \* somebody switches the raw socket off
                 "press"}     \* somebody arms a reboot
Never == 100       \* of a timer that is not running
ASSUME DelayAssumption ==
    /\ {OffDelay, ForceDelay, ArmDelay, ArmTimeout, Cooldown} \subseteq Nat \ {0}
    /\ ArmTimeout < Never
ASSUME SettingAssumption ==
    Settings \subseteq [fails: SUBSET {"cut", "restore", "guard", "force", "startup"},
                        times: [Disturbances -> Nat]]

Runs == {"arm", "reboot", "guard", "force", "startup"}
NoRun == [step |-> "none", left |-> 0]
Now(step) == [step |-> step, left |-> 0]
After(delay, step) == [step |-> step, left |-> delay]

VARIABLES
    setting,     \* one of Settings
    power,       \* switch.wdnas_power_socket
    rebootArmed, lease, cooldown,   \* the three input_booleans
    up,          \* Home Assistant runs
    run,         \* [Runs -> step to do next and the delay before it]
    stale,       \* time until the arm has been on for ArmTimeout
    powerBudget, \* disturbances left
    off,         \* ghost: how long power has been off while Home Assistant ran
    sinceCut,    \* ghost: time since the last controlled cut
    armedFor     \* ghost: how long the arm has been on

helpers == <<rebootArmed, lease, cooldown, stale>>
ghosts == <<off, sinceCut, armedFor>>
powerVars == <<setting, power, helpers, up, run, powerBudget, ghosts>>

PowerInit ==
    /\ setting \in Settings
    /\ power = TRUE /\ up = TRUE
    /\ rebootArmed = FALSE /\ lease = FALSE /\ cooldown = FALSE
    /\ run = [r \in Runs |-> NoRun]
    /\ stale = Never
    /\ powerBudget = setting.times
    /\ off = 0 /\ sinceCut = Cooldown /\ armedFor = 0

Disturb(mishap) == powerBudget[mishap] > 0 /\ powerBudget' = [powerBudget EXCEPT ![mishap] = @ - 1]
Due(r, step) == up /\ run[r] = Now(step)
SetRun(r, next) == run' = [run EXCEPT ![r] = next]

\* Mutant: switching the arm on again starts the "for" anew.
SetArmedAnew(value) ==
    /\ rebootArmed' = value
    /\ stale' = IF ~value THEN Never ELSE ArmTimeout
    /\ armedFor' = IF value /\ rebootArmed THEN armedFor ELSE 0

\* The trigger of the stale-arm automation starts with a change to "on" and
\* is given up with a change to "off".
SetArmed(value) ==
    /\ rebootArmed' = value
    /\ stale' = IF ~value THEN Never ELSE IF rebootArmed THEN stale ELSE ArmTimeout
    /\ armedFor' = IF value /\ rebootArmed THEN armedFor ELSE 0

\* A change of the socket to "off" starts the guard, or during a lease the
\* forced restoration; both are in mode restart.
PoweredOff(runs) == IF lease THEN [runs EXCEPT !["force"] = After(ForceDelay, "on")]
                    ELSE [runs EXCEPT !["guard"] = Now("on")]

\* One call of switch.turn_on in run r; a call that fails ends the run.
TurnOn(r, name, next) ==
    \/ power' = TRUE /\ SetRun(r, next) /\ UNCHANGED powerBudget
    \/ name \in setting.fails /\ Disturb("fail") /\ SetRun(r, NoRun) /\ UNCHANGED power

-----------------------------------------------------------------------------
(* The scripts.                                                            *)

\* draytek_router_arm_reboot, mode restart.
PressArm ==
    /\ up /\ Disturb("press")
    /\ SetArmed(TRUE)
    /\ SetRun("arm", After(ArmDelay, "disarm"))
    /\ UNCHANGED <<setting, power, lease, cooldown, up, off, sinceCut>>

Disarm ==
    /\ Due("arm", "disarm")
    /\ SetArmed(FALSE) /\ SetRun("arm", NoRun)
    /\ UNCHANGED <<setting, power, lease, cooldown, up, powerBudget, off, sinceCut>>

\* draytek_router_controlled_reboot, mode single: three conditions, then the
\* arm is used up.
PressReboot ==
    /\ up /\ run["reboot"] = NoRun
    /\ rebootArmed /\ ~cooldown /\ power
    /\ SetArmed(FALSE) /\ SetRun("reboot", Now("lease"))
    /\ UNCHANGED <<setting, power, lease, cooldown, up, powerBudget, off, sinceCut>>

TakeLease ==
    /\ Due("reboot", "lease")
    /\ lease' = TRUE /\ cooldown' = TRUE
    /\ SetRun("reboot", Now("cut"))
    /\ UNCHANGED <<setting, power, rebootArmed, stale, up, powerBudget, ghosts>>

Cut ==
    /\ Due("reboot", "cut")
    /\ \/ /\ power' = FALSE /\ sinceCut' = 0 /\ off' = IF power THEN 0 ELSE off
          /\ UNCHANGED armedFor
          /\ LET next == [run EXCEPT !["reboot"] = After(OffDelay, "restore")]
             IN  run' = IF power THEN PoweredOff(next) ELSE next
          /\ UNCHANGED powerBudget
       \/ "cut" \in setting.fails /\ Disturb("fail") /\ SetRun("reboot", NoRun) /\ UNCHANGED <<power, ghosts>>
    /\ UNCHANGED <<setting, helpers, up>>

Restore ==
    /\ Due("reboot", "restore")
    /\ TurnOn("reboot", "restore", Now("release"))
    /\ UNCHANGED <<setting, helpers, up, ghosts>>

ReleaseLease ==
    /\ Due("reboot", "release")
    /\ lease' = FALSE
    /\ SetRun("reboot", After(Cooldown, "cooled"))
    /\ UNCHANGED <<setting, power, rebootArmed, cooldown, stale, up, powerBudget, ghosts>>

\* Mutant: the cool-down is never switched off again.
CooledForgotten ==
    /\ Due("reboot", "cooled") /\ SetRun("reboot", NoRun)
    /\ UNCHANGED <<setting, power, helpers, up, powerBudget, ghosts>>

Cooled ==
    /\ Due("reboot", "cooled")
    /\ cooldown' = FALSE /\ SetRun("reboot", NoRun)
    /\ UNCHANGED <<setting, power, rebootArmed, lease, stale, up, powerBudget, ghosts>>

-----------------------------------------------------------------------------
(* The automations.                                                        *)

Guard ==
    /\ Due("guard", "on")
    /\ TurnOn("guard", "guard", NoRun)
    /\ UNCHANGED <<setting, helpers, up, ghosts>>

ForceOn ==
    /\ Due("force", "on")
    /\ TurnOn("force", "force", Now("release"))
    /\ UNCHANGED <<setting, helpers, up, ghosts>>

ForceRelease ==
    /\ Due("force", "release")
    /\ lease' = FALSE /\ SetRun("force", NoRun)
    /\ UNCHANGED <<setting, power, rebootArmed, cooldown, stale, up, powerBudget, ghosts>>

StartupOn ==
    /\ Due("startup", "on")
    /\ TurnOn("startup", "startup", Now("release"))
    /\ UNCHANGED <<setting, helpers, up, ghosts>>

StartupRelease ==
    /\ Due("startup", "release")
    /\ lease' = FALSE /\ SetRun("startup", NoRun)
    /\ UNCHANGED <<setting, power, rebootArmed, cooldown, stale, up, powerBudget, ghosts>>

\* infrastructure_draytek_arm_timeout_cleanup
ClearStaleArm ==
    /\ up /\ stale = 0
    /\ SetArmed(FALSE)
    /\ UNCHANGED <<setting, power, lease, cooldown, up, run, powerBudget, off, sinceCut>>

-----------------------------------------------------------------------------
(* Surroundings.                                                           *)

RawOff ==
    /\ up /\ power /\ Disturb("raw")
    /\ power' = FALSE /\ off' = 0 /\ run' = PoweredOff(run)
    /\ UNCHANGED <<setting, helpers, up, sinceCut, armedFor>>

HomeAssistantHalts ==
    /\ up /\ Disturb("restart")
    /\ up' = FALSE
    /\ run' = [r \in Runs |-> NoRun] /\ stale' = Never
    /\ UNCHANGED <<setting, power, rebootArmed, lease, cooldown, ghosts>>

\* infrastructure_draytek_startup_recovery.  A socket found off may also
\* look like a change to "off", if its integration comes up after the
\* automations.
HomeAssistantStarts ==
    /\ ~up
    /\ up' = TRUE /\ off' = 0
    /\ LET begun == IF lease THEN [run EXCEPT !["startup"] = Now("on")] ELSE run
       IN  run' \in IF power THEN {begun} ELSE {begun, PoweredOff(begun)}
    /\ UNCHANGED <<setting, power, helpers, powerBudget, sinceCut, armedFor>>

Waiting(r) == run[r] = NoRun \/ run[r].left > 0
TimePasses ==
    /\ up /\ stale > 0
    /\ \A r \in Runs : Waiting(r)
    /\ run' = [r \in Runs |-> IF run[r] = NoRun THEN NoRun ELSE [run[r] EXCEPT !.left = @ - 1]]
    /\ stale' = IF stale = Never THEN Never ELSE stale - 1
    /\ off' = IF power THEN 0 ELSE IF off > ForceDelay THEN off ELSE off + 1
    /\ sinceCut' = IF sinceCut = Cooldown THEN Cooldown ELSE sinceCut + 1
    /\ armedFor' = IF rebootArmed /\ armedFor <= ArmTimeout THEN armedFor + 1 ELSE armedFor
    /\ UNCHANGED <<setting, power, rebootArmed, lease, cooldown, up, powerBudget>>

Reboot == TakeLease \/ Cut \/ Restore \/ ReleaseLease \/ Cooled
Automations == Guard \/ ForceOn \/ ForceRelease \/ StartupOn \/ StartupRelease \/ ClearStaleArm
PowerNext == \/ PressArm \/ PressReboot \/ Disarm \/ Reboot \/ Automations
        \/ RawOff \/ HomeAssistantHalts \/ HomeAssistantStarts \/ TimePasses

PowerSpec == PowerInit /\ [][PowerNext]_powerVars

\* Home Assistant does what is due, is started again after a stop, and time
\* passes.  Nobody has to press anything.
PowerFair == /\ PowerSpec
            /\ WF_powerVars(Disarm) /\ WF_powerVars(Reboot)
            /\ WF_powerVars(Guard) /\ WF_powerVars(ForceOn \/ ForceRelease)
            /\ WF_powerVars(StartupOn \/ StartupRelease) /\ WF_powerVars(ClearStaleArm)
            /\ WF_powerVars(HomeAssistantStarts) /\ WF_powerVars(TimePasses)

-----------------------------------------------------------------------------
(* Properties.                                                             *)

PowerTypeOK ==
    /\ setting \in Settings
    /\ power \in BOOLEAN /\ rebootArmed \in BOOLEAN /\ lease \in BOOLEAN /\ cooldown \in BOOLEAN
    /\ up \in BOOLEAN
    /\ run \in [Runs -> [step : {"none", "disarm", "lease", "cut", "restore", "release", "cooled", "on"},
                          left : Nat]]
    /\ stale \in 0..ArmTimeout \cup {Never}
    /\ powerBudget \in [Disturbances -> Nat]
    /\ off \in 0..ForceDelay + 1 /\ sinceCut \in 0..Cooldown /\ armedFor \in 0..ArmTimeout + 1

\* The router is without power no longer than the forced restoration waits,
\* whoever switched the socket off and even if the reboot's own call to
\* switch it on failed.  (Home Assistant running.)
OffIsBrief == off <= ForceDelay

\* An arm does not last longer than the stale-arm automation waits, however
\* often it is set again.  (Home Assistant not restarted.)
ArmIsShort == armedFor <= ArmTimeout

\* Controlled reboots are at least a cool-down apart, restarts included.
RebootsArePaced == sinceCut' = 0 /\ sinceCut # 0 => sinceCut = Cooldown

\* The router's reboots are bounded: it is off no longer than the forced
\* restoration waits, whoever switched the socket off, unless that restoration's
\* own call or the guard's may fail, and an arm does not outlast the stale-arm
\* automation (both with Home Assistant not restarted); controlled reboots are a
\* cool-down apart, restarts included.
NoRestart == setting.times["restart"] = 0
GuardsWork == setting.fails \cap {"guard", "force"} = {}
RebootsAreBounded ==
    [][/\ PowerTypeOK' /\ RebootsArePaced
       /\ NoRestart => ArmIsShort'
       /\ NoRestart /\ GuardsWork => OffIsBrief']_powerVars

\* A router without power during a lease gets it back, also when a call of
\* the reboot fails and when Home Assistant restarts in the middle of it.
Powered == power
CutOff == ~power /\ lease
PowerReturns == CutOff ~> Powered

\* A lease ends.
Leased == lease
LeaseEnds == Leased ~> ~Leased

\* After a reboot the next one is possible again.
Cooling == cooldown
CooldownEnds == Cooling ~> ~Cooling
=============================================================================
