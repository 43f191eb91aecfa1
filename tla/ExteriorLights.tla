--------------------------- MODULE ExteriorLights ---------------------------
(***************************************************************************)
(* The Dogs Run light and the four automations that share it by night: the *)
(* back door (jns_garden_features_backdoor.yaml), Welcome Home             *)
(* (jns_welcome_home_vm905.STAGED.yaml), the doorbell and the motion       *)
(* sensor, whose conditions garden_features/patch_vm905.py writes.  Each   *)
(* of the first three has a timer and a flag, set when its timer is        *)
(* started, that says whether the light was on already.                    *)
(*                                                                         *)
(* Home Assistant runs what a trigger starts at once, so every action is a *)
(* whole automation, and time passes only when no release is due.          *)
(***************************************************************************)
EXTENDS Naturals

CONSTANTS
    Duration,   \* [timers -> length]
    Sources,    \* confirmed sources of presence
    MinimumAway,
    Events,     \* bound: how many things happen
    Uses        \* which automations there are, and whether somebody uses the switch

Timed == {"door", "welcome", "bell"}
ASSUME DemandAssumption ==
    /\ Duration \in [Timed -> Nat \ {0}]
    /\ Uses \subseteq [demands: SUBSET (Timed \cup {"pir"}), user: BOOLEAN]
ASSUME PresenceAssumption == MinimumAway \in Nat \ {0} /\ Events \in Nat

VARIABLES
    use,          \* one of Uses
    light,        \* the Dogs Run switch
    lightTimer,   \* [Timed -> time left; 0: idle]
    preexisting,  \* [Timed -> the flag]
    due,          \* timers that finished, their release not yet run
    occupancy,    \* the motion sensor
    away,         \* [Sources -> how long confirmed away; 0: at home]
    events,
    owner         \* ghost: who put the light on: "user", "demand", or "none"

lightsVars == <<use, light, lightTimer, preexisting, due, occupancy, away, events, owner>>
Active(t) == lightTimer[t] > 0

LightsInit ==
    /\ use \in Uses
    /\ light = FALSE /\ owner = "none"
    /\ lightTimer = [t \in Timed |-> 0] /\ preexisting = [t \in Timed |-> FALSE]
    /\ due = {} /\ occupancy = FALSE
    /\ away = [s \in Sources |-> 0]
    /\ events = 0

\* An event: a release that is due has run before it.
Happens == UNCHANGED use /\ due = {} /\ events < Events /\ events' = events + 1
SwitchOn == light' = TRUE /\ owner' = IF light THEN owner ELSE "demand"
SwitchOff == light' = FALSE /\ owner' = "none"
Leave == UNCHANGED <<light, owner>>

\* The flag is set if the timer does not run; the timer starts anew.
Request(t) ==
    /\ preexisting' = IF Active(t) THEN preexisting ELSE [preexisting EXCEPT ![t] = light]
    /\ lightTimer' = [lightTimer EXCEPT ![t] = Duration[t]]
    /\ SwitchOn

-----------------------------------------------------------------------------

OpenDoor ==
    /\ "door" \in use.demands /\ Happens
    /\ Request("door")
    /\ UNCHANGED <<due, occupancy, away>>

Ring ==
    /\ "bell" \in use.demands /\ Happens
    /\ Request("bell")
    /\ UNCHANGED <<due, occupancy, away>>

\* A source that does not say "home" for the first time.
Depart(s) ==
    /\ "welcome" \in use.demands /\ away[s] = 0 /\ Happens
    /\ away' = [away EXCEPT ![s] = 1]
    /\ Leave /\ UNCHANGED <<lightTimer, preexisting, due, occupancy>>

\* A source says "home"; the lights are asked for if it was away long enough.
Arrive(s) ==
    /\ away[s] > 0 /\ due = {}
    /\ away' = [away EXCEPT ![s] = 0]
    /\ IF away[s] > MinimumAway THEN Request("welcome") ELSE Leave /\ UNCHANGED <<lightTimer, preexisting>>
    /\ UNCHANGED <<use, due, occupancy, events>>

MotionBegins ==
    /\ "pir" \in use.demands /\ ~occupancy /\ Happens
    /\ occupancy' = TRUE /\ SwitchOn
    /\ UNCHANGED <<lightTimer, preexisting, due, away>>

MotionEnds ==
    /\ occupancy /\ due = {} /\ occupancy' = FALSE
    /\ IF \A t \in Timed : ~Active(t) THEN SwitchOff ELSE Leave
    /\ UNCHANGED <<use, lightTimer, preexisting, due, away, events>>

\* Only the user's own switching while nothing asks for the light is counted
\* as the user's.
UseSwitch ==
    /\ use.user /\ Happens
    /\ \A t \in Timed : ~Active(t)
    /\ ~occupancy
    /\ light' = ~light /\ owner' = IF light THEN "none" ELSE "user"
    /\ UNCHANGED <<lightTimer, preexisting, due, occupancy, away>>

Tick ==
    /\ due = {} /\ \E t \in Timed : Active(t) \/ \E s \in Sources : away[s] \in 1..MinimumAway
    /\ lightTimer' = [t \in Timed |-> IF Active(t) THEN lightTimer[t] - 1 ELSE 0]
    /\ due' = {t \in Timed : lightTimer[t] = 1}
    /\ away' = [s \in Sources |-> IF away[s] \in 1..MinimumAway THEN away[s] + 1 ELSE away[s]]
    /\ Leave /\ UNCHANGED <<use, preexisting, occupancy, events>>

-----------------------------------------------------------------------------
(* The releases.                                                           *)

Release(t, condition) ==
    /\ t \in due /\ due' = due \ {t}
    /\ IF ~preexisting[t] /\ condition THEN SwitchOff ELSE Leave
    /\ UNCHANGED <<use, lightTimer, preexisting, occupancy, away, events>>

\* Mutant: the back door does not look at Welcome Home.
ReleaseDoorHasty == Release("door", ~Active("bell") /\ ~occupancy)

ReleaseDoor == Release("door", ~Active("bell") /\ ~Active("welcome") /\ ~occupancy)
ReleaseWelcome == Release("welcome", ~Active("bell") /\ ~Active("door") /\ ~occupancy)
ReleaseBell == Release("bell", ~Active("door") /\ ~Active("welcome"))

Releases == ReleaseDoor \/ ReleaseWelcome \/ ReleaseBell
LightsNext ==
        \/ OpenDoor \/ Ring \/ MotionBegins \/ MotionEnds \/ UseSwitch \/ Tick
        \/ \E s \in Sources : Depart(s) \/ Arrive(s)
        \/ Releases

LightsSpec == LightsInit /\ [][LightsNext]_lightsVars
LightsFair ==
    /\ LightsSpec
    /\ WF_lightsVars(Tick) /\ WF_lightsVars(Releases) /\ WF_lightsVars(MotionEnds)

-----------------------------------------------------------------------------
(* Properties.                                                             *)

LightsTypeOK ==
    /\ use \in Uses
    /\ light \in BOOLEAN /\ occupancy \in BOOLEAN
    /\ lightTimer \in [Timed -> Nat] /\ \A t \in Timed : lightTimer[t] <= Duration[t]
    /\ preexisting \in [Timed -> BOOLEAN]
    /\ due \subseteq Timed
    /\ away \in [Sources -> 0..MinimumAway + 1]
    /\ events \in 0..Events /\ owner \in {"user", "demand", "none"}

\* No release takes the light from another timer that still asks for it,
\* however the four overlap.
DemandIsKept == (\E t \in Timed : Active(t)) => light

\* A light somebody had switched on before anything asked for it is not
\* switched off by a lightTimer's release.
UserLightIsKept == Releases /\ owner = "user" => light'

\* A timer's release takes the light neither from another timer that asks for it
\* nor from the user who had it on, whichever automations there are and whoever
\* also uses the switch.
LightIsKept ==
    [][LightsTypeOK' /\ UserLightIsKept /\ DemandIsKept']_lightsVars

\* A light put on for a while goes out again.
OnByDemand == owner = "demand"
LightGoesOut == OnByDemand ~> ~OnByDemand
=============================================================================
