---------------------------- MODULE RecorderPause ---------------------------
(***************************************************************************)
(* The Veyra trials (src/gateway/trusted/veyra-*.sh) that stop the         *)
(* recorder of the virtual display while they capture from it.  Each finds *)
(* the recorder's process, arms a transient systemd timer that will resume *)
(* it, may write a marker, sends SIGSTOP, captures, and resumes it on exit *)
(* and cancels its timer; some run as a unit of systemd, which starts the  *)
(* script once more after it has stopped.  Nothing but what each looks at  *)
(* keeps them apart; RecorderTrials says how the scripts differ.           *)
(*                                                                         *)
(* The recorder's process is its number, given anew when its service       *)
(* restarts it.  A timer does not fire between its arming and the stop     *)
(* that follows at once: the shortest is of 35 seconds.                    *)
(***************************************************************************)
EXTENDS Naturals

CONSTANT
    Suites     \* the trials that come together: the script of each, see RecorderTrials,
               \* and the bounds: scripts that die without their exit trap, and
               \* restarts of the recorder

\* A script whose timer goes by a marker writes one, and is not a unit.
ScriptOK(script) ==
    /\ script.resumes \in {"always", "noted", "marked"}
    /\ script.cancels \in {"always", "resumed"}
    /\ script.after \in {"nothing", "any", "owned"}
    /\ script.checks \in {"process", "marker", "identity"}
    /\ {script.marks, script.locks} \subseteq BOOLEAN
    /\ script.resumes = "marked" => script.checks # "process"
    /\ script.checks # "process" => script.marks /\ script.after = "nothing"
ASSUME SuiteAssumption == \A s \in Suites :
    /\ \A t \in DOMAIN s.scripts : ScriptOK(s.scripts[t])
    /\ {s.kills, s.restarts} \subseteq Nat

-----------------------------------------------------------------------------

VARIABLES
    suite,     \* one of Suites
    recorder,  \* the recorder's process
    stopped,   \* whether it is stopped
    trialPc,   \* [Trials -> where the script is]
    found,     \* [Trials -> the process it has found, 0: none yet]
    noted,     \* the trials that have noted that they stopped it
    recMarker, \* [names of scripts -> the process their marker names, 0: no marker]
    recTimer,  \* [Trials -> the process its timer will resume, 0: no timer]
    asked,     \* the units that systemd is stopping
    kills      \* scripts that died

trialVars == <<suite, recorder, stopped, trialPc, found, noted, recMarker, recTimer,
    asked, kills>>

Script == suite.scripts
Trials == DOMAIN Script
Kills == suite.kills
Restarts == suite.restarts
MarkerNames == {Script[t].name : t \in Trials}
Processes == 1 .. 1 + Restarts
TrialPlaces == {"idle", "launched", "ready", "armed", "marked", "halted", "capturing",
           "cleaning", "resumed", "post", "killed", "ended"}

TrialsTypeOK ==
    /\ suite \in Suites
    /\ recorder \in Processes /\ stopped \in BOOLEAN
    /\ trialPc \in [Trials -> TrialPlaces]
    /\ found \in [Trials -> 0 .. 1 + Restarts] /\ recTimer \in [Trials -> 0 .. 1 + Restarts]
    /\ recMarker \in [MarkerNames -> 0 .. 1 + Restarts]
    /\ {noted, asked} \subseteq SUBSET Trials /\ kills \in 0 .. Kills

Marker(t) == recMarker[Script[t].name]
IsUnit(t) == Script[t].after # "nothing"

\* What systemctl is-active says of a trial's unit: not while systemd stops it.
UnitActive(t) ==
    /\ IsUnit(t) /\ t \notin asked
    /\ trialPc[t] \in {"launched", "ready", "armed", "marked", "halted", "capturing", "cleaning", "resumed"}
\* The lock is with the capture too, which outlives a script that is killed.
Holds(t) == Script[t].locks /\ trialPc[t] \notin {"idle", "launched", "ended"}

TrialsInit ==
    /\ suite \in Suites
    /\ recorder = 1 /\ stopped = FALSE
    /\ trialPc = [t \in Trials |-> "idle"] /\ found = [t \in Trials |-> 0]
    /\ noted = {} /\ asked = {} /\ kills = 0
    /\ recMarker = [n \in MarkerNames |-> 0] /\ recTimer = [t \in Trials |-> 0]

To(t, place) == trialPc' = [trialPc EXCEPT ![t] = place]
Becomes(t, process) == recMarker' = [recMarker EXCEPT ![Script[t].name] = process]
Fires(t) == recTimer' = [recTimer EXCEPT ![t] = 0]

-----------------------------------------------------------------------------
(* From the checks to the capture.                                         *)

Launch(t) ==
    /\ trialPc[t] = "idle" /\ To(t, "launched")
    /\ UNCHANGED <<suite, recorder, stopped, found, noted, recMarker, recTimer, asked, kills>>

\* Whatever else a script requires of the display may be missing.
Refuse(t) ==
    /\ trialPc[t] = "launched" /\ To(t, IF IsUnit(t) THEN "post" ELSE "ended")
    /\ UNCHANGED <<suite, recorder, stopped, found, noted, recMarker, recTimer, asked, kills>>

Preflight(t) ==
    /\ trialPc[t] = "launched"
    /\ \A u \in Trials \ {t} :
        /\ Script[u].name \in Script[t].sees => ~UnitActive(u)
        /\ Script[u].name = Script[t].name => ~Holds(u)
    /\ \A n \in Script[t].minds \cap MarkerNames : recMarker[n] = 0
    /\ found' = [found EXCEPT ![t] = recorder] /\ To(t, "ready")
    /\ UNCHANGED <<suite, recorder, stopped, noted, recMarker, recTimer, asked, kills>>

ArmResumption(t) ==
    /\ trialPc[t] = "ready" /\ To(t, "armed")
    /\ recTimer' = [recTimer EXCEPT ![t] = found[t]]
    /\ UNCHANGED <<suite, recorder, stopped, found, noted, recMarker, asked, kills>>

WriteMarker(t) ==
    /\ trialPc[t] = "armed" /\ To(t, "marked")
    /\ IF Script[t].marks THEN Becomes(t, found[t]) ELSE UNCHANGED recMarker
    /\ UNCHANGED <<suite, recorder, stopped, found, noted, recTimer, asked, kills>>

Halt(t) ==
    /\ trialPc[t] = "marked" /\ recorder = found[t]
    /\ stopped' = TRUE /\ To(t, "halted")
    /\ UNCHANGED <<suite, recorder, found, noted, recMarker, recTimer, asked, kills>>

\* The process is gone.  The scripts with an identity take marker and timer back.
HaltFails(t) ==
    /\ trialPc[t] = "marked" /\ recorder # found[t]
    /\ To(t, "cleaning")
    /\ IF Script[t].checks = "identity" THEN Becomes(t, 0) /\ Fires(t)
       ELSE UNCHANGED <<recMarker, recTimer>>
    /\ UNCHANGED <<suite, recorder, stopped, found, noted, asked, kills>>

Note(t) ==
    /\ trialPc[t] = "halted" /\ To(t, "capturing")
    /\ noted' = noted \cup {t}
    /\ UNCHANGED <<suite, recorder, stopped, found, recMarker, recTimer, asked, kills>>

-----------------------------------------------------------------------------
(* The exit trap and the unit.                                             *)

Finish(t) ==
    /\ trialPc[t] = "capturing" /\ To(t, "cleaning")
    /\ UNCHANGED <<suite, recorder, stopped, found, noted, recMarker, recTimer, asked, kills>>

\* A command fails or a signal arrives, between two commands.
Interrupt(t) ==
    /\ trialPc[t] \in {"ready", "armed", "marked", "halted", "capturing"} /\ To(t, "cleaning")
    /\ asked' \in {asked, IF IsUnit(t) THEN asked \cup {t} ELSE asked}
    /\ UNCHANGED <<suite, recorder, stopped, found, noted, recMarker, recTimer, kills>>

\* Whether the exit trap sends SIGCONT.
Acts(t) == CASE Script[t].resumes = "always" -> TRUE
             [] Script[t].resumes = "noted" -> t \in noted
             [] Script[t].resumes = "marked" -> Marker(t) # 0

ResumeRecorder(t) ==
    /\ trialPc[t] = "cleaning"
    /\ IF Acts(t) /\ recorder = found[t]
       THEN /\ stopped' = FALSE
            /\ IF Script[t].marks THEN Becomes(t, 0) ELSE UNCHANGED recMarker
            /\ To(t, "resumed")
       ELSE /\ UNCHANGED <<stopped, recMarker>>
            /\ To(t, IF Script[t].cancels = "always" THEN "resumed" ELSE "ended")
    /\ UNCHANGED <<suite, recorder, found, noted, recTimer, asked, kills>>

Cancel(t) ==
    /\ trialPc[t] = "resumed" /\ Fires(t)
    /\ To(t, IF IsUnit(t) THEN "post" ELSE "ended")
    /\ UNCHANGED <<suite, recorder, stopped, found, noted, recMarker, asked, kills>>

\* Before the timer is armed nothing is at stake.
Kill(t) ==
    /\ trialPc[t] \in {"armed", "marked", "halted", "capturing", "cleaning", "resumed"}
    /\ kills < Kills /\ kills' = kills + 1
    /\ To(t, IF IsUnit(t) THEN "post" ELSE "killed")
    /\ UNCHANGED <<suite, recorder, stopped, found, noted, recMarker, recTimer, asked>>

\* ExecStopPost; the marker's directory goes with the unit.
Recover(t) ==
    /\ trialPc[t] = "post" /\ To(t, "ended")
    /\ stopped' = IF \/ Script[t].after = "any"
                     \/ /\ Marker(t) = recorder
                        /\ ~\E u \in Trials : Script[u].name = "v070" /\ UnitActive(u)
                  THEN FALSE ELSE stopped
    /\ IF Script[t].marks THEN Becomes(t, 0) ELSE UNCHANGED recMarker
    /\ UNCHANGED <<suite, recorder, found, noted, recTimer, asked, kills>>

-----------------------------------------------------------------------------
(* The timers and the recorder.                                            *)

Checked(t) ==
    /\ recorder = recTimer[t]
    /\ CASE Script[t].checks = "process" -> TRUE
         [] Script[t].checks = "marker" -> Marker(t) # 0
         [] Script[t].checks = "identity" -> Marker(t) = recTimer[t]

ResumptionFires(t) ==
    /\ recTimer[t] # 0 /\ trialPc[t] \notin {"armed", "marked"}
    /\ Fires(t)
    /\ IF Checked(t)
       THEN /\ stopped' = FALSE
            /\ IF Script[t].checks = "process" THEN UNCHANGED recMarker ELSE Becomes(t, 0)
       ELSE UNCHANGED <<stopped, recMarker>>
    /\ UNCHANGED <<suite, recorder, trialPc, found, noted, asked, kills>>

RecorderRestarts ==
    /\ recorder <= Restarts /\ recorder' = recorder + 1
    /\ stopped' = FALSE
    /\ UNCHANGED <<suite, trialPc, found, noted, recMarker, recTimer, asked, kills>>

-----------------------------------------------------------------------------

\* What goes on by itself once a trial has stopped the recorder.
Proceed(t) == Halt(t) \/ HaltFails(t) \/ Note(t) \/ Finish(t) \/ ResumeRecorder(t) \/ Cancel(t) \/ Recover(t)
Step(t) ==
    \/ Launch(t) \/ Refuse(t) \/ Preflight(t) \/ ArmResumption(t) \/ WriteMarker(t) \/ Interrupt(t) \/ Kill(t)
    \/ Proceed(t) \/ ResumptionFires(t)
TrialsNext == (\E t \in Trials : Step(t)) \/ RecorderRestarts

TrialsSpec == TrialsInit /\ [][TrialsNext]_trialVars
\* A capture is bounded, the exit trap and the unit go on, and timers elapse.
AllTrials == UNION {DOMAIN s.scripts : s \in Suites}
TrialsFair ==
    /\ TrialsSpec
    /\ \A t \in AllTrials : /\ WF_trialVars(t \in Trials /\ Proceed(t))
                            /\ WF_trialVars(t \in Trials /\ ResumptionFires(t))

-----------------------------------------------------------------------------

\* No two trials share a marker that a timer looks at.
MarkersApart ==
    \A t, u \in Trials : Script[t].checks # "process" /\ Script[t].name = Script[u].name => t = u

\* A script that goes by its note is lost between stopping the recorder and noting it.
Unnoted == {t \in Trials : Script[t].resumes = "noted" /\ found[t] # 0 /\ t \notin noted}

\* Once every trial is over and no timer is left, the recorder records: however
\* the trials overlap, wherever one is interrupted or dies, and whether or not the
\* recorder was restarted meanwhile.  (The same script is not run twice at once, if its
\* timer goes by a marker.)
NoneLeftStopped ==
    /\ MarkersApart
    /\ \A t \in Trials : trialPc[t] \in {"idle", "ended", "killed"} /\ recTimer[t] = 0
    /\ Unnoted = {}
    => ~stopped

\* A recorder that was stopped records again.
Silent == stopped
SilenceEnds == Silent ~> ~Silent
=============================================================================
