------------------------------ MODULE AdCover ------------------------------
(***************************************************************************)
(* The advert recogniser (vision.py) and the cover controller (cover.py)   *)
(* it calls.  The recogniser watches the picture for entrance and exit     *)
(* graphics and asks the controller, with a time-out of two seconds, to    *)
(* show or to remove a cover over the television picture.  The controller  *)
(* works through one request at a time, under its lock, and so does its    *)
(* keeper thread; a request whose caller has given up is still carried     *)
(* out.  While the cover is shown the player is muted, and a file records  *)
(* whether it was before.                                                  *)
(***************************************************************************)
EXTENDS Naturals, FiniteSets

CONSTANTS
    HeaderAgrees,  \* whether the controller takes the header the others send
    AdBudget       \* bound: how often each of the following may happen

CoverMishaps == {"break",    \* an advertisement break
            "late",     \* the recogniser gives up on a request that is pending
            "refuse",   \* the controller refuses a request
            "nonzero",  \* pactl ends with an error
            "raise",    \* pactl times out, or there is no Wayland socket
            "crash",    \* the controller dies
            "visionstop", \* the recogniser is stopped
            "sampling", \* the picture cannot be sampled
            "mode",     \* the operator selects a mode or a provider
            "manual",   \* the operator previews or ends a cover
            "die",      \* a cover process ends by itself
            "player"}   \* the player is started again
ASSUME CoverAssumption ==
    HeaderAgrees \in BOOLEAN /\ AdBudget \in [CoverMishaps -> Nat]

NoFile == [pid |-> 0, was |-> FALSE]
Kinds == {"start", "end", "preview"}

VARIABLES
    tv,        \* what is broadcast: "programme" or "advert"
    bumper,    \* the graphic on the screen: "in", "out" or "none"
    mode, phase, \* MODE and PHASE of the recogniser
    call,      \* the request it is waiting for, "none" if it is not
    pending,   \* requests at the controller, not begun
    ctl,       \* the controller: "idle", or its next step
    serving,   \* what it works for: a request, "keeper", "recover" or "none"
    cover,     \* COVER: "none", "on", "preview" or "dead"
    keeper,    \* the keeper thread is alive
    file,      \* the record of the prior mute
    player, muted, \* process id of the player, and its sink input
    adBudget,
    wantedMute \* ghost: mute as the viewer left it

vision == <<mode, phase, call>>
control == <<ctl, serving, cover, keeper>>
audio == <<file, player, muted, wantedMute>>
coverVars == <<tv, bumper, vision, pending, control, audio, adBudget>>

CoverInit ==
    /\ tv = "programme" /\ bumper = "none"
    /\ mode \in {"observe", "armed"} /\ phase = "programme" /\ call = "none"
    /\ pending = {} /\ ctl = "idle" /\ serving = "none" /\ cover = "none" /\ keeper = TRUE
    /\ file = NoFile /\ player = 1
    /\ muted \in BOOLEAN /\ wantedMute = muted
    /\ adBudget = AdBudget

SpendCover(m) == adBudget[m] > 0 /\ adBudget' = [adBudget EXCEPT ![m] = @ - 1]

-----------------------------------------------------------------------------
(* The broadcast and the viewer.                                           *)

BreakBegins ==
    /\ tv = "programme" /\ bumper = "none" /\ SpendCover("break")
    /\ tv' = "advert" /\ bumper' = "in"
    /\ UNCHANGED <<vision, pending, control, audio>>

BreakEnds ==
    /\ tv = "advert" /\ bumper = "none"
    /\ tv' = "programme" /\ bumper' = "out"
    /\ UNCHANGED <<vision, pending, control, audio, adBudget>>

\* A graphic stays long enough to be seen, unless sampling is interrupted.
BumperGoes ==
    /\ bumper # "none" /\ call = "none"
    /\ \/ phase = (IF bumper = "in" THEN "ad-break" ELSE "programme") /\ UNCHANGED adBudget
       \/ bumper = "in" /\ phase = "programme" /\ SpendCover("sampling")
    /\ bumper' = "none"
    /\ UNCHANGED <<tv, vision, pending, control, audio>>

PlayerRestarts ==
    /\ SpendCover("player")
    /\ player' = player + 1 /\ muted' = FALSE /\ wantedMute' = FALSE
    /\ UNCHANGED <<tv, bumper, vision, pending, control, file>>

-----------------------------------------------------------------------------
(* The recogniser.                                                         *)

\* cover_signal: a request whose answer is awaited, or one refused for its
\* header.
Send(kind) ==
    IF HeaderAgrees THEN call' = kind /\ pending' = pending \cup {kind}
    ELSE UNCHANGED <<call, pending>>

SeeIn ==
    /\ bumper = "in" /\ phase = "programme" /\ call = "none"
    /\ IF mode = "armed" THEN Send("start") /\ phase' = (IF HeaderAgrees THEN "ad-break" ELSE phase)
       ELSE phase' = "ad-break" /\ UNCHANGED <<call, pending>>
    /\ UNCHANGED <<tv, bumper, mode, control, audio, adBudget>>

SeeOut ==
    /\ bumper = "out" /\ phase = "ad-break" /\ call = "none"
    /\ phase' = "programme"
    /\ IF mode = "armed" THEN Send("end") ELSE UNCHANGED <<call, pending>>
    /\ UNCHANGED <<tv, bumper, mode, control, audio, adBudget>>

\* The capture process ends.
SamplingLost ==
    /\ call = "none" /\ mode = "armed" /\ phase = "ad-break" /\ SpendCover("sampling")
    /\ phase' = "programme" /\ Send("end")
    /\ UNCHANGED <<tv, bumper, mode, control, audio>>

\* A start not acknowledged: the observer is rearmed.  An end not
\* acknowledged: nothing.
NotAcknowledged ==
    /\ call' = "none"
    /\ phase' = IF call = "start" THEN "programme" ELSE phase

GivesUp ==
    /\ call \in pending \/ serving = call
    /\ call # "none" /\ SpendCover("late")
    /\ NotAcknowledged
    /\ UNCHANGED <<tv, bumper, mode, pending, control, audio>>

\* Selecting a mode, or a provider, sets the phase back.
SelectMode ==
    /\ call = "none" /\ SpendCover("mode")
    /\ mode' \in {"observe", "armed"} /\ phase' = "programme"
    /\ UNCHANGED <<tv, bumper, call, pending, control, audio>>

\* ExecStopPost asks for the cover to be removed; the recogniser is started
\* again in observation mode.
VisionStops ==
    /\ SpendCover("visionstop")
    /\ mode' = "observe" /\ phase' = "programme" /\ call' = "none"
    /\ pending' = IF HeaderAgrees THEN pending \cup {"end"} ELSE pending
    /\ UNCHANGED <<tv, bumper, control, audio>>

-----------------------------------------------------------------------------
(* The controller.                                                         *)

Manual ==
    /\ SpendCover("manual")
    /\ \E kind \in {"end", "preview"} : pending' = pending \cup {kind}
    /\ UNCHANGED <<tv, bumper, vision, control, audio>>

\* The end of an operation, with its answer.
Answer(ok) ==
    /\ ctl' = "idle" /\ serving' = "none"
    /\ IF call = serving /\ call # "none"
       THEN IF ok THEN call' = "none" /\ UNCHANGED phase ELSE NotAcknowledged
       ELSE UNCHANGED <<call, phase>>

\* service_live before the start, or the request's form.
RefuseRequest ==
    /\ ctl = "idle" /\ pending # {} /\ SpendCover("refuse")
    /\ \E kind \in pending :
          /\ pending' = pending \ {kind}
          /\ IF call = kind THEN NotAcknowledged ELSE UNCHANGED <<call, phase>>
    /\ UNCHANGED <<tv, bumper, mode, control, audio>>

Take ==
    /\ ctl = "idle"
    /\ \E kind \in pending : pending' = pending \ {kind} /\ serving' = kind
    /\ ctl' = "stop"
    /\ UNCHANGED <<tv, bumper, vision, cover, keeper, audio, adBudget>>

Keep ==
    /\ ctl = "idle" /\ keeper /\ cover = "dead"
    /\ ctl' = "stop" /\ serving' = "keeper"
    /\ UNCHANGED <<tv, bumper, vision, pending, cover, keeper, audio, adBudget>>

\* The first half of stop_cover, with which start_cover also begins.
StopCover ==
    /\ ctl = "stop"
    /\ cover' = "none" /\ ctl' = "restore"
    /\ UNCHANGED <<tv, bumper, vision, pending, serving, keeper, audio, adBudget>>

AfterRestore ==
    IF serving \in {"start", "preview"}
    THEN ctl' = "show" /\ UNCHANGED <<call, phase, serving>>
    ELSE Answer(TRUE)

\* Mutant: the record is removed first, and used if it was read in time.
RestoreForgetting ==
    /\ ctl = "restore" /\ AfterRestore
    /\ file' = NoFile /\ UNCHANGED <<muted, adBudget>>
    /\ UNCHANGED <<tv, bumper, mode, pending, cover, keeper, player, wantedMute>>

\* restore_audio: the status of pactl is not looked at.
RestoreAudio ==
    /\ ctl = "restore" /\ AfterRestore
    /\ file' = NoFile
    /\ \/ /\ muted' = IF file # NoFile /\ file.pid = player THEN file.was ELSE muted
          /\ UNCHANGED adBudget
       \/ file # NoFile /\ file.pid = player /\ SpendCover("nonzero") /\ UNCHANGED muted
    /\ UNCHANGED <<tv, bumper, mode, pending, cover, keeper, player, wantedMute>>

\* An exception: the record stays.  It ends the keeper thread; at the start
\* it is only reported.
RestoreRaises ==
    /\ ctl = "restore" /\ file # NoFile /\ file.pid = player /\ SpendCover("raise")
    /\ Answer(FALSE)
    /\ keeper' = (keeper /\ serving # "keeper")
    /\ UNCHANGED <<tv, bumper, mode, pending, cover, audio>>

Show ==
    /\ ctl = "show"
    /\ \/ /\ serving = "start" /\ cover' = "on" /\ ctl' = "record"
          /\ UNCHANGED <<serving, call, phase, adBudget>>
       \/ serving = "preview" /\ cover' = "preview" /\ Answer(TRUE) /\ UNCHANGED adBudget
       \/ SpendCover("raise") /\ Answer(FALSE) /\ UNCHANGED cover
    /\ UNCHANGED <<tv, bumper, mode, pending, keeper, audio>>

\* Mutant: the player counts as not muted before.
RecordUnmuted ==
    /\ ctl = "record" /\ file' = [pid |-> player, was |-> FALSE] /\ ctl' = "mute"
    /\ UNCHANGED <<tv, bumper, vision, pending, serving, cover, keeper, player, muted, wantedMute, adBudget>>

\* mute_player: the record comes first.  An exception here is caught.
Record ==
    /\ ctl = "record"
    /\ \/ /\ file' = [pid |-> player, was |-> muted] /\ ctl' = "mute"
          /\ UNCHANGED <<serving, call, phase, adBudget>>
       \/ SpendCover("raise") /\ Answer(TRUE) /\ UNCHANGED file
    /\ UNCHANGED <<tv, bumper, mode, pending, cover, keeper, player, muted, wantedMute>>

Mute ==
    /\ ctl = "mute" /\ Answer(TRUE)
    /\ \/ muted' = (muted \/ file.pid = player) /\ UNCHANGED adBudget
       \/ (SpendCover("nonzero") \/ SpendCover("raise")) /\ UNCHANGED muted
    /\ UNCHANGED <<tv, bumper, mode, pending, cover, keeper, file, player, wantedMute>>

\* A preview ends after eight seconds; another cover process may die.
CoverDies ==
    /\ \/ cover = "preview" /\ UNCHANGED adBudget
       \/ cover = "on" /\ SpendCover("die")
    /\ ctl = "idle" /\ cover' = "dead"
    /\ UNCHANGED <<tv, bumper, vision, pending, ctl, serving, keeper, audio>>

\* Systemd ends the cover process too and starts the controller again, which
\* begins with recover.
Crash ==
    /\ SpendCover("crash")
    /\ ctl' = "restore" /\ serving' = "recover" /\ cover' = "none" /\ keeper' = TRUE
    /\ pending' = {}
    /\ IF call # "none" THEN NotAcknowledged ELSE UNCHANGED <<call, phase>>
    /\ UNCHANGED <<tv, bumper, mode, audio>>

-----------------------------------------------------------------------------

Recogniser == SeeIn \/ SeeOut
Controller == \/ Take \/ Keep \/ StopCover \/ RestoreAudio \/ RestoreRaises
              \/ Show \/ Record \/ Mute
Troubles == \/ SamplingLost \/ GivesUp \/ SelectMode \/ VisionStops \/ Manual \/ RefuseRequest
            \/ Crash \/ PlayerRestarts
CoverNext == BreakBegins \/ BreakEnds \/ BumperGoes \/ Recogniser \/ Controller \/ CoverDies \/ Troubles

CoverSpec == CoverInit /\ [][CoverNext]_coverVars

PreviewDies == cover = "preview" /\ CoverDies

\* Breaks end, graphics go away, frames are looked at and the controller
\* does its work; nobody has to use the controls.
CoverFair == /\ CoverSpec
            /\ WF_coverVars(BreakEnds) /\ WF_coverVars(BumperGoes) /\ WF_coverVars(Recogniser)
            /\ WF_coverVars(Controller) /\ WF_coverVars(PreviewDies)

-----------------------------------------------------------------------------
(* Properties.                                                             *)

CoverTypeOK ==
    /\ tv \in {"programme", "advert"} /\ bumper \in {"none", "in", "out"}
    /\ mode \in {"observe", "armed"} /\ phase \in {"programme", "ad-break"}
    /\ call \in {"none", "start", "end"} /\ pending \subseteq Kinds
    /\ ctl \in {"idle", "stop", "restore", "show", "record", "mute"}
    /\ serving \in Kinds \cup {"none", "keeper", "recover"}
    /\ cover \in {"none", "on", "preview", "dead"} /\ {keeper, muted, wantedMute} \subseteq BOOLEAN
    /\ file \in [pid : Nat, was : BOOLEAN] /\ player \in Nat
    /\ adBudget \in [CoverMishaps -> Nat]

\* The player is muted against the viewer's will only while a record says
\* how it was: crashes of the controller, exceptions, restarted players and
\* repeated starts included.  (No call of pactl ends with an error: restore_audio
\* does not look at its status.)
MuteIsRecorded ==
    AdBudget["nonzero"] = 0 => muted = wantedMute \/ (file.pid = player /\ file.was = wantedMute)

\* Once no cover is shown, the sound is as the viewer left it again.
Shown == cover = "on"
MutedAlone == ~Shown /\ muted # wantedMute
AudioReturns == MutedAlone ~> ~MutedAlone

\* A cover does not hide the picture for ever.
CoverEnds == Shown ~> ~Shown

\* An armed recogniser that sees a break begin has it covered.
BreakSeen == bumper = "in" /\ mode = "armed" /\ phase = "programme"
BreakIsCovered == BreakSeen ~> Shown
=============================================================================
