--------------------------- MODULE TakenForAWhile ---------------------------
(***************************************************************************)
(* The two components that take something for a while and must not leave   *)
(* it taken: the cover, which mutes the player, and the trials, which stop *)
(* the recorder.  They run beside each other and share no state.           *)
(***************************************************************************)
EXTENDS AdCover, RecorderPause

TakenSpec == CoverSpec /\ TrialsSpec

\* What is taken for a while is not left taken: a player muted against the
\* viewer's will has a record of how it was, and once the trials that stop the
\* recorder are over, it is not stopped, however they overlapped and wherever one
\* was interrupted or died.
NothingLeftTaken ==
    /\ CoverTypeOK /\ MuteIsRecorded
    /\ TrialsTypeOK /\ NoneLeftStopped
=============================================================================
