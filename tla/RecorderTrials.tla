--------------------------- MODULE RecorderTrials ---------------------------
(***************************************************************************)
(* How the trials of RecorderPause differ, one record for each script.     *)
(* sees: the units it refuses to run beside; minds: the markers it refuses *)
(* to find; locks: whether it holds a lock of its own; marks: whether it   *)
(* writes a marker; resumes: when its exit trap resumes the recorder;      *)
(* cancels: when it cancels its timer; checks: what its timer looks at;    *)
(* after: whom its unit resumes after it has stopped ("nothing": it is not *)
(* a unit).                                                                *)
(***************************************************************************)

\* Run by hand, without a marker.
Bare(name) ==
    [name |-> name, sees |-> {}, minds |-> {}, locks |-> FALSE, marks |-> FALSE,
     resumes |-> "always", cancels |-> "always", checks |-> "process", after |-> "nothing"]
\* A unit with a marker in its directory.
Unit(name, sees) ==
    [Bare(name) EXCEPT !.sees = sees, !.minds = {name}, !.marks = TRUE, !.after = "owned"]
\* Run by hand, with a lock and a marker that names the process and its start.
Locked(name) ==
    [Bare(name) EXCEPT !.sees = {"v079", "v080"}, !.minds = {"obs11", name}, !.locks = TRUE,
                       !.marks = TRUE, !.resumes = "marked", !.cancels = "resumed",
                       !.checks = "identity"]

V055 == [Bare("v055") EXCEPT !.resumes = "noted"]
V056 == Bare("v056")
V061 == Bare("v061")
V070 == [Bare("v070") EXCEPT !.after = "any"]

Sees072 == {"v070"}
Sees075 == {"v070", "v072"}
Sees076 == {"v070", "v072", "v075"}
Sees077 == {"v070", "v072", "v075", "v076"}
Sees078 == {"v070", "v072", "v075", "v076", "v077"}
Sees079 == {"v070", "v072", "v075", "v076", "v077", "v078"}
Sees080 == {"v070", "v072", "v075", "v076", "v077", "v078", "v079"}
V072 == Unit("v072", Sees072)
V075 == Unit("v075", Sees075)
V076 == Unit("v076", Sees076)
V077 == Unit("v077", Sees077)
V078 == Unit("v078", Sees078)
V079 == Unit("v079", Sees079)
V080 == Unit("v080", Sees080)

Obs11Checks == [Bare("obs11") EXCEPT !.sees = {"v079", "v080"}, !.minds = {"obs11"}]
Obs11 == [Obs11Checks EXCEPT !.marks = TRUE, !.resumes = "marked", !.checks = "marker"]
Obs131 == Locked("obs131")
Obs132 == Locked("obs132")
Obs133 == Locked("obs133")
=============================================================================
