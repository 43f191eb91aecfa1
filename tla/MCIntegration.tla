--------------------------- MODULE MCIntegration ----------------------------
(* PlatformUpdate and ServiceLayer, each in the small instances that tell  *)
(* its properties apart.  They share no state: a behaviour is about one of *)
(* them, named by part, and the other stays as it begins.                  *)
EXTENDS ServiceLayer, PlatformUpdate, TLC

CONSTANTS c1, c2

VARIABLE part    \* the part, and the instance of it, this behaviour is about

allVars == <<part, updateVars, vars>>

Symmetric == Permutations(Calls)

\* What may happen to the calls: the entry is reloaded and Home Assistant dies
\* under them, or their check raises.
CallMishap(reload, crash, raises) ==
    [m \in Mishaps |-> CASE m = "reload" -> reload [] m = "crash" -> crash
                         [] m = "check" -> raises [] m = "edit" -> 0]
Reloads == CallMishap(1, 1, 0)
Raises == CallMishap(0, 0, 1)

\* Three versions of the integration, an update from v0 to v1 and one from v0
\* or v1 to v2.
VersionNames == {"v0", "v1", "v2"}
UpdateNames == {"to_v1", "to_v2"}
From == [u \in UpdateNames |-> IF u = "to_v1" THEN {"v0"} ELSE {"v0", "v1"}]
To == [u \in UpdateNames |-> IF u = "to_v1" THEN "v1" ELSE "v2"]

\* Two updates with a crash and an archive put in the place of the validated one,
\* or one update and each mishap once.
TwoUpdates ==
    [updates |-> 2,
     mishaps |-> [m \in UpdateMishaps |-> IF m \in {"crash", "swap"} THEN 1 ELSE 0]]
OneUpdate == [updates |-> 1, mishaps |-> [m \in UpdateMishaps |-> 1]]
UpdateBounds == {TwoUpdates, OneUpdate}

Checks == INSTANCE ServiceLayer WITH Budget <- Raises

ASSUME ConstantAssumption == Checks!BoundAssumption

\* PlatformUpdate when the behaviour is not about it.
UpdateRests == UpdateInit /\ live = "v0" /\ bounds = OneUpdate

MCInit ==
    \/ part = "update" /\ UpdateInit /\ Init
    \/ part = "reloads" /\ Init /\ UpdateRests
    \/ part = "checks" /\ Checks!Init /\ UpdateRests

MCNext ==
    /\ UNCHANGED part
    /\ \/ part = "update" /\ UpdateNext /\ UNCHANGED vars
       \/ part = "reloads" /\ Next /\ UNCHANGED updateVars
       \/ part = "checks" /\ Checks!Next /\ UNCHANGED updateVars

MCSpec == MCInit /\ [][MCNext]_allVars
=============================================================================
