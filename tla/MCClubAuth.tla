----------------------------- MODULE MCClubAuth -----------------------------
(* ClubAuth and TotpReplay for TLC: one officer with two keys who logs in  *)
(* while another request is served; two officers who can approve and a     *)
(* third who recovers; one-time codes that overlap.  The two modules share *)
(* no state: a behaviour is about one instance of one of them, named by    *)
(* part, and leaves the variables of the other as they begin.              *)
EXTENDS ClubAuth, TotpReplay, TLC

CONSTANTS o1, o2, o3, k1, k2, k3, c1, c2, c3, s1, s2, s3

VARIABLE part    \* the part, and the instance of it, this behaviour is about

\* How often what may happen; what is not named does not.
Times(times) == times @@ [e \in Events |-> 0]
LoginTimes == Times([e \in {"suspend", "revoke", "logout", "late", "die"} |-> 1])
LoginFounders == (o1 :> {k1, k2})

Recovering == INSTANCE ClubAuth WITH
    Officers <- {o1, o2, o3}, Keys <- {k1, k2, k3}, Counting <- {},
    Founders <- (o1 :> {k1} @@ o2 :> {k2} @@ o3 :> {}),
    Challenges <- {c1, c2, c3}, Sessions <- {s1, s2}, Threads <- {"t1"}, MaxCount <- 0,
    Budget <- Times([e \in {"suspend", "withdraw", "lapse", "logout"} |-> 1])

\* Challenges and sessions are interchangeable.
Symmetric == Permutations({c1, c2, c3}) \cup Permutations({s1, s2, s3})

ASSUME RecoveringAssumption == Recovering!Sensible

MCInit ==
    /\ CodeInit
    /\ \/ part \in {"codes", "login"} /\ Init
       \/ part = "recovery" /\ Recovering!Init

MCNext ==
    /\ UNCHANGED part
    /\ \/ part = "codes" /\ CodeNext /\ UNCHANGED vars
       \/ part = "login" /\ Next /\ UNCHANGED codeVars
       \/ part = "recovery" /\ Recovering!Next /\ UNCHANGED codeVars

MCSpec == MCInit /\ [][MCNext]_<<part, vars, codeVars>>
=============================================================================
