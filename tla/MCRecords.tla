----------------------------- MODULE MCRecords ------------------------------
(* ManagementPCs, SftpApp and AuditLog, each in the small instances that   *)
(* tell its properties apart. They share no state: a behaviour is about    *)
(* one of them, named by part; the variables of the others are unused.     *)
EXTENDS AuditLog, ManagementPCs, SftpApp, Integers, TLC

CONSTANTS d1, d2, k1, k2, p1, p2, w1, w2, u1,
    pc1, pc2, pc3, gateway, other

VARIABLE part    \* the part, and the instance of it, this behaviour is about
recordsVars == <<part, registrarVars, sftpVars, vars>>

\* Each PC has its publisher id.
Publisher == [d \in {d1, d2} |-> IF d = d1 THEN p1 ELSE p2]

\* Keys are alike, PCs are, and so are devices together with their publishers.
Swapped == (d1 :> d2) @@ (d2 :> d1) @@ (p1 :> p2) @@ (p2 :> p1)
Symmetric == Permutations({pc1, pc2}) \cup Permutations({k1, k2}) \cup {Swapped}
\* How often what may happen to the app; what is not named does not.
Times(times) == times @@ [m \in {"fail", "exit", "crash", "gateway", "release", "manual"} |-> 0]

\* Where management PCs are enrolled: a password was known and a call fails, or
\* Home Assistant dies, or nothing happens.
NoTrouble == [fail |-> 0, crash |-> 0, reload |-> 0, password |-> 0]
NewHome == [password |-> FALSE, times |-> NoTrouble]
Installations ==
    {[password |-> TRUE, times |-> [NoTrouble EXCEPT !.fail = 1]],
     [password |-> FALSE, times |-> [NoTrouble EXCEPT !.crash = 1]],
     NewHome}

\* How often what may happen to the trail.
TrailMishaps == [crash |-> 2, short |-> 1, fsync |-> 1, tamper |-> 1]

\* Where the app is driven: through failed calls and a crash; through an
\* update of it; beside other apps that come and go, and an administrator.
App(pcs, apps, newest, hosts, times) ==
    [pcs |-> pcs, others |-> apps, newest |-> newest, hosts |-> hosts, times |-> Times(times)]
AppSites ==
    {App({pc1, pc2}, {gateway}, 1, 1, ("fail" :> 1) @@ ("crash" :> 1)),
     App({pc3}, {gateway}, 2, 1, ("fail" :> 1) @@ ("exit" :> 1) @@ ("release" :> 1)),
     App({pc3}, {gateway, other}, 1, 2, ("gateway" :> 2) @@ ("manual" :> 1))}

\* The parts that the behaviour is not about.
RegistrarRests == RegistrarInit /\ home = NewHome /\ registry.legacy = {}
SftpRests ==
    SftpInit /\ listed /\ site.newest = 2 /\ others[gateway] = 0

RecordsInit ==
    \/ part = "registrar" /\ RegistrarInit /\ SftpRests /\ Init
    \/ part = "trail" /\ Init /\ RegistrarRests /\ SftpRests
    \/ part = "sftp" /\ SftpInit /\ RegistrarRests /\ Init

RecordsNext ==
    /\ UNCHANGED part
    /\ \/ part = "registrar" /\ RegistrarNext /\ UNCHANGED <<sftpVars, vars>>
       \/ part = "trail" /\ Next /\ UNCHANGED <<registrarVars, sftpVars>>
       \/ part = "sftp" /\ SftpNext /\ UNCHANGED <<registrarVars, vars>>

RecordsSpec == RecordsInit /\ [][RecordsNext]_recordsVars

=============================================================================
