------------------------------ MODULE MCHouse -------------------------------
(* The parts that keep the house running, each in the small instances that *)
(* tell its properties apart. They share no state: a behaviour is about    *)
(* one of them, named by part; the variables of the others are unused.     *)
EXTENDS ControllerHandover, PowerInterlock, PackageHandler, DnsImport, ExteriorLights,
    TakenForAWhile, RecorderTrials

CONSTANTS macA, macB, macC, adr1, adr2, adr3

VARIABLE part    \* the part this behaviour is about

houseVars == <<part, vars, powerVars, handlerVars, dnsVars, coverVars, lightsVars, trialVars>>

\* The mishaps of the cover that are met, the others never are.
HouseMishaps ==
    [m \in CoverMishaps |->
        IF m \in {"break", "player", "raise", "crash"} THEN 2
        ELSE IF m \in {"manual", "die", "visionstop"} THEN 1 ELSE 0]

\* The trials, each with every one that it can meet: a capture is killed, and for
\* some the recorder is restarted.
HouseSuites ==
    {[scripts |-> [a |-> V055, b |-> V056, c |-> V072], kills |-> 1, restarts |-> 0],
     [scripts |-> [a |-> V070, b |-> V075, c |-> V079], kills |-> 1, restarts |-> 0],
     [scripts |-> [a |-> V076, b |-> V077], kills |-> 1, restarts |-> 1],
     [scripts |-> [a |-> V078, b |-> Obs11], kills |-> 1, restarts |-> 1],
     [scripts |-> [a |-> V080, b |-> Obs131, c |-> Obs132], kills |-> 1, restarts |-> 0],
     [scripts |-> [a |-> V061, b |-> Obs133], kills |-> 1, restarts |-> 1]}

\* The commands run and are looked at, the backup can be made and the handler lives;
\* the handler dies, its rollback fails, a restart may come late.
Observed == {"write", "restart"} \cup Looking
HouseMachines ==
    {[fails |-> Observed, late |-> Looking, dies |-> FALSE],
     [fails |-> Observed \cup {"rollback"}, late |-> Looking \cup {"restart"}, dies |-> TRUE]}

\* The router's socket: no restart, and the guard's and the forced restoration's
\* calls do not fail; one restart, and every call may fail.
HouseSettings ==
    {[fails |-> {"cut", "restore"},
      times |-> [m \in Disturbances |-> CASE m = "fail" -> 1 [] m = "restart" -> 0
                                            [] m = "raw" -> 2 [] m = "press" -> 3]],
     [fails |-> {"cut", "restore", "guard", "force", "startup"},
      times |-> [m \in Disturbances |-> IF m = "press" THEN 3 ELSE 1]]}

\* Two of the three MACs share a name.
NameOfMac == [mac \in Macs |-> IF mac = macA THEN 1 ELSE 2]
Files == {{}, {<<macA, adr1>>, <<macB, adr2>>}, {<<macA, adr2>>, <<macB, adr1>>},
          {<<macA, adr3>>, <<macC, adr1>>}, {<<macB, adr1>>, <<macC, adr2>>},
          {<<macA, adr1>>, <<macC, adr1>>}, {<<macC, adr3>>}}

\* Each timer can begin before and end after each other one.
Durations == [t \in {"door", "welcome", "bell"} |-> IF t = "bell" THEN 2 ELSE 3]

\* The four automations by themselves; those with a timer beside the user.
HouseUses ==
    {[demands |-> {"door", "welcome", "bell", "pir"}, user |-> FALSE],
     [demands |-> {"door", "welcome", "bell"}, user |-> TRUE]}

\* Cutover and acceptance beside the watchdogs, beside the timer, and handing back
\* without them.
HousePlans ==
    {[jobs |-> {"cutover", "accept"}, watchdogs |-> {"cron", "timer"}],
     [jobs |-> {"cutover", "accept"}, watchdogs |-> {"timer"}],
     [jobs |-> {"cutover", "emergency"}, watchdogs |-> {}]}

\* The parts that the behaviour is not about.
HandoverRests == Init /\ plan = CHOOSE least \in Plans : TRUE
PowerRests == PowerInit /\ setting = CHOOSE one \in Settings : TRUE
HandlerRests == HandlerInit /\ machine = (CHOOSE m \in Machines : TRUE) /\ disk.target = Absent
DnsRests == DnsInit /\ rewrites = {}
CoverRests == CoverInit /\ mode = "observe" /\ muted = FALSE
LightsRests == LightsInit /\ use = CHOOSE one \in Uses : TRUE
TrialsRest == TrialsInit /\ suite = CHOOSE one \in Suites : TRUE

HouseInit ==
    \/ part = "handover" /\ Init /\ PowerRests /\ HandlerRests /\ DnsRests
       /\ CoverRests /\ LightsRests /\ TrialsRest
    \/ part = "power" /\ PowerInit /\ HandoverRests /\ HandlerRests /\ DnsRests
       /\ CoverRests /\ LightsRests /\ TrialsRest
    \/ part = "handler" /\ HandlerInit /\ HandoverRests /\ PowerRests /\ DnsRests
       /\ CoverRests /\ LightsRests /\ TrialsRest
    \/ part = "dns" /\ DnsInit /\ HandoverRests /\ PowerRests /\ HandlerRests
       /\ CoverRests /\ LightsRests /\ TrialsRest
    \/ part = "cover" /\ CoverInit /\ HandoverRests /\ PowerRests /\ HandlerRests
       /\ DnsRests /\ LightsRests /\ TrialsRest
    \/ part = "lights" /\ LightsInit /\ HandoverRests /\ PowerRests /\ HandlerRests
       /\ DnsRests /\ CoverRests /\ TrialsRest
    \/ part = "trials" /\ TrialsInit /\ HandoverRests /\ PowerRests /\ HandlerRests
       /\ DnsRests /\ CoverRests /\ LightsRests

HouseNext ==
    /\ UNCHANGED part
    /\ \/ part = "handover" /\ Next
          /\ UNCHANGED <<powerVars, handlerVars, dnsVars, coverVars, lightsVars, trialVars>>
       \/ part = "power" /\ PowerNext
          /\ UNCHANGED <<vars, handlerVars, dnsVars, coverVars, lightsVars, trialVars>>
       \/ part = "handler" /\ HandlerNext
          /\ UNCHANGED <<vars, powerVars, dnsVars, coverVars, lightsVars, trialVars>>
       \/ part = "dns" /\ DnsNext
          /\ UNCHANGED <<vars, powerVars, handlerVars, coverVars, lightsVars, trialVars>>
       \/ part = "cover" /\ CoverNext
          /\ UNCHANGED <<vars, powerVars, handlerVars, dnsVars, lightsVars, trialVars>>
       \/ part = "lights" /\ LightsNext
          /\ UNCHANGED <<vars, powerVars, handlerVars, dnsVars, coverVars, trialVars>>
       \/ part = "trials" /\ TrialsNext
          /\ UNCHANGED <<vars, powerVars, handlerVars, dnsVars, coverVars, lightsVars>>

HouseSpec == HouseInit /\ [][HouseNext]_houseVars

\* The properties are the components' own; a part that rests has them too.
=============================================================================
