SPECIFICATION HouseSpec
CONSTANTS
    Plans <- HousePlans
    MaxFaults = 3
    macA = macA
    macB = macB
    macC = macC
    adr1 = adr1
    adr2 = adr2
    adr3 = adr3
    OffDelay = 2
    ForceDelay = 3
    ArmDelay = 12
    ArmTimeout = 13
    Cooldown = 60
    Settings <- HouseSettings
    Macs = {macA, macB, macC}
    NameOf <- NameOfMac
    Addresses = {adr1, adr2, adr3}
    Uploads <- Files
    Importers = {importer}
    Imports = 4
    Failures = 3
    Duration <- Durations
    Sources = {phone, wifi}
    MinimumAway = 2
    Events = 7
    Uses <- HouseUses
    Packages = {p, q, bad}
    Valid = {p, q}
    Prior = prior
    Absent = absent
    Torn = torn
    MaxJobs = 3
    Machines <- HouseMachines
    HeaderAgrees = TRUE
    AdBudget <- HouseMishaps
    Suites <- HouseSuites
\* Workflows, jobs, imports and breaks are bounded and come to an end.
CHECK_DEADLOCK FALSE
INVARIANTS
    OneController
    HandlerIsHonest
    NothingLeftTaken
PROPERTIES
    RebootsAreBounded
    NamesAreServed
    LightIsKept
