SPECIFICATION MCSpec
CONSTANTS
    t1 = t1
    t2 = t2
    user = user
    new1 = new1
    new2 = new2
    A1 = A1
    A2 = A2
    B1 = B1
    Absent = Absent
    Targets <- MCTargets
    Contents <- MCContents
    PackageIds = {"a", "b"}
    Packages <- MCPackages
    IdOf <- MCIdOf
    FilesOf <- MCFilesOf
    MaxTx = 4
    Budget <- Crashes
\* Mishaps and transactions are bounded.
CHECK_DEADLOCK FALSE
INVARIANTS
    TypeOK
    UnfinishedIsUndoable
    RecoveredIsRestored
    RunningIsUndoable
    FailedIsRestored
    RolledBackIsRestored
    CommittedIsIntact
PROPERTIES
    CommitIsExact
    UninstallGivesBack
