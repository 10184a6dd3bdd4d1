\* Four runs of the scripts in any order, killed or not.
SPECIFICATION FairSpec
CONSTANT MaxRuns = 4
INVARIANTS
    TypeOK
    StartedIsInstalled
    CleanInstallSucceeds
    UninstallLeavesNone
    UninstalledIsGoing
PROPERTY GoneAtLast
\* The operator stops after the last run.
CHECK_DEADLOCK FALSE
