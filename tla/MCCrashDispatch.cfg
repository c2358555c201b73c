SPECIFICATION FairSpec
CONSTANTS
    NumTasks = 2
    MaxEdits = 1
    MaxFaults = 2
    Faults = {"fail", "late", "crash"}
INVARIANTS TypeOK OneDelegation
PROPERTIES DelegatedSticks CrashIsHandled
\* Once every task is delegated or closed nothing is left to do.
CHECK_DEADLOCK FALSE
