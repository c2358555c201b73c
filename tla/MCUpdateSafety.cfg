SPECIFICATION Spec
CONSTANTS
    NumOps = 2
    NumApplies = 1
    NumDays = 2
    Controls = {}
    MaxFaults = 2
    Faults = {"crash", "torn", "supcrash", "noreply"}
INVARIANTS
    TypeOK
    NoOperationOverlap
    OneActiveRun
    RestartsIssuedOnce
PROPERTIES
    RunsAtMostOnce
    OneAtATime
    SuccessIsComplete
\* Bounded: the requests, days and faults of the instance run out.
CHECK_DEADLOCK FALSE
