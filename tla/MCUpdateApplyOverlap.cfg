SPECIFICATION Spec
CONSTANTS
    NumOps = 0
    NumApplies = 1
    NumDays = 1
    Controls = {}
    MaxFaults = 1
    Faults = {"supcrash"}
INVARIANTS
    NoApplyOverlap
\* Bounded: the requests, days and faults of the instance run out.
CHECK_DEADLOCK FALSE
