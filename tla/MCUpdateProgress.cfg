SPECIFICATION FairSpec
CONSTANTS
    NumOps = 2
    NumApplies = 0
    NumDays = 1
    Controls = {c1}
    c1 = c1
    MaxFaults = 1
    Faults = {"crash", "supcrash", "noreply"}
PROPERTIES
    OpGetsItsTurn
\* Bounded: the requests, days and faults of the instance run out.
CHECK_DEADLOCK FALSE
