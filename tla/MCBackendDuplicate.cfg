SPECIFICATION Spec
CONSTANTS
    N = 2
    Threshold = 1
    MaxFaults = 1
    MaxCommands = 0
    Faults = {"crash", "slow"}
INVARIANTS
    AtMostOneLive
\* A supervisor and a backend at rest have nothing left to do.
CHECK_DEADLOCK FALSE
