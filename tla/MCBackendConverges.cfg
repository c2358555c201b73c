SPECIFICATION FairSpec
CONSTANTS
    N = 5
    Threshold = 1
    MaxFaults = 2
    MaxCommands = 2
    Faults = {"crash", "die"}
PROPERTIES
    DurableIntentReached
\* A supervisor and a backend at rest have nothing left to do.
CHECK_DEADLOCK FALSE
