SPECIFICATION Spec
CONSTANTS
    N = 2
    Threshold = 2
    MaxFaults = 2
    MaxCommands = 2
    Faults = {"crash", "die", "hang", "slow", "write", "kill", "spawn"}
INVARIANTS
    TypeOK
    AtMostOnePublished
    LiveIsRecorded
    DurableStopIsTrue
PROPERTIES
    StartsAreIntended
    KeepsPromise
\* A supervisor and a backend at rest have nothing left to do.
CHECK_DEADLOCK FALSE
