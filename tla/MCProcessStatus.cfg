SPECIFICATION FairSpec
CONSTANTS
    Insts = {1, 2}
    None = None
    Outside = {TRUE}
    MaxRestart = 1
    Policy = "on-failure"
    FaultKinds = {"die"}
    MaxFaults = 1
PROPERTIES
    WantedIsRecovered
