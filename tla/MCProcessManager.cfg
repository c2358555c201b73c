SPECIFICATION FairSpec
CONSTANTS
    Insts = {1, 2, 3, 4, 5}
    None = None
    Outside = {TRUE, FALSE}
    MaxRestart = 1
    Policy = "on-failure"
    FaultKinds = {"die", "crash", "close", "build", "spawn", "kill", "unreadable"}
    MaxFaults = 4
INVARIANTS
    TypeOK
    NoTwin
    NothingLeaks
    StopSticks
    AutomaticSpawnsBounded
PROPERTIES
    RequestAnswered
    DeathIsAnswered
