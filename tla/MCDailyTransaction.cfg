CONSTANTS
    NumRepos = 2
    Members = {a, b}
    SelfRepos = {2}
    MaxFaults = 3
    MaxRetries = 1
SPECIFICATION FairSpec
INVARIANTS TypeOK FinishedIsWhole
PROPERTIES ForeignKept RunEnds
