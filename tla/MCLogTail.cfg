SPECIFICATION FairSpec
CONSTANTS
    Chunk = 2
    MaxPending = 1
    Backfill = 2
    RotateBytes = 3
    MaxBytes = 4
    MaxLines = 3
    MaxFaults = 2
    Faults = {"crash", "stop", "reject", "io", "unreadable", "refresh"}
INVARIANTS TypeOK NothingSkipped WholeLinesInOrder
PROPERTIES LinesArrive
