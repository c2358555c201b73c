CONSTANTS
    Ids = {a, b}
    Asked = {"excubitor", "deferred"}
    MaxOps = 1
    MaxAccepts = 3
    MaxCommits = 1
    MaxFaults = 2
SPECIFICATION FairSpec
INVARIANTS TypeOK ExecutedOnce WrittenAhead QuietAfterRelease
PROPERTIES AnswersAgree Settles
