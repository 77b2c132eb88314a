SPECIFICATION FairSpec
CONSTANTS
    w1 = w1
    w2 = w2
    l1 = l1
    l2 = l2
    Workers = {w1, w2}
    Loads = {l1, l2}
    At <- MCAt
    MaxCommits = 1
    MaxFaults = 1
    NoLoad = NoLoad
    Nothing = Nothing
CHECK_DEADLOCK FALSE
INVARIANTS TypeOK RecordNotOlderThanGeneration EntryNotOlderThanMessage
PROPERTIES LockOnlyByOwner LoadsAnswered StaleDiesOut ImplementsStaleness
