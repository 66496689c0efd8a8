SPECIFICATION FairSpec
CONSTANTS
    a = a
    b = b
    c = c
    Tickets = {a, b}
    Submissions <- TwoMixed
    Slots = {s1, s2}
    MaxWorkers = 1
    Failures = {"docker", "report", "crash"}
    NoTask = NoTask
INVARIANTS TypeOK QueueSorted BootingOwned OverrunBounded
PROPERTY BootingEnds
CHECK_DEADLOCK FALSE
