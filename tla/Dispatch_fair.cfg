SPECIFICATION FairOnceSpec
CONSTANTS
    a = a
    b = b
    c = c
    Tickets = {a, b, c}
    Submissions <- ThreeMixed
    Slots = {s1}
    MaxWorkers = 3
    Failures = {}
    NoTask = NoTask
PROPERTIES InterruptedResumes QueuedStarts
CHECK_DEADLOCK FALSE
