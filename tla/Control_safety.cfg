SPECIFICATION FairSpec
CONSTANTS
    a = a
    b = b
    Tickets = {a}
    AutoStart <- OnlyA
    Admins = {"admin"}
    MinWorkers = 0
    MaxWorkers = 1
    MaxRequests = 2
    MaxFaults = 1
    Crashes = TRUE
    None = None
CHECK_DEADLOCK FALSE
INVARIANTS TypeOK StoppedIsDown
PROPERTIES StoppedKept NameFreed
