SPECIFICATION Spec
CONSTANTS
    a = a
    b = b
    Tickets = {a}
    AutoStart <- OnlyA
    Admins = {"admin"}
    MinWorkers = 0
    MaxWorkers = 1
    MaxRequests = 1
    MaxFaults = 0
    Crashes = FALSE
    None = None
CHECK_DEADLOCK FALSE
PROPERTY ZombiesAreSilent
