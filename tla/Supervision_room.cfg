SPECIFICATION FairSpec
CONSTANTS
    Tickets = {a, b}
    Doctor = Doctor
    Ids <- FourIds
    Slots = {s1, s2}
    MaxWorkers = 1
    HeartbeatInterval = 1
    FlappingThreshold = 3
    DoctorTime = 2
    Failures = {"silence"}
    None = None
CHECK_DEADLOCK FALSE
PROPERTY SilentRespawns
