SPECIFICATION FairSpec
CONSTANTS
    Tickets = {a}
    Doctor = Doctor
    Ids <- FourIds
    Slots = {s1, s2}
    MaxWorkers = 5
    HeartbeatInterval = 1
    FlappingThreshold = 3
    DoctorTime = 2
    Failures = {"crash"}
    None = None
CHECK_DEADLOCK FALSE
PROPERTY CrashedRespawns
