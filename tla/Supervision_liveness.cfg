SPECIFICATION FairSpec
CONSTANTS
    Tickets = {a, b}
    Doctor = Doctor
    Ids <- FourIds
    Slots = {s1}
    MaxWorkers = 2
    HeartbeatInterval = 1
    FlappingThreshold = 2
    DoctorTime = 1
    Failures = {"silence", "crash"}
    None = None
CHECK_DEADLOCK FALSE
PROPERTIES SilenceNoticed PhantomsEnd
