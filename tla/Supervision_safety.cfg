SPECIFICATION Spec
CONSTANTS
    Tickets = {a, b}
    Doctor = Doctor
    Ids <- FourIds
    Slots = {s1, s2}
    MaxWorkers = 2
    HeartbeatInterval = 1
    FlappingThreshold = 2
    DoctorTime = 2
    Failures = {"silence", "docker", "crash"}
    None = None
SYMMETRY Symmetry
CHECK_DEADLOCK FALSE
INVARIANTS TypeOK RespawnsBounded DoctorOwned
