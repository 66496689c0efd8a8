SPECIFICATION Spec
CONSTANTS
    Tickets = {a, b}
    Doctor = Doctor
    Ids <- SixIds
    Slots = {s1, s2}
    MaxWorkers = 5
    HeartbeatInterval = 1
    FlappingThreshold = 3
    DoctorTime = 2
    Failures = {"silence"}
    None = None
SYMMETRY SlotSymmetry
CHECK_DEADLOCK FALSE
INVARIANT OneBoxPerTicket
PROPERTIES DoneStaysDone DeathsAreReal
