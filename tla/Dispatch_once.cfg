SPECIFICATION OnceSpec
CONSTANTS
    a = a
    b = b
    c = c
    Tickets = {a, b, c}
    Submissions <- ThreeOrdinary
    Slots = {s1, s2}
    MaxWorkers = 2
    Failures = {"docker", "report", "crash"}
    NoTask = NoTask
SYMMETRY SlotSymmetry
INVARIANT OneProvisioner
PROPERTY ImplementsLife
CHECK_DEADLOCK FALSE
