SPECIFICATION OnceSpec
CONSTANTS
    a = a
    b = b
    c = c
    Tickets = {a, b}
    Submissions <- TwoMixed
    Slots = {s1, s2}
    MaxWorkers = 1
    Failures = {}
    NoTask = NoTask
INVARIANTS OneProvisioner WorkersTracked MaxWorkersKept
PROPERTY NextIsAnother
CHECK_DEADLOCK FALSE
