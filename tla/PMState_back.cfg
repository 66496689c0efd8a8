SPECIFICATION MCSpec
CONSTANTS
    a = a
    b = b
    Tickets = {a, b}
    Submissions <- Mixed
    ReorderTo = {0}
    MaxQueue = 3
    MaxWire = 2
    None = None
PROPERTIES NoneComesBack PausedResumes
