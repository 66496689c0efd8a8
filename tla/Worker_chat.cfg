SPECIFICATION Spec
CONSTANTS
    Volatile = FALSE
    Interval = 2
    Keep = 3
    MaxMessages = 5
    MaxIterations = 3
    Recent = 2
    Failures = {}
    None = None
PROPERTIES TaskStaysSaved CompletedIsMeant
