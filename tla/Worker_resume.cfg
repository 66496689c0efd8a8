SPECIFICATION Spec
CONSTANTS
    Volatile = TRUE
    Interval = 2
    Keep = 3
    MaxMessages = 5
    MaxIterations = 3
    Recent = 2
    Failures = {"crash"}
    None = None
PROPERTIES Resumes
