SPECIFICATION FairSpec
CONSTANTS
    Volatile = FALSE
    Interval = 2
    Keep = 2
    MaxMessages = 3
    MaxIterations = 2
    Recent = 1
    Failures = {"disk", "llm", "backend", "fatal", "crash"}
    None = None
INVARIANTS TypeOK SavedSurvives PromptKept OutcomeReported
PROPERTIES WorkerEnds
