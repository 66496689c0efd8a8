SPECIFICATION Spec
CONSTANTS
    Nats = TRUE
    Limit = 2
    Failures = {"sync", "restart"}
    MaxEvents = 2
    MaxMail = 2
    MaxRooms = 1
    None = None
INVARIANTS ChatReaches HandledOnce CommandsOnce
