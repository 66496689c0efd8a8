SPECIFICATION FairSpec
CONSTANTS
    Nats = FALSE
    Limit = 1
    Failures = {"http", "crash", "sync", "throw"}
    MaxEvents = 2
    MaxMail = 2
    MaxRooms = 1
    None = None
PROPERTIES InboxIsRead
