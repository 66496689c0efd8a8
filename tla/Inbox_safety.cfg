SPECIFICATION Spec
CONSTANTS
    Nats = TRUE
    Limit = 2
    Failures = {"http", "crash", "restart"}
    MaxEvents = 1
    MaxMail = 2
    MaxRooms = 2
    None = None
INVARIANTS TypeOK Accounted OncePerPath QuestionVisible
PROPERTIES AnswerIsLater ImplementsMailbox
