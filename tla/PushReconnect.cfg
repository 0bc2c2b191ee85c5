SPECIFICATION Spec
CONSTANTS
    NumConns = 3
    MaxConns = 2
    SessionOf <- TwoSessions
    NumPushes = 2
    Batch = 2
    Reminders = {}
    Notes = {}
    NoRef = NoRef
    MaxTurns = 1
    MaxFaults = 1
INVARIANTS
    DeliveredMeansAccepted
    NewestKeepsItsSink
PROPERTIES
    OldestFirst
    MidTurnOnlyBehindAnother
CHECK_DEADLOCK FALSE
