SPECIFICATION FairSpec
CONSTANTS
    NumConns = 1
    MaxConns = 1
    SessionOf <- OneSession
    NumPushes = 2
    Batch = 1
    Reminders = {r1}
    Notes = {n1}
    NoRef = NoRef
    MaxTurns = 0
    MaxFaults = 1
INVARIANTS
    FiredMeansFiled
    OnlyItsOwnPushFinishesAReminder
PROPERTIES
    PushesSettle
    DueRemindersAreFiled
CHECK_DEADLOCK FALSE
