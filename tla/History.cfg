SPECIFICATION Spec
CONSTANTS
    MaxTurns = 6
    HistoryTurns = 2
    InFlight = 1
INVARIANTS
    RepliesFollowTheirQuestion
    HistoryReplayable
CHECK_DEADLOCK FALSE
