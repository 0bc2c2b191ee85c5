SPECIFICATION FairSpec
CONSTANTS
    NumConns = 2
    MaxTurns = 3
    TurnCap = 2
    HistoryTurns = 1
    MaxPieces = 1
    Overlap = FALSE
    SwallowsCancel = TRUE
INVARIANTS
    OneTurnPerSocket
    CompleteMeansVoiced
    ThinkingIsSwitchedOff
    NoTurnOutlivesItsHandler
    LatestTurnIsRecorded
PROPERTIES
    TalksInTurn
    TurnsEnd
    AudioFollowsItsSentence
    InterruptedTurnFallsSilent
CHECK_DEADLOCK FALSE
