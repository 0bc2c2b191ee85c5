SPECIFICATION Spec
CONSTANTS
    Conns = {c1, c2}
    Values = {plain, fast}
    Default = plain
    Ttl = 1
    Capacity = 2
    RateTurns = 1
    RateWindow = 2
    TurnCap = 2
    MaxSessions = 3
    MaxTime = 2
INVARIANTS
    RateHolds
    ClientsKnowTheirSetting
    OneVoicePerReply
PROPERTIES
    OnlyTheIdleGo
SYMMETRY Symmetry
CHECK_DEADLOCK FALSE
