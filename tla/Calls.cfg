SPECIFICATION FairSpec
CONSTANTS
    Rows <- Reported
    Turns = {t1}
    Static = {}
    Listed = {"client", "amber"}
    Underscored = {"run"}
    MaxCalls = 2
    MaxPulls = 1
    QueueSize = 2
    BatchSize = 1
    MaxFailures = 1
INVARIANTS
    CountedOnce
    NothingIsWrittenTwice
    CardsAreTrue
    CallsCarryTheirRun
PROPERTIES
    TurnsFinish
CHECK_DEADLOCK FALSE
