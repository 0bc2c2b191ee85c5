SPECIFICATION MemorySpec
CONSTANTS
    Texts = {tea, coffee}
    PromoteUses = 2
    LineageLimit = 2
    MaxFacts = 3
    HasFts = FALSE
    MaxCrashes = 1
    Turns = {t1}
    MaxEntries = 1
    MaxChanges = 1
    MaxTalk = 3
    MaxPasses = 2
PROPERTIES
    ForgottenStays
CHECK_DEADLOCK FALSE
