SPECIFICATION FairSpec
CONSTANTS
    Keywords = {k1, k2}
    Models = {m1, m2}
    Bad = Bad
    Nothing = Nothing
    Keep = Keep
    MaxEdits = 3
    MaxFaults = 1
INVARIANTS
    QueuedEditsWin
PROPERTIES
    RowsConverge
    CacheCatchesUp
