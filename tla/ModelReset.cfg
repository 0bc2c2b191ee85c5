SPECIFICATION Spec
CONSTANTS
    Keywords = {k1}
    Models = {m1, m2}
    Bad = Bad
    Nothing = Nothing
    Keep = Keep
    MaxEdits = 3
    MaxFaults = 0
INVARIANTS ResetsSurvive
