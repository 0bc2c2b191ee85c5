SPECIFICATION Spec
CONSTANTS
    NumConns = 2
    MaxAsks = 0
    MaxCalls = 1
    SwallowsCancel = TRUE
INVARIANTS
    ToolsFollowTheNewest
CHECK_DEADLOCK FALSE
