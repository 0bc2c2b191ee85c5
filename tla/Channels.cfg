SPECIFICATION FairSpec
CONSTANTS
    NumConns = 2
    MaxAsks = 2
    MaxCalls = 1
    SwallowsCancel = TRUE
INVARIANTS
    RunsOnlyWhatWasApproved
    ApprovalsFollowTheNewest
PROPERTIES
    QuestionsSettle
    CancelReturns
CHECK_DEADLOCK FALSE
