SPECIFICATION TokFairSpec
CONSTANTS
    a = a  b = b
    Calls <- MCCalls
    MaxTokens = 3
    MaxTicks = 1
    MaxLosses = 1
    Lifetimes <- MCLifetimes
    FirstTick = 8640000
INVARIANTS AnswerIsOwn CacheIsNewest TickBeforeExpiry RejectedOnlyAfterLoss
PROPERTIES CallEnds
\* The model stops when every call is over.
CHECK_DEADLOCK FALSE
