SPECIFICATION Spec
CONSTANTS
    e1 = e1  e2 = e2
    Events <- MCEvents
    MaxEpochs = 3
    MaxRetry = 1
    MaxKept = 2
INVARIANTS NotOrphaned
\* The model stops when the retries are used up.
CHECK_DEADLOCK FALSE
