SPECIFICATION FairSpec
CONSTANTS
    e1 = e1  e2 = e2
    Events <- MCOneEvent
    MaxEpochs = 3
    MaxRetry = 1
    MaxKept = 2
INVARIANTS OneInCharge ReadingIsWhole
PROPERTIES LinkRecovers
\* The model stops when the retries are used up.
CHECK_DEADLOCK FALSE
