SPECIFICATION FairSpec
CONSTANTS
    o1 = o1  o2 = o2
    a1 = a1  a2 = a2
    s1 = s1  s2 = s2  s3 = s3
    None = None
    Origins <- MCOrigins
    Ids <- MCIds
    Choices <- MCChoices
    First <- MCFirst
    Switchers <- MCSwitchers
    Who <- MCWho
    MaxEdits = 1
INVARIANTS QuietAgrees EntriesSurvive
PROPERTIES QuietAgain
\* The model stops when every switch and the edit are done.
CHECK_DEADLOCK FALSE
