SPECIFICATION FairSpec
CONSTANTS
    u1 = u1  u2 = u2
    c1 = c1  c2 = c2  c3 = c3
    r1 = r1  r2 = r2
    Account = account
    None = None
    Users <- MCUsers
    Callbacks <- MCCallbacks
    From <- MCFrom
    Replies <- MCReplies
    Shape <- MCShape
    Size <- MCSize
    AnswerSize <- MCSize
    DefaultSize <- MCDefaultSize
    StringOb11 = TRUE
    GroupMode = TRUE
    Limit = 20
    Sep = 1
INVARIANTS SenderNeverBlocks RepliesAreOwn ExactlyOnePlace PendingIsFetchable
PROPERTIES ImplementsRendezvous ExchangeSettles
\* The model stops when every callback and every frame is used up.
CHECK_DEADLOCK FALSE
