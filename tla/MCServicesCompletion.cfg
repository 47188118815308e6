SPECIFICATION Spec
CONSTANTS
    Parts = {"config"}
    MaxMsgs = 6
    Replies <- MCReplies
    Size <- MCSize
    Limit = 20
    Sep = 3
    BodySizes <- MCBodies
    i1 = i1  i2 = i2  i3 = i3
    None = None
    Ids <- MCIds
    Rows <- MCRows
    Hash9 <- MCHash9
    Hash10 <- MCHash10
    Pairs <- MCPairs
    RowPairs <- MCRowPairs
    LotCallers = {"a", "b"}
    LotMixes <- MCMixes
    LotValues = {"v"}
    LotError = LotError
    CfgPlain = {"p1", "p2"}
    CfgOutside <- MCOutside
    CfgTemplate <- MCTemplate
    CfgNoFile = CfgNoFile
    CbReqs = {r1, r2}
    CbRotations = 2
    QuoCalls = {q1, q2, q3, q4}
    QuoLimit = 2
    QuoDays = 2
    LnkMakers = {m1, m2}
    LnkLotus = {m2}
    LnkLongs <- MCLongs
    LnkCodes = {"c1", "c2"}
    LnkHash <- MCHash
    LnkNone = LnkNone
    LnkNested = LnkNested
    UpReqs = {r1, r2}
    UpFiles = {f1}
    UpMax = 1
    UpInterval = 1
    UpBurst = 3
    UpTime = 3
    WelUsers = {u1, u2}
    WelEvents = {d1, d2}
    WelMessages = 2
    WelNone = WelNone
    MuxTypes = {"text"}
    MuxDefault = "default"
    MuxSizes = {1}
    MuxMax = 5
    MuxCalls = 5
    FrmMessages <- MCMessages
    FrmDefaults <- MCDefaults
    FrmReplies = 3
    ConBrowsers = {b1, b2}
    ConLife = 2
    ConLogins = 3
    ConTime = 3
    MedCalls = {c1, c2}
    MedImages = {"good", "bad"}
    MedRecords = {"rec"}
    MedNone = MedNone
    MedJudged <- MCJudged
    ObLinks = {k1, k2}
    ObCalls = {"o1", "o2"}
    ObUser <- MCObUser
    ObAccount = "account"
    ObMasters = {"u1"}
    ObRequests <- MCRequests
    ObAsks = 2
    ObNobody = ObNobody
    BodReqs = {r1, r2}
    BodBuffers = {b1, b2}
    BodMessages <- MCPosted
    BodAccount = "account"
    BodAppId <- MCAppId
    BodSizes = {1, 10, 11}
    BodNone = BodNone
INVARIANT CompletionIsLoadable
CHECK_DEADLOCK FALSE
