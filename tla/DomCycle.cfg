SPECIFICATION MCSpec
CONSTANTS
    None = None
    NoPage = NoPage
    Blank <- MCBlank
    Garbled <- MCGarbled
    Urls <- MCUrls
    Pages <- MCPages
    LeadsTo <- MCLeadsTo
    LenOf <- MCLenOf
    BodyLen <- MCBodyLen
    Doc <- MCDoc
    HomeUrl <- Index
    HIST_MAX = 3
    MAX_CSS = 4
    MAX_JS = 1
    IMG_MAX = 2
    VisitBound = 3
    TypeBound = 2
    AwayBound = 1
    ServerKinds <- MCKinds
    ROOTS <- MCRoots
    HostName <- MCHost
    HostKey = "hk"
    CaKey = "ck"
    RootKey = "rk"
    SelfKey = "sk"
    RX_CAP = 2
    CHAIN_CAP = 2
    MAX_CERTS = 3
    ConnBound = 2
    DataBound = 3
    SendBound = 2
    SeqBound = 4
    FaultBound = 2
    Tokens <- MCTokens
    MaxTokens = 4
    Scripted <- MCScripted
    Fragments <- MCFragments
    Held <- MCHeld
    MaxCalls = 2
INVARIANT Acyclic
CHECK_DEADLOCK FALSE
