SPECIFICATION Spec
CONSTANTS
    None = None
    Dflt = Dflt
    Urls <- MCUrls
    TypedHosts = {"news"}
    Literals = {"10.0.0.5"}
    AddrOf <- MCAddrOf
    Listeners <- MCListeners
    Site <- MCSite
    Gateway = "10.0.0.5"
    SelftestName = "news"
    SelftestUrl <- MCSelftestUrl
    HasDns = TRUE
    DNS_ATTEMPTS = 2
    DEADLINE = 1
    HTTP_WAIT = 1
    DNS_WAIT = 2
    MAX_HOPS = 1
    PINGS = 2
    PING_TRIES = 1
    StartBound = 1
    CommandBound = 1
    LateBound = 1
INVARIANTS RightPeer 
PROPERTIES ImplementsClient
