SPECIFICATION MCSpec
CONSTANTS
    None = None
    Servers <- TwoServers
    Lan <- ThreeHosts
    Announced <- NewHost
    Names <- SomeNames
    AddrOf <- Zone
    FALLBACK_IP <- Fallback
    TypedIps <- Typed
    FirstIds <- Ids
    CACHE_SIZE = 2
    DHCP_ATTEMPTS = 2
    DNS_ATTEMPTS = 3
    RX_DESC = 2
    DupBound = 1
    WireBound = 1
    QueryBound = 2
INVARIANTS LookupsTrue PromptNetworkWorks
PROPERTIES FallbackSparesLease ExchangesEnd
