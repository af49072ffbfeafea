SPECIFICATION RouteSpec
CONSTANTS
    None = None
    Junk = Junk
    Addrs <- MCAddrs
    EdgeRanges <- MCEdgeRanges
    Configs <- MCConfigs
    Chains <- MCChains
    Visitors <- MCVisitors
    Hops <- MCHops
    MaxHops = 3
    ForgedLines <- MCForgedLines
    ForgedHeaders <- MCForgedHeaders
INVARIANTS
    RouteIsResolved
    ChainEndsInRoute
    ClientAsDefined
    CDNAnswersAreNoted
