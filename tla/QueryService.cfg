\* Two hosts, two samples, one or two clients at a time.
SPECIFICATION Spec
CONSTANTS
    c1 = c1
    c2 = c2
    Clients = {c1, c2}
    UseCases <- MCUseCases
    Requests <- MCRequests
    Hosts <- MCHosts
    Parts <- MCParts
    Hot <- MCHot
    IntBits = 16
    DefaultPageSize = 2
    OfflineAfter = 1
    CacheTtl = 1
    CallTime = 1
    MaxSamples = 2
    MaxNow = 2
INVARIANTS ScopeIsolation LatestScoresAreRecent PageKeepsPromise PagingMissesNothing
