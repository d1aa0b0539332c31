SPECIFICATION UnreadSpec
CONSTANTS
    c1 = c1  c2 = c2  r1 = r1  r2 = r2  b1 = b1  b2 = b2  p1 = p1  d1 = d1  d2 = d2  k1 = k1
    raw = raw  sorted = sorted
    ClusterIds = {c1}
    ConfigCluster = c1
    Racks = {r1, r2}
    LinkIds = {l1}
    DomainIds = {d2}
    ConstraintIds = {}
    KindOf <- NetworkOnly
    Boots = {b1}
    NoBoot = NoBoot
    Publishers = {p1}
    NoPublisher = NoPublisher
    Compositions = {Empty}
    EndpointLists = {Empty}
    Empty = Empty
    canonicalize <- NoEndpoints
    Classes = {k1}
    Contracts <- BaseContracts
    ConfigContract <- BaseContract
    MaxGeneration = 8
    NoContainer = NoContainer
    RackRequests <- TopologyRackRequests
    TopologyRequests <- OperatorRequests
    ClusterRequests <- DeclarationOnly
    LinkPayloads <- TopologyLinks
    DomainPayloads <- TopologyDomains
    ConstraintPayloads = {}
    FenceReasons = {"given"}
    MaxRacks = 2
    MaxLinks = 1
    MaxDomainsPerClass = 1
    MaxConstraints = 1
INVARIANTS ReferencesResolve LinkClaimsAreOfThisEpoch CommittedIsDurable SavedIsLoadable
