SPECIFICATION QuerySpec
SYMMETRY QuerySymmetry
CONSTANTS
    c1 = c1  c2 = c2  r1 = r1  r2 = r2  b1 = b1  b2 = b2  p1 = p1  d1 = d1  d2 = d2  k1 = k1
    raw = raw  sorted = sorted
    ClusterIds = {c1}
    ConfigCluster = c1
    Racks = {r1, r2}
    LinkIds = {l1}
    d3 = d3  l1 = l1  bytes = bytes  slots = slots
    UnknownClass = UnknownClass
    Bidirectional = {}
    Quantities <- QueryQuantities
    Units = {bytes, slots}
    NoValue = NoValue
    NoIndexes = NoIndexes
    DomainIds = {d1, d2, d3}
    ConstraintIds = {}
    KindOf <- QueryKinds
    Boots = {b1}
    NoBoot = NoBoot
    Publishers = {p1}
    NoPublisher = NoPublisher
    Compositions = {Empty}
    EndpointLists = {Empty}
    Empty = Empty
    canonicalize <- NoEndpoints
    Classes = {k1}
    Contracts <- BaseContracts
    ConfigContract <- BaseContract
    MaxGeneration = 7
    NoContainer = NoContainer
    RackRequests <- QueryRackRequests
    TopologyRequests <- OperatorRequests
    ClusterRequests <- DeclarationOnly
    LinkPayloads <- QueryLinks
    DomainPayloads <- QueryDomains
    ConstraintPayloads = {}
    FenceReasons = {"given"}
    MaxRacks = 2
    MaxLinks = 1
    MaxDomainsPerClass = 2
    MaxConstraints = 1
INVARIANTS SelfCheckHolds IndependenceIsEvidenced ReachabilityIsEvidenced
PROPERTY RestartClaimsNothing
