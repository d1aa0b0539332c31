SPECIFICATION Spec
CONSTANTS
    c1 = c1  c2 = c2  r1 = r1  r2 = r2  b1 = b1  b2 = b2  p1 = p1  d1 = d1  d2 = d2  k1 = k1
    raw = raw  sorted = sorted
    ClusterIds = {c1, c2}
    ConfigCluster = c1
    Racks = {r1}
    LinkIds = {}
    DomainIds = {}
    ConstraintIds = {}
    KindOf <- NoDomains
    Boots = {b1, b2}
    NoBoot = NoBoot
    Publishers = {p1}
    NoPublisher = NoPublisher
    Compositions = {Empty}
    EndpointLists = {Empty}
    Empty = Empty
    canonicalize <- NoEndpoints
    Classes = {}
    Contracts <- BaseContracts
    ConfigContract <- BaseContract
    MaxGeneration = 6
    NoContainer = NoContainer
    RackRequests <- MembershipRequests
    TopologyRequests = {}
    ClusterRequests <- OtherCluster
    LinkPayloads = {}
    DomainPayloads = {}
    ConstraintPayloads = {}
    FenceReasons = {"given"}
    MaxRacks = 2
    MaxLinks = 1
    MaxDomainsPerClass = 1
    MaxConstraints = 1
INVARIANT RollbackRestoresIdentity
