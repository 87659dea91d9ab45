SPECIFICATION Spec
CONSTANTS
    a = a
    b = b
    o = o
    aa = aa
    x = x
    broker = broker
    monitor = monitor
    forwarder = forwarder
    pre = pre
    Nil = Nil
    Key = {a, b}
    Observer = {o}
    Hash = {aa, x}
    CarriedBy <- MCCarriedBy
    Wide = {aa}
    Repeater = {a, b}
    Packet <- MCPacket
    AdjacencyRetention = 3
    Broker = {broker}
    Reporter = {monitor, forwarder}
    Streams <- MCStreams
    Enumerates = {monitor}
    Prefix = {pre}
    PrefixOf <- MCPrefixOf
    Listing <- MCListing
    Fence <- MCFence
    Epsilon = 0
    GraceFloor = 1
    GraceCeil = 2
    CadenceK = 2
    RelayPresence = 2
    RetainFor = 2
    SilenceAfter = 2
    UnreachableAfter = 1
    StaleAfter = 1
    DeadMultiple = 2
    PersistInterval = 1
    ExpireAfter = 1
    Coalesce = 0
    ExpiredTTL = 1
    MaxTime = 4
    MaxInputs = 2
    MaxFaults = 1
CHECK_DEADLOCK FALSE
INVARIANTS HeardClockStored AdjacencyProven
PROPERTIES ExpiresOnlyTheSilent ReadingsKept
