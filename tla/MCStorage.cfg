CONSTANTS
    MaxEvent = 6
    MaxIntent = 3
    MaxTime = 2
    Relays = {r1}
    Authors = {alice, bob}
    Addrs = {profile}
    Windows <- Apart
    Queries = {q1}
    Drafts = {1, 3, 5}
    Deletions = {5, 6}
    NoAddr = NoAddr
    Never = Never
    AuthorOf <- Author
    AddrOf <- Address
    CreatedAt <- Created
    ExpiresAt <- Expires
    IdTargets <- DeletedIds
    AddrTargets <- DeletedAddrs
    r1 = r1
    alice = alice
    bob = bob
    profile = profile
    q1 = q1
    Event = {x1, x2, x3, x4, x5}
    x1 = x1  x2 = x2  x3 = x3  x4 = x4  x5 = x5
    Alice = Alice  Bob = Bob  Note = Note  Like = Like  Red = Red  Blue = Blue  Home = Home
    relay1 = relay1  relay2 = relay2
    Relay = {relay1, relay2}
    Everything = Everything
    Attr <- MCAttr
    Letter <- MCLetter
    Lookups <- MCQueries
    Stored <- MCStored
    BaseFanIn = 2  LargeFanIn = 2  MaxDeathBlocks = 2
    MaxRelayKey = 3  MaxKey = 7  MaxOps = 2
SPECIFICATION MCSpec
INVARIANTS
    IndexesExact
    DeletedStaysDeleted
    OwnershipSound
    CoverageHonest
    PostingsExact
PROPERTIES
    DisplacedIsAccounted
CHECK_DEADLOCK FALSE
