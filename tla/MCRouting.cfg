SPECIFICATION FairSpec
CHECK_DEADLOCK FALSE
CONSTANTS
    Services = {s1, s2}
    Channels = {c1, c2}
    Gateway = Gateway
    OwnValue = OwnValue
    s1 = s1
    s2 = s2
    c1 = c1
    c2 = c2
    Addresses <- MCAddresses
    UserMetas <- MCUserMetas
    Bound = 1
    MaxPushes <- MCMaxPushes
INVARIANTS
    
    InOrder
PROPERTIES
    NothingLost
    Arrives
    UsesOutboxes
