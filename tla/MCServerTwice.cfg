SPECIFICATION FairSpec
CONSTANTS
    Conns = {c1, c2}
    Ids = {i1, i2}
    Acceptors = {"chosen"}
    Protocols = {"tcp"}
    None = None
CHECK_DEADLOCK FALSE
INVARIANTS
    OneConnectionPerId
