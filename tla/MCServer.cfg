SPECIFICATION FairSpec
CONSTANTS
    Conns = {c1, c2}
    Ids = {i1, i2}
    Acceptors = {"unique", "chosen"}
    Protocols = {"tcp", "ws"}
    None = None
CHECK_DEADLOCK FALSE
INVARIANTS
    NoStaleEntry
    Reachable
    AnnouncedIsSignedOut
    TcpShutdownCloses

    
