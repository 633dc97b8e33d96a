SPECIFICATION LibrarySpec
CHECK_DEADLOCK FALSE
CONSTANTS
    Callers = {p1, p2, p3}
    Requests = {r1, r2, r3}
    Contexts = {x1, x2}
    Unknown = {r3}
    Setups <- MCSetups
    Nil = Nil
    Takers = {p1, p2, p3}
    None = None
    Last = 5
    Base = 3
    LongLen = 2
    ShortLen = 1
    MagicLogicPkt <- MCMagicLogicPkt
    MagicBasicPkt <- MCMagicBasicPkt
    OpBinary = 2
    OpPing = 1
    LogicPkts <- MCLogicPkts
    BasicPkts <- MCBasicPkts
    MaxFrames = 2
    Connectors = {k1, k2}
    Senders = {s1}
    Closers = {c1, c2}
    Kinds = {"tcp", "ws"}
    DataWrites = 2
    ControlWrites = 1
    LoginWait = 2
    Heartbeat = 11
    ReadWait = 36
    WriteWait = 2
    ChannelWait = 12
    Acceptors = {"deadline", "none"}
INVARIANTS
    TrueForTheCloser
    ChainRuns
    FarApart
    RoundTrip
    WholeUntilTrouble
    SingleSocket
    CloseCloses
PROPERTIES
    
    SendReturns
    HeartbeatsEnd
    KeptWithoutDeadline
    DeadPeerNoticed
    
    NoticedInTime
    
    PipeSpec
