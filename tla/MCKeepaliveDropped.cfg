SPECIFICATION KeepaliveFairSpec
CHECK_DEADLOCK FALSE
CONSTANTS
    LoginWait = 2
    Heartbeat = 11
    ReadWait = 36
    WriteWait = 2
    ChannelWait = 12
    Acceptors <- MCAcceptors
PROPERTIES
    KeptAlive
