SPECIFICATION FairSpec
CONSTANTS
    Routers = {r1}
    Handlers = {h1}
    Payloads = {a, b, c, d}
    Cap = 2
    MaxPings = 1
    DataWrites = 2
    PongWrites = 1
    None = None
    Pong = Pong
CHECK_DEADLOCK FALSE
INVARIANTS
    TypeOK
    DrainNeverBlocks
    Fifo
    WholeUnlessPinged
PROPERTIES
    OutboxSpec
    PushReturns
