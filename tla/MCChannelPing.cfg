SPECIFICATION FairSpec
CONSTANTS
    Routers = {r1}
    Handlers = {h1}
    Payloads = {a, b}
    Cap = 2
    MaxPings = 1
    DataWrites = 3
    PongWrites = 2
    None = None
    Pong = Pong
CHECK_DEADLOCK FALSE
INVARIANTS
    WholeFrames
