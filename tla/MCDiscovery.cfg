SPECIFICATION FairSpec
CONSTANTS
    Services = {s1, s2}
    MaxStarts = 1
    None = None
CHECK_DEADLOCK FALSE
INVARIANTS
    OneConnection
PROPERTIES
    
    EventuallyConnected
    ClientMapSpec
