SPECIFICATION FairSpec
CONSTANTS
    Services = {s1}
    MaxStarts = 2
    None = None
CHECK_DEADLOCK FALSE
PROPERTIES
    StaysConnected
