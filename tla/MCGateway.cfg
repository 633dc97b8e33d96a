SPECIFICATION FairSpec
CHECK_DEADLOCK FALSE
CONSTANTS
    Conns = {c1, c2}
    Instances = {l1, l2}
    Asserted = {TRUE, FALSE}
    None = None
INVARIANTS
    LoginFirst
    
PROPERTIES
    SignOutArrives
    
