SPECIFICATION Spec
CONSTANTS
    Threads = {1}
    None = None
    Absent = Absent
    Torn = Torn
    Burn = Burn
    Pasts <- MCPasts
    MaxGens = 2
    MaxKeys = 3
    MaxLaunches = 2
    MaxHeight = 2
    MaxQueue = 2
    MaxCount = 2
INVARIANTS
    PaysSavedKeys
    CountersMatchChain
PROPERTIES
    WorkersEnd
\* The bounded model ends when its launches are used up.
CHECK_DEADLOCK FALSE
