CONSTANTS
    Kinds = {"hap", "matter", "camera"}
    Version = {v1, v2}
    Instance = {i1, i2, i3}
    Caller = {c1, c2}
    None = None
    MaxCalls = 2
    MaxFailures = 2
    MaxInputs = 3
SPECIFICATION FairSpec
INVARIANTS
    TargetsInv
    NoOrphan
    ServiceIsTrue
    PublishedWhileRunning
PROPERTIES
    CallsReturn
CHECK_DEADLOCK FALSE
