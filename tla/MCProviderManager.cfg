CONSTANTS
    Provider = {hub}
    Instance = {i1, i2, i3}
    Caller = {c1, c2}
    Worker = worker
    None = None
    MaxCalls = 3
    MaxFailures = 2
    MaxInputs = 4
SPECIFICATION FairSpec
INVARIANTS
    LifecycleInv
    OneConnection
    NeverInitializedTwice
    SubscribedOnce
PROPERTIES
    EventuallySettled
CHECK_DEADLOCK FALSE
