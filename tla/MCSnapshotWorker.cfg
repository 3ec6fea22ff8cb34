SPECIFICATION FairSpec
CONSTANTS
    Value = {on, off}
    Provider = {hub}
    hub = hub
    User = {u1}
    CommandId = {}
    None = None
    Reported = {"online", "offline"}
    Window = 1
    Capacity = 1
    MaxChanges = 2
    MaxResends = 1
    MaxAdds = 1
    MaxRefreshes = 0
    MaxToggles = 0
    MaxBoots = 0
    MaxInputs = 0
CHECK_DEADLOCK FALSE
INVARIANTS
    PipelineInv
PROPERTIES
    NeverBackwards
    EventuallyCurrent
