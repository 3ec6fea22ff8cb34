SPECIFICATION Spec
CONSTANTS
    Value = {on, off}
    Provider = {hub}
    hub = hub
    User = {u1, u2}
    CommandId = {}
    None = None
    Reported = {"online", "unknown"}
    Window = 1
    Capacity = 1
    MaxChanges = 1
    MaxResends = 0
    MaxAdds = 0
    MaxRefreshes = 1
    MaxToggles = 2
    MaxBoots = 1
    MaxInputs = 2
SYMMETRY Alike
CHECK_DEADLOCK FALSE
INVARIANTS
    DisabledUnlessOvertaken
    StoreNotBehind
