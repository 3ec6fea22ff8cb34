SPECIFICATION Spec
CONSTANTS
    Value = {on}
    Provider = {hub}
    hub = hub
    User = {u1}
    CommandId = {}
    None = None
    Reported = {"online"}
    Window = 1
    Capacity = 2
    MaxChanges = 1
    MaxResends = 0
    MaxAdds = 1
    MaxRefreshes = 0
    MaxToggles = 0
    MaxBoots = 0
    MaxInputs = 2
CHECK_DEADLOCK FALSE
INVARIANT BackOnline
