CONSTANTS
    Op = {o1, o2}
    Id = {c1, c2}
    Key = {power}
    Value = {on, off}
    Scope = {}
    None = None
    Timeouts = {0}
    Limits = {1, 3}
    MaxClock = 0
    MaxCoalesced = 3
    Provider = {hub, command}
    hub = hub
    CommandProvider = command
    MaxReports = 1
SPECIFICATION FairWrites
PROPERTY EveryRequestReturns
CHECK_DEADLOCK FALSE
