CONSTANTS
    Op = {o1, o2}
    Id = {c1, c2}
    Key = {power}
    Value = {on, off}
    Scope = {}
    None = None
    Timeouts = {1}
    Limits = {1}
    MaxClock = 1
    MaxCoalesced = 3
    Provider = {hub, command}
    hub = hub
    CommandProvider = command
    MaxReports = 2
SYMMETRY Symmetry
SPECIFICATION SpecWrites
INVARIANTS
    WritesInv
    AnswerMatchesCommand
PROPERTIES
    OptimisticIsOwned
    ReportNotRolledBack
CHECK_DEADLOCK FALSE
