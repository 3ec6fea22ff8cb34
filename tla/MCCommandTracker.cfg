CONSTANTS
    Id = {c1, c2}
    Key = {power}
    Value = {on, off}
    Scope = {s1}
    None = None
    Timeouts = {1}
    Limits = {0, 1, 2}
    MaxClock = 2
    MaxCoalesced = 1
SPECIFICATION FairSpec
INVARIANTS
    IndexesExact
    HistoryBounded
PROPERTIES
    TerminalIsFinal
    EveryCommandSettles
