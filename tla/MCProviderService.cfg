CONSTANTS
    Edit = {e1, e2}
    Address = {a1, a2}
    Caller = {c1, c2}
    Maintenance = maintenance
    Hook = hook
    None = None
    Revoked = Revoked
    MaxCalls = 2
    MaxFailures = 2
    MaxInputs = 3
    MaxIssued = 2
SPECIFICATION FairSpec
INVARIANTS
    ConfigsAreTrue
    RevokedStaysRevoked
    RuntimeFollows
PROPERTIES
    Progress
CHECK_DEADLOCK FALSE
