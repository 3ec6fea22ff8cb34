CONSTANTS
    Caller = {a, b, c}
    Device = {lamp, lock}
    Gate = {g1, g2, g3}
    None = None
SPECIFICATION FairSpec
INVARIANTS
    GateInv
    MutualExclusion
PROPERTY WaitersServed
