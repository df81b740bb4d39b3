CONSTANTS
    c1 = c1  c2 = c2  c3 = c3
    Callers = {c1, c2}
    Batches = 1
    NoKey = NoKey
    StartNonce = 0
    StartKey = NoKey
    FaultKinds = {"crash", "expire", "extend", "redis", "timeout", "rpc"}
    MaxFaults = 3
    PoolLimit = 3
SPECIFICATION Spec
SYMMETRY CallerSymmetry
INVARIANTS
    TypeOK
    MutualExclusion
    GapsBounded
