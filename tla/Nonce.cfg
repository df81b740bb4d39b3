CONSTANTS
    c1 = c1  c2 = c2  c3 = c3
    Callers = {c1, c2}
    Batches = 2
    NoKey = NoKey
    StartNonce = 2
    StartKey = 2
    FaultKinds = {"lockwait", "send", "lost", "timeout", "late", "rpc"}
    MaxFaults = 2
    PoolLimit = 3
SPECIFICATION FairSpec
INVARIANTS NoGap
PROPERTIES AllSettle
