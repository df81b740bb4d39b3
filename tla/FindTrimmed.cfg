CONSTANTS
    p1 = p1  p2 = p2  n1 = n1  n2 = n2
    Engines = {p1, p2}
    Restarted = {p1}
    Names = {n1, n2}
    NameChoices <- MCNameChoices
    Nobody = Nobody
    N = 3
    Backlog = 2
    Invalid = {2}
    ReadCount = 1
    Cap = 2
    BatchSize = 1
    Capacity = 1
    MaxLen = 1
    FaultKinds = {}
    MaxFaults = 0
SPECIFICATION Spec
INVARIANT NothingLost
