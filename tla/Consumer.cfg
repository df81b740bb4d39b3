CONSTANTS
    p1 = p1  p2 = p2  n1 = n1  n2 = n2
    Engines = {p1, p2}
    Restarted = {p1}
    Names = {n1, n2}
    NameChoices <- MCTwoNames
    Nobody = Nobody
    N = 3
    Backlog = 2
    Invalid = {2}
    ReadCount = 2
    Cap = 2
    BatchSize = 1
    Capacity = 1
    MaxLen = 3
    FaultKinds = {"crash", "read", "letter", "batch"}
    MaxFaults = 1
SPECIFICATION FairSpec
INVARIANTS TypeOK NothingLost PoisonIsKept
PROPERTIES ImplementsDelivery AllHandled StartupCompletes
