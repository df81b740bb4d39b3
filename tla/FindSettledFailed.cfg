CONSTANTS
    m1 = m1  m2 = m2  e1 = e1  e2 = e2  e3 = e3
    alice = alice  bob = bob  carol = carol  la = la  bb = bb  bc = bc
    w1 = w1  w2 = w2
    Matches = {m1, m2}
    Wallets = {alice, bob, carol}
    Orders = {la, bb, bc}
    Entries = {e1, e2}
    MatchOf <- MCMatchOf
    Terms <- MCTerms
    Workers = {w1}
    FaultKinds = {"crash"}
    MaxFaults = 1
    MaxFlips = 0
    Kinds = {"ok"}
    Conflicts = {}
SPECIFICATION Spec
INVARIANT FailedNeverOnChain
