CONSTANTS
    Txs = {1, 2}
    N = 4
    TxOf <- MCTxOf
    Lends = {2, 3, 4}
    KeyChoices <- MCKeyChoices
    Flags = {f}
    FlagsOf <- MCFlagsOf
    Checks = {"matching", "covering"}
    MaxFaults = 2
    MaxChanges = 3
SPECIFICATION FairSpec
INVARIANTS TypeOK NotAppliedTwice WantedIsKept
PROPERTIES EventsArrive
