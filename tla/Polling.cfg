CONSTANTS
    Entries = {a, b}
    Polls = {p, q}
    Reclaims = {r1}
    Signals = {s, t}
    None = None
    BatchSize = 2
    Capacity = 2
    Slowness = {TRUE, FALSE}
    MaxFailures = 1
SPECIFICATION FairSpec
INVARIANTS TypeOK OneBatchAtATime CleanExit
PROPERTIES BackoffRespected WorkIsTaken
