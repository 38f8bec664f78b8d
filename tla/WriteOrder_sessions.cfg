SPECIFICATION Spec
CONSTANTS
    c1 = c1
    c2 = c2
    k1 = k1
    k2 = k2
    Conns = {c1, c2}
    Keys = {k1, k2}
    Stripes = 2
    StripeOf <- TwoStripes
    Commands <- RivalCommands
    MaxKeys = 1
    MaxMemory = 2
    Evicts = TRUE
    NotifItems = 2
    NotifBytes = 2
    MaxQueue = 1
    Watchers = {c1}
    MaxIds = 2
    MaxWrites = 3
INVARIANTS TypeOK DedupOnce LogReplays
PROPERTIES CompareAndSet
