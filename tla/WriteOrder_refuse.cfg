SPECIFICATION Spec
CONSTANTS
    c1 = c1
    c2 = c2
    k1 = k1
    k2 = k2
    Conns = {c1, c2}
    Keys = {k1, k2}
    Stripes = 2
    StripeOf <- TwoStripes
    Commands <- CappedCommands
    MaxKeys = 0
    MaxMemory = 2
    Evicts = FALSE
    NotifItems = 2
    NotifBytes = 2
    MaxQueue = 0
    Watchers = {}
    MaxIds = 0
    MaxWrites = 3
INVARIANTS LogReplays
