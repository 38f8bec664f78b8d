SPECIFICATION FairSpec
CONSTANTS
    c1 = c1
    c2 = c2
    k1 = k1
    k2 = k2
    Conns = {c1, c2}
    Keys = {k1, k2}
    Stripes = 2
    StripeOf <- TwoStripes
    Commands <- MixedCommands
    MaxKeys = 0
    MaxMemory = 0
    Evicts = FALSE
    NotifItems = 2
    NotifBytes = 2
    MaxQueue = 2
    Watchers = {}
    MaxIds = 0
    MaxWrites = 3
INVARIANTS LogReplays BarrierIsExact
PROPERTIES Isolated EveryOperationEnds
