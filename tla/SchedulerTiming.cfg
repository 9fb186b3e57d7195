SPECIFICATION TimedSpec
CONSTANTS
    w1 = w1
    w2 = w2
    Workers <- OneWorker
    Chains = {1, 2}
    NoChain = NoChain
    Interval = 3
    MaxPause = 0
    MaxCheck = 2
    ReloadInterval = 5
INVARIANT ClaimedInTime
PROPERTY EveryChainRechecked
