SPECIFICATION Spec
CONSTANTS
    w1 = w1
    w2 = w2
    Workers <- TwoWorkers
    Chains = {1, 2}
    NoChain = NoChain
    Interval = 2
    MaxPause = 1
SYMMETRY WorkerSymmetry
INVARIANTS
    SnapshotCurrent
    OnceEachPerInterval
    RepickOnlyByRacers
    PauseHonoured
    MostUrgentFirst
