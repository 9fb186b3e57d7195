SPECIFICATION Spec
CONSTANTS
    r1 = r1
    r2 = r2
    r3 = r3
    r4 = r4
    r5 = r5
    m1 = m1
    m2 = m2
    m3 = m3
    m4 = m4
    m5 = m5
    Msgs <- FiveMessages
    Receivers <- FiveReceivers
    NoReceiver = NoReceiver
    To <- OneEach
    Priority <- FourRoot
    Fatal = {}
    Size <- AllShort
    Silenceable = {}
    BatchSize = 2
    Limit = 4
    Divider = 1
    Cooldown = 1
    PushSleep = 0
    MinRetryCount = 1
    MaxFaults = 0
INVARIANTS
    NoOrphanQueue
    SnapshotSound
