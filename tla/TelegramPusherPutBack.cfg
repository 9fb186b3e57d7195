SPECIFICATION Spec
CONSTANTS
    r1 = r1
    r2 = r2
    r3 = r3
    r4 = r4
    r5 = r5
    m1 = m1
    m2 = m2
    m3 = m3
    m4 = m4
    m5 = m5
    Msgs <- ThreeMessages
    Receivers <- TwoReceivers
    NoReceiver = NoReceiver
    To <- TwoAndOne
    Priority <- RootIsR1
    Fatal = {m2}
    Size <- TwoExceed
    Silenceable = {m2}
    BatchSize = 2
    Limit = 4
    Divider = 1
    Cooldown = 2
    PushSleep = 1
    MinRetryCount = 1
    MaxFaults = 0
INVARIANT PutBackIsNotHandedOut
