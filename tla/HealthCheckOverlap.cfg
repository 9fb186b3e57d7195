SPECIFICATION Spec
CONSTANTS
    w1 = w1
    w2 = w2
    v1 = v1
    v2 = v2
    alice = alice
    bob = bob
    rpc = rpc
    Failed = Failed
    TheChain = TheChain
    M10 = 1
    M15 = 2
    M30 = 3
    H1 = 3
    H2 = 3
    H12 = 3
    One = 20
    MaxWindow = 30
    Workers = {w1, w2}
    Identities = {alice, bob}
    Root = {alice, bob}
    Validators = {v1}
    Watchers <- BobWatches
    OptionalRPC = {}
    ManagedRPCs = {}
    Conditions <- UpOrDown
    ParamsChoices <- TwoParams
    OddKeys = {}
    MaxFaults = 0
INVARIANTS
    StampsAreMessages
    WorseIsMoreUrgent
    FatalBeforeJail
    SilentValidatorFatal
PROPERTY AlertsSpaced
