SPECIFICATION Spec
CONSTANTS
    w1 = w1
    w2 = w2
    v1 = v1
    v2 = v2
    alice = alice
    bob = bob
    rpc = rpc
    Failed = Failed
    TheChain = TheChain
    M10 = 1
    M15 = 1
    M30 = 1
    H1 = 1
    H2 = 1
    H12 = 1
    One = 20
    MaxWindow = 30
    Workers = {w1}
    Identities = {alice}
    Root = {alice}
    Validators = {v1}
    Watchers <- AliceWatches
    OptionalRPC = {v1}
    ManagedRPCs = {rpc}
    Conditions <- EveryKind
    ParamsChoices <- OneParams
    OddKeys = {}
    MaxFaults = 1
PROPERTIES
    SilenceMeansHealth
    CacheShowsTruth
