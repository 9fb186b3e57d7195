SPECIFICATION FairSpec
CONSTANTS
    w1 = w1
    w2 = w2
    v1 = v1
    v2 = v2
    alice = alice
    bob = bob
    rpc = rpc
    Failed = Failed
    TheChain = TheChain
    M10 = 1
    M15 = 2
    M30 = 2
    H1 = 2
    H2 = 2
    H12 = 2
    One = 20
    MaxWindow = 30
    Workers = {w1}
    Identities = {alice, bob}
    Root = {alice}
    Validators = {v1, v2}
    Watchers <- BobOfTwo
    OptionalRPC = {}
    ManagedRPCs = {}
    Conditions <- UpOrDown
    ParamsChoices <- OneParams
    OddKeys = {}
    MaxFaults = 0
PROPERTY KeepsReminding
