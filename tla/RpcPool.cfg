CONSTANTS
    a = a
    slash = slash
    b = b
    A = A
    B = B
    Garbage = Garbage
    Workers = {1, 2}
    Spellings = {a, slash, b}
    EndpointOf <- MCEndpointOf
    ChainFiles <- MCChainFiles
    MaxBlock = 2
SPECIFICATION FairSpec
INVARIANTS
    OneClientPerEndpoint
    AllAsked
PROPERTIES
    NoRpcForgotten
    BestIsHealthiest
    RoundsJoin
