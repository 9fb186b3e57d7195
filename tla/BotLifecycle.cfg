CONSTANTS
    alice = alice
    bob = bob
    A = A
    B = B
    Nobody = Nobody
    Users = {alice, bob}
    Tokens = {A, B}
    TokenOf <- MCTokenOf
    Files <- MCFiles
SPECIFICATION FairSpec
INVARIANTS
    OneReaderPerToken
    ClosedUnused
    NoChatLeftOut
PROPERTIES
    ShutdownCompletes
CHECK_DEADLOCK FALSE
