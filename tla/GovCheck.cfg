SPECIFICATION FairSpec
CONSTANTS
    w1 = w1
    w2 = w2
    v1 = v1
    alice = alice
    TheChain = TheChain
    M10 = 1
    M15 = 1
    M30 = 1
    H1 = 1
    H2 = 1
    H12 = 3
    Workers = {w1, w2}
    Identities = {alice}
    Validators = {v1}
    Watchers <- AliceWatches
    MaxProposal = 2
    MaxFaults = 1
INVARIANTS
    VotesRemembered
PROPERTIES
    NoWrongReminder
    NothingOverlooked
    RemindersSpaced
    KeepsReminding
