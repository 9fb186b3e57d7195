SPECIFICATION Spec
CONSTANTS
    Identities = {"alice", "bob"}
    Accounts = {"A", "B"}
    Incomplete = "incomplete"
    Valopers = {"val"}
    ChainNames = {"c", "d"}
    Endpoints = {"rpc"}
    UsersFiles <- MCUsersFiles
    ChainsFiles <- MCChainsFiles
    Chats = {"chat"}
    Patterns = {p, q, r}
    Limit = 1
    Longest = 1
    MaxTime = 2
    Employees = {e1, e2}
    Commands <- MCCommands
    RateInterval = 1
CHECK_DEADLOCK FALSE
INVARIANT RootsKnowPauses
PROPERTY LivePatternKept
SYMMETRY Symmetry
