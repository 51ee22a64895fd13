SPECIFICATION Spec
CONSTANTS
    code = code
    blob = blob
    key = key
    None = None
    Removed = Removed
    Service = {0, 1, 2, 3, 4, 5, 6, 7}
    Hash = {code, blob}
    Key = {key}
    KeyBytes = 1
    PreimageBytes = 4
    Slot <- MCSlot
    Code <- MCCode
    Initial <- MCInitial
    Reports <- MCReports
    GasLimit = 3
    AutoGas = 1
    MinPublic = 1
    IdSpan = 7
    Bump = 2
    Candidate <- MCCandidate
    Expunge = 4
    MaxBalance = 900
    TransferMinGas = 1
    Programs = {{"transfer", "burn"}}
    Amount = {70}
    Gas = {1}
    Value = {1}
    Assignee = {1, 3}
    Gratis = {0, 105}
    Roles <- MCRoles
    MaxCalls = 3
CHECK_DEADLOCK FALSE
INVARIANTS NoAssertionFails
