SPECIFICATION PartsSpec
CONSTANTS
    code = code
    blob = blob
    key = key
    None = None
    Removed = Removed
    Service = {0, 1, 2, 3, 4, 5, 6, 7}
    Hash = {code, blob}
    Key = {key}
    KeyBytes = 1
    PreimageBytes = 4
    Slot <- MCSlot
    Code <- MCCode
    Initial <- MCInitial
    Reports <- MCReports
    GasLimit = 3
    AutoGas = 1
    MinPublic = 1
    IdSpan = 7
    Bump = 2
    Candidate <- MCCandidate
    Expunge = 4
    MaxBalance = 900
    TransferMinGas = 1
    Programs <- MCPrograms
    Amount = {70}
    Gas = {1}
    Value = {1}
    Assignee = {1, 3}
    Gratis = {0, 105}
    Roles <- MCRoles
    MaxCalls = 3
    Header = {1, 2, 3, 4, 5, 6, 7}
    Genesis = 0
    NotImported = NotImported
    NoFinality = NoFinality
    Depth = 2
    MaxRestarts = 1
    Peer = {"peer"}
    Bootnode = {"peer"}
    Connection = {1, 2}
    MaxRetries = 2
    ChainBlock = {0}
    FirstBlock = 0
    ParentBlock <- MCNoParents
    TimeSlot <- MCTimeSlot
    Theirs <- MCTheirs
    MaxSequence = 2
    MaxStreams = 1
    MaxIncoming = 1
    NoOne = NoOne
    Unset = Unset
    Backends = {"memory", "hybrid", "full"}
    RebuildEvery = 2
    MaxMessages = 3
    Task = {"a", "b", "c", "d"}
    MinWorkers = 1
    MaxWorkers = 2
    QueueThreshold = 1
    MaxThreads = 3
    Method = {key}
    MaxSent = 2
    NoReport = NoReport
    Validators <- MCValidators
    Signatures <- MCSigned
    CoreOf <- MCCoreOf
    Votes <- MCVotes
    SuperMajority = 3
    Third = 1
    EpochLength = 1
    MaxSlot = 2
    Null = Null
    Clients = {"a", "b"}
    Requests <- MCRequests
    ParentOf <- MCNoParents
    SlotOf <- MCNoParents
    RootOf <- MCNoParents
    ServicesAt <- MCRpcServices
    StatisticsOf <- MCNoParents
    MaxBlock = 1
    MaxRequests <- MCMaxRequests
    MaxPolls = 2
CHECK_DEADLOCK FALSE
INVARIANTS AccountsAreConsistent OnlyInstructionsRun PruningIsExact RegistriesAgree SyncBatchesAttach WorkIsShared RequestsAreServed BlocksPass ExportsAreIndexed ActivityIsTrue NothingOutlives SubscribersAreTold
PROPERTIES NothingMinted RolesMoveByRight InstructionsAreExact CommitsThePath ImplementsFinality MachinesGoOn CallsTellTheTruth VerdictsAreJust
