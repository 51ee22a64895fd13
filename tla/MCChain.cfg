SPECIFICATION ChainSpec
CONSTANTS
    h1 = h1
    h2 = h2
    h3 = h3
    h4 = h4
    t1 = t1
    Header = {h1, h2, h3, h4}
    Genesis = Genesis
    None = None
    Parent <- MCParent
    State <- MCState
    Update <- MCUpdate
    Write <- MCWrite
    Counts <- MCCounts
    Posterior <- MCPosterior
    Task = {t1}
    MaxFailures = 1
    MaxCrashes = 2
    r1 = r1
    r1b = r1b
    r2 = r2
    r3 = r3
    big = big
    p1 = p1
    p2 = p2
    p3 = p3
    p4 = p4
    Report = {r1, r1b, r2, r3, big}
    Package = {p1, p2, p3, p4}
    PackageOf <- MCPackageOf
    Needs <- MCNeeds
    GasOf <- MCGasOf
    CoreOf <- MCCoreOf
    AnchorOf <- MCAnchorOf
    CoresCount = 2
    EpochLength = 3
    Rotation = 2
    GracePeriod = 2
    History = 2
    ReportGas = 2
    MaxBlockGas = 3
    NoReport = NoReport
    Validator = {"v1", "v2"}
    MaxBlocks = 6
    MaxSkip = 2
    MaxJudged = 1
CHECK_DEADLOCK FALSE
INVARIANTS TypeOK StateOfCurrentHash PosteriorsAreStored HeadersHaveStates BestIsComplete PackageInOnePlace DependenciesFirst NoEntryWaitsForThePast NeverDropped
PROPERTIES ImplementsLifecycle
