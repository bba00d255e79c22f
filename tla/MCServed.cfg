SPECIFICATION ServedSpec
CONSTANTS
    Runs = {r1, r2, r3}
    Readers = {a1}
    Genesis = genesis
    Nothing = nothing
    Torn = torn
    EXCLUSIVE = TRUE
    MAX_FAULTS = 2
    Deployments = {"automated_snapshot_pipeline"}
    MaxScans = 2
    LastTime = 2
    Interval = 0
    PUBLISHER_INTERVAL = 0
    Floor = 1
    HardStale = 0
    QuotedMarkets = {"q1"}
    Asks = {2}
    Bids = {1}
    Serving = {"snapshot", "live"}
    MinSample = 1
    MaxSightings = 3
    LastMoment = 1
    NoPrice = NoPrice
    m1 = m1
    m2 = m2
    Candidates = {m1, m2}
    HorizonOf <- MCHorizons
    Rankers = {"w1", "w2"}
    TOP_N = 1
    MaxRuns = 2
    MaxChanges = 2
    MissingCodes = {"threshold_unknown", "cutoff_unknown"}
    Contradictions = {"source_differs"}
    TOP_REASONS = 2
    MaxPairs = 3
    MaxBuilds = 2
    MaxDamage = 2
    One = 1000
    SlippageTicks = 1
    TransferCost = 200
    Interest = 2
    Contracts <- MCContracts
    Tables <- MCTables
    Ladder = {1, 5, 10, 25}
    Wanted = {0, 1, 3, 10, 99}
    CostMaxSize = 50
    IndexLimit = 2
    SampleCap = 2
    SectorMin = 2
    StaleAfter = 3
INVARIANTS
    LineageIsHonest
    ChecksAreEarned
    ScansAreReportedTruly
    PricesAreObservations
    RankingsAreToldTruly
    CostsAddUp
PROPERTIES
    ReadersGetThrough
    ImplementsPublished
CHECK_DEADLOCK FALSE
