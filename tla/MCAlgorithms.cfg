SPECIFICATION AlgorithmsSpec
CONSTANTS
    Jobs <- PipelineJobs
    DependsOn <- PipelineDependsOn
    AcceptsPartialFrom <- PipelineAcceptsPartialFrom
    MayPartiallySucceed <- PipelineMayPartiallySucceed
    RequiredForPublication <- Product
    NameRank <- PipelineNameRank
    Venues = {kalshi, polymarket}
    INGEST = "ingest"
    MAX_FAULTS = 2
    One = 100
    SlippageTicks = 1
    TransferCost = 20
    Interest = 2
    Markets <- MCMarkets
    Books <- MCBooks
    Conditions <- MCConditions
    Verdicts = {"STRICT", "STANDARD", "REJECTED"}
    Probabilities = {30, 45, 60}
    Mids = {40, 45, 50, 60}
    MinNotional = 900
    ExecutionRisk = 10
    LiquidDepth = 1000
    EdgeLiquid = 4
    EdgeThin = 5
    MinDivergence = 4
    MinViolation = 2
    Kalshi = {"k1"}
    Polymarket = {"p1", "p2"}
    Terms <- MCTerms
    Similarity <- MCSimilarity
    Overlap <- MCOverlap
    Readings = {1000, 2000, 2001, 3000}
    MaxPerMarket = 1
    MaxPairs = 1
    Generators = {"g1", "g2"}
    SNAPSHOT_MAX_AGE = 1
    QUOTE_MAX_AGE = 1
    CANDIDATE_MAX_AGE = 0
    MAX_CANDIDATES = 1
    Listed = {"l1", "l2"}
    MaxNet = 1
    MaxSnapshots = 2
    LastHour = 2
    MaxReports = 2
    Situations <- MCSituations
    Reviews <- MCReviews
    ResearchSize = 10
    MinEdge = 2
    MakerSpread = 2
    MinGap = 3
    Absorption = 35
    MinMove = 1
    MaxWidth = 35
    Base = 2500
    ShareOf = 2
    Converged = 35
    Invalidation = 5
    RiskStop = 8
    MaxHold = 48
    Buffer = 2
    Captures <- MCCaptures
    Alphas = {1, 2, 3, 4, 5}
    Grid = {1, 2, 5, 10, 15, 20, 25}
    ReportSize = 10
    EdgeFloor = 1
INVARIANTS
    PublicationIsHonest
    ScansPayWhatTheySay
    PairsAreTrue
    ReportsAreEarned
    SignalsAreHonest
    CapacityCanBeHad
