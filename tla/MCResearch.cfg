SPECIFICATION ResearchSpec
CONSTANTS
    Followed <- MCFollowed
    Every <- MCEvery
    At <- MCAt
    Grace <- MCGrace
    StallAfter <- MCStallAfter
    StallFloor = 2
    Daily <- MCDaily
    Late = 1
    LeaseStale = 3
    LastHour = 7
    MaxTroubles = 1
    Feed = {1, 2, 3}
    EndOf <- MCEndOf
    Ladder <- MCLadder
    MarketSize = 2
    TextSize = 1
    TargetSize = 6
    MaxSize = 8
    MaxPicks = 2
    MaxBuilds = 2
  MARKETS = 2
  Buckets <- MCBuckets
  BucketsOf <- MCBucketsOf
  Cap <- MCCap
  BASE = 2
  DAY_CAP = 2
  Prices = {1, 2}
  Capacities = {2}
  Volumes = {2}
  SHARE = 2
  REVIEW = 2
  LAST = 3
  MANY = 1
  Days = {0, 1}
  DayOf <- MCDayOf
  Day = 8
  Hour = 4
  HalfWidth = 2
  DocumentedHours = {0}
  MinPublications = 2
  MinDays = 2
  ResearchCadence = 2
  WindowHorizon = 10
  Tracked = {"b1","b2"}
  Resolution <- MCResolution
  Undated = 99
  Budgets = {0, 3}
  MinBooks = 2
  MaxStaleness = 1
  Histories <- MCHistories
  Horizon = 6
  MaxReports = 1
  MaxPublications = 1
  MaxOversleep = 1
  MaxCapture = 3
  Values = {1}
  Skews = {0, 1}
  LastInstant = 3
  MaxRows = 2
  MaxOutcomes = 1
  One = 60
  Cents = 10
  LiveBatches <- MCLiveBatches
  DemoHistories <- MCDemoHistories
  Tradables = {"k1", "p1"}
  Outcomes <- MCOutcomes
  Strategies <- MCStrategies
  BetaMaps <- MCBetaMaps
  MIN_FIT_SAMPLES = 3
  Noise = 82944
  STALL = 1
  LastDay = 2
  MaxClaims = 4
  MaxJobs = 2
  MaxDecisions = 1
INVARIANTS
    BooksBalance
    PrintsCountOnce
    CollectionIsHonest
    EvidenceCanBeShown
    RowsNameTheirMarket
    SacrificeIsOrderly
    ScheduleIsKept
    RecordIsWellUsed
CHECK_DEADLOCK FALSE
