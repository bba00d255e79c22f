SPECIFICATION ResearchSpec
CONSTANTS
    Followed <- MCFollowed
    Every <- MCEvery
    At <- MCAt
    Grace <- MCGrace
    StallAfter <- MCStallAfter
    StallFloor = 2
    Daily <- MCDaily
    Late = 1
    LeaseStale = 3
    LastHour = 1
    MaxTroubles = 0
    Feed = {1, 2, 3}
    EndOf <- MCEndOf
    Ladder <- MCLadder
    MarketSize = 2
    TextSize = 1
    TargetSize = 4
    MaxSize = 5
    MaxPicks = 1
    MaxBuilds = 2
  MARKETS = 2
  Buckets <- MCBuckets
  BucketsOf <- MCBucketsOf
  Cap <- MCCap
  BASE = 2
  DAY_CAP = 2
  Prices = {1}
  Capacities = {2}
  Volumes = {2}
  SHARE = 2
  REVIEW = 2
  LAST = 1
  MANY = 1
  Days = {0, 1}
  DayOf <- MCDayOf
  Day = 8
  Hour = 4
  HalfWidth = 2
  DocumentedHours = {0}
  MinPublications = 2
  MinDays = 2
  ResearchCadence = 2
  WindowHorizon = 10
  Tracked = {"b1","b2"}
  Resolution <- MCResolution
  Undated = 99
  Budgets = {0}
  MinBooks = 2
  MaxStaleness = 1
  Histories <- MCHistories
  Horizon = 2
  MaxReports = 0
  MaxPublications = 0
  MaxOversleep = 0
  MaxCapture = 1
  Values = {1}
  Skews = {0, 1}
  LastInstant = 3
  MaxRows = 1
  MaxOutcomes = 0
  One = 60
  Cents = 10
  LiveBatches <- MCLiveBatches
  DemoHistories <- MCDemoHistories
  Tradables = {"k1", "p1"}
  Outcomes <- MCOutcomes
  Strategies <- MCStrategies
  BetaMaps <- MCBetaMaps
  MIN_FIT_SAMPLES = 3
  Noise = 82944
  STALL = 1
  LastDay = 1
  MaxClaims = 0
  MaxJobs = 0
  MaxDecisions = 0
INVARIANTS
    RecommendedEstimatesAreKept
CHECK_DEADLOCK FALSE
