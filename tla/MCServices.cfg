SPECIFICATION ServicesSpec
CONSTANTS
    Runs = {"r1", "r2"}
    MaxAttempts = 2
    MaxCommits = 3
    Callers = {c1, c2}
    Paths = {"series"}
    Threshold = 2
    Reset = 2
    MaxRetries = 2
    MaxConcurrency = 1
    Burst = 1
    TTL = 1
    MaxPages = 2
    Listed = {"w1", "w2", "w3", "b1", "b2", "s1"}
    Listings <- MCListings
    Matchable = {"b1", "s1"}
    MarketOf <- MCMarketOf
    BookBudget = 4
    MatchBudget = 1
    CoverageReserve = 1
    SeriesCap = 2
    OutOfHorizon = 3
    CycleBound = 2
    Writers = {"s1", "s2"}
    Wordings = {"A", "B"}
    Trades = {"t1", "t2"}
    Rewordings = 2
    Urls = {"A", "B"}
    Selections <- MCSelections
    Unnamed = Unnamed
    MaxReloads = 3
    MaxMoves = 2
    NoBook = NoBook
CHECK_DEADLOCK FALSE
INVARIANTS
    TripsOnAStreak
    ReservesAreFloors
    WritesHappenOnce
    PublicationsChain
    PricesTheTicket
PROPERTIES
    CallsEnd
