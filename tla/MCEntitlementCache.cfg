SPECIFICATION BillingSpec
CONSTANTS
    h1 = h1
    h2 = h2
    N = 3
    Created <- MCCreated
    Handlers = {h1, h2}
    ATTEMPTS = 2
    Tabs = {"tab1", "tab2"}
    PLAN_IDS = {"monthly"}
    LastMinute = 2
    LastEvent = 4
    NoTab = NoTab
    MAX_DUPES = 1
    MAX_FAULTS = 1
INVARIANTS
    AcknowledgedIsReflected
    OnlyDoublesGoUnserved
PROPERTIES
    EventsAreAnswered
CHECK_DEADLOCK FALSE
