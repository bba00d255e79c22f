SPECIFICATION BillingSpec
CONSTANTS
    h1 = h1
    h2 = h2
    N = 2
    Created <- MCSameSecond
    Handlers = {h1, h2}
    ATTEMPTS = 2
    Tabs = {"tab1", "tab2"}
    PLAN_IDS = {"monthly"}
    LastMinute = 2
    LastEvent = 4
    NoTab = NoTab
    MAX_DUPES = 0
    MAX_FAULTS = 0
INVARIANTS
    OnlyTheDocumentedWindow
CHECK_DEADLOCK FALSE
