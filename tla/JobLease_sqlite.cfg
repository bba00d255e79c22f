\* Two faults: enough for a zombie (stall) and a crash, or a failed beat and a stall.
CONSTANTS
    Runs = {r1, r2, r3}
    SQLITE = TRUE
    HB_INTERVAL = 1
    HB_STALE = 2
    RUN_STALE = 3
    MAX_LAG = 1
    MAX_FAULTS = 2
SYMMETRY RunSymmetry
SPECIFICATION Spec
CHECK_DEADLOCK TRUE
INVARIANTS
    ExclusiveBody
PROPERTIES
    LiveRunKeepsLease
    OutcomeIsTheOwners
    ImplementsSlot
