SPECIFICATION Spec
CONSTANTS
    Runs = {r1, r2}
    Readers = {a1}
    Genesis = genesis
    Nothing = nothing
    Torn = torn
    EXCLUSIVE = TRUE
    MAX_FAULTS = 1
INVARIANT FailedRunLeavesPair
