\* PostgreSQL: claims interleave statement by statement.  No symmetry: it is not
\* sound for liveness.  Two invocations: the one that dies and the one that is
\* retried (and recycled) until it takes the lease over.
CONSTANTS
    Runs = {r1, r2}
    SQLITE = FALSE
    HB_INTERVAL = 1
    HB_STALE = 2
    RUN_STALE = 2
    MAX_LAG = 1
    MAX_FAULTS = 1
SPECIFICATION FairSpec
PROPERTY CrashedRunIsReplaced
