\* Every Apply ends, with a restart at any point and no store that raises.
SPECIFICATION FairSpec
CONSTANTS
    Clients = {c1}
    Applies = {a1, a2}
    Configs = {e}
    EmptyConfig = e
    Partial = partial
    Unwinding = unwinding
    Diverged = diverged
    Requests = {"apply", "admin_apply"}
    MaxCrashes = 2
    StoreFaults = FALSE
PROPERTY EveryApplyEnds
