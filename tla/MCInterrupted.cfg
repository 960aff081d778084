\* One caller, one Apply, one restart.
SPECIFICATION Spec
CONSTANTS
    Clients = {c1}
    Applies = {a1}
    Configs = {e, x}
    EmptyConfig = e
    Partial = partial
    Unwinding = unwinding
    Diverged = diverged
    Requests = {"edit", "apply"}
    MaxCrashes = 1
    StoreFaults = FALSE
SYMMETRY Symmetry
INVARIANT FailedMeansBack
