\* One caller at a time (the documented operating assumption), every failure:
\* crashes, and a MongoDB that may raise.
SPECIFICATION Spec
CONSTANTS
    Clients = {c1}
    Applies = {a1, a2}
    Configs = {e, x}
    EmptyConfig = e
    Partial = partial
    Unwinding = unwinding
    Diverged = diverged
    Requests = {"edit", "reset", "rollback", "import", "apply", "admin_apply"}
    MaxCrashes = 1
    StoreFaults = TRUE
SYMMETRY Symmetry
INVARIANTS TypeOK OneInFlight DivergenceIsRecorded
PROPERTY TerminalStays
