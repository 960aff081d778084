\* Two callers whose requests interleave: commits race for a Snapshot number.
SPECIFICATION Spec
CONSTANTS
    Clients = {c1, c2}
    Applies = {a1, a2}
    Configs = {e}
    EmptyConfig = e
    Partial = partial
    Unwinding = unwinding
    Diverged = diverged
    Requests = {"edit", "admin_import", "apply"}
    MaxCrashes = 1
    StoreFaults = FALSE
SYMMETRY Symmetry
INVARIANTS CommittedNeverRolledBack CommitsAreOwn
PROPERTY CandidateFrozen
