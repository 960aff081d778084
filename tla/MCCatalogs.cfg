\* Two managed names and one unmanaged, two versions: every create, replace and
\* drop, stopped at every statement.
SPECIFICATION Spec
CONSTANTS
    Names = {m, n, u}
    Versions = {v, w}
    Unmanaged = {u}
    Absent = absent
    Foreign = foreign
    Partial = partial
    Unwinding = unwinding
    Diverged = diverged
SYMMETRY Symmetry
INVARIANTS TypeOK KnownMeansBoth ForeignStays RollbackCanFinish
PROPERTY Refines
