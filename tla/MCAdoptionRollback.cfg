\* An adoption that fails, and its rollback.
SPECIFICATION AdoptionSpec
CONSTANTS
    Names = {m}
    Versions = {v, w}
    Unmanaged = {}
    Absent = absent
    Foreign = foreign
    Partial = partial
    Unwinding = unwinding
    Diverged = diverged
    NoDocument = noDocument
    NoAdoption = noAdoption
    MaxSnapshots = 1
SYMMETRY Symmetry
PROPERTY RollbackUndoesApply
