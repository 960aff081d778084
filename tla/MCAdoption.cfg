\* One name, two versions, two Snapshots and a database that may be lost.
SPECIFICATION AdoptionSpec
CONSTANTS
    Names = {m}
    Versions = {v, w}
    Unmanaged = {}
    Absent = absent
    Foreign = foreign
    Partial = partial
    Unwinding = unwinding
    Diverged = diverged
    NoDocument = noDocument
    NoAdoption = noAdoption
    MaxSnapshots = 2
SYMMETRY Symmetry
PROPERTIES AdoptionTakesNothing AdoptionConfirms HistoryConfirmed
