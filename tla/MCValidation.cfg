SPECIFICATION FairSpec
CONSTANTS
    Validations = {v1, v2}
    MaxStops = 1
    Blocks = FALSE
    None = None
INVARIANT ValidationTypeOK PassedMeansProved ProbesAccounted
PROPERTY EveryValidationEnds
CHECK_DEADLOCK FALSE
