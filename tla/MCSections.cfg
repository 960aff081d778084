SPECIFICATION SectionsSpec
CONSTANTS
    Apchi = 1
    EndUsers = {3, 4}
    System = 3
    Catalogs = {1, 3}
    Schemas = {3}
    Tables = {1, 3}
    Privileges = {"SELECT", "INSERT"}
    Select = "SELECT"
    MaxGrants = 2
    HandFiles <- MCHandFiles
    Paths <- MCPaths
    Legacy <- MCLegacy
    MaxSelectors = 2
    NoGroup <- Nowhere
    Expansion <- MCExpansion
    Self = "apchi"
    Principals = {"apchi", "p"}
    Derived = {"apchi", "p", "q"}
    MaxPreserved = 2
    MaxHandRules = 3
    CatalogNames = {"a"}
    Certificates = {"x"}
    ListenerNames = {1, 2}
    MaxCertificates = 1
    MaxSnapshots = 2
    FromDeployment = TRUE
    Seeded = 0
    Resources = {"a", "b"}
    Contents = {"c"}
    Actors = {p, q}
    MaxEvents = 3
    MaxTime = 2
    PageSize = 1
    Absent = "absent"
SYMMETRY Interchangeable
INVARIANT OnlyGranted ApchiKeepsAccess ReadBackMeansTheSame
INVARIANT CheckedStarts PredictionIsRight RulesSayWhatIsStaged
INVARIANT MappingHolds ClusterHoldsWhatItNames
INVARIANT TrailAddsUp PagesMissNothing
PROPERTY EditTouchesOnlyItsPlace
