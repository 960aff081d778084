\* Two Applies, two saves, one crash: content that appears, changes and goes.
SPECIFICATION Spec
CONSTANTS
    None = none
    Broken = broken
    Patterns = {none}
    Listeners = {none, l}
    Preserved = {none, m}
    RawFiles = {none, r1, r2}
    MaxSaves = 2
    MaxApplies = 2
    MaxCrashes = 1
SYMMETRY Symmetry
INVARIANTS TypeOK LoadedUnlessDoubted PodsCanStart ValidatedIsDelivered
