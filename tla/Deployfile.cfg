SPECIFICATION LoadSpec
CONSTANTS
    d = d
    s1 = s1
    s2 = s2
    f1 = f1
    f2 = f2
    Root = d
    StagePaths <- Paths
    Fragments = {f1, f2}
    MaxIncludes <- Sizes
    Fields <- Shared
    None = None
SYMMETRY Symmetry
INVARIANTS
    MergedOnce
    DiscoveryAgrees
\* A load ends.
CHECK_DEADLOCK FALSE
