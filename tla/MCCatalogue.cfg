SPECIFICATION Spec
CONSTANTS
    Keys = {e1, e2, e3}
    Posts <- SmallPosts
    Windows <- SmallWindows
    PageSize = 1
    MaxPageSize = 100
    MaxTime = 2
    MaxWrites = 2
SYMMETRY CatalogueSymmetry
INVARIANTS CatalogueInv WalkMissesNone SplitMissesNone
