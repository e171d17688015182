SPECIFICATION Spec
CONSTANTS
    Providers = {p1, p2}
    Tiles = {t1, t2}
    Arrays = {a1, a2, none}
    EmptyArrays = {none}
    Callbacks = {e1}
    NULL = NULL
    MaxRefs = 2
    MaxLocks = 1
    MaxCrashes = 1
SYMMETRY Symmetry
INVARIANTS
    CountsAreHolders
    LoadedForObjects
    TileOfPresentUsers
