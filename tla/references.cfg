SPECIFICATION FairSpec
CONSTANTS
    Lossy = {2}
    Here = Here
    Zero = Zero
    NaN = NaN
    Inf = Inf
    None = None
    v1 = v1
    Values <- OneValue
    Controllers <- AllControllers
INVARIANTS
    TypeOK
PROPERTIES
    CommandsFresh
    NewestIsCommanded
