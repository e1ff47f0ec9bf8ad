\* Three uploads of two documents and a search on the memory store, two crashes, two chunk sizes.
SPECIFICATION Spec
CONSTANTS
    d1 = d1
    d2 = d2
    small = small
    large = large
    u1 = u1
    u2 = u2
    u3 = u3
    s1 = s1
    Docs <- TwoDocs
    Sizes <- TwoSizes
    Pieces <- TwoPieces
    Uploads = {u1, u2, u3}
    Searches = {s1}
    TopK = 3
    MaxCrashes = 2
    RemoteStore = FALSE
SYMMETRY UploadSymmetry
\* The system stops when all its requests are served.
CHECK_DEADLOCK FALSE
INVARIANTS
    TextIsWhole
    AckedIsStored
    SearchFindsAcked
PROPERTY KeepsPromise
