CONSTANTS
    SectorSize = 2  PageSize = 1  FsStart = 10
    Sizes = {3, 5}  Versions = {1}
    MaxChunk = 3  StreamExtra = 0
    Erased = Erased  Garbage = Garbage  FsData = FsData  None = None
    MaxUpdates = 1  MaxFails = 1  MaxResets = 1  MaxCuts = 0
SPECIFICATION Spec
INVARIANT ErrorMeansFalse
CHECK_DEADLOCK FALSE
