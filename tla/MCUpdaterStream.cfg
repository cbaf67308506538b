CONSTANTS
    SectorSize = 4  PageSize = 1  FsStart = 16
    Sizes = {6}  Versions = {1}
    MaxChunk = 1  StreamExtra = 2
    Erased = Erased  Garbage = Garbage  FsData = FsData  None = None
    MaxUpdates = 1  MaxFails = 0  MaxResets = 0  MaxCuts = 0
SPECIFICATION Spec
INVARIANT StreamStaysInUpdate
CHECK_DEADLOCK FALSE
