CONSTANTS
    SectorSize = 2  PageSize = 1  FsStart = 10
    Sizes = {3, 5}  Versions = {1, 2}
    MaxChunk = 3  StreamExtra = 0
    Erased = Erased  Garbage = Garbage  FsData = FsData  None = None
    MaxUpdates = 2  MaxFails = 1  MaxResets = 2  MaxCuts = 1
SPECIFICATION Spec
INVARIANTS TypeOK OldSketchSurvives BootsWhole
PROPERTIES UpdateTakesEffect
CHECK_DEADLOCK FALSE
