CONSTANTS
    Wnd = 3
    SndBuf = 2
    MaxRx = 4
    MaxTx = 3
SPECIFICATION Spec
INVARIANTS TypeOK NothingLost WindowConserved WriteReportsPrefix NoLostWakeup FlushOnLivePcb
PROPERTIES CallsReturn
CHECK_DEADLOCK FALSE
