CONSTANTS
    MAX_SRV_CLIENTS = 2
    STACK_PROTECTOR = 1
    Backlog = 2
    SndBuf = 2
    MaxConns = 3
    MaxRx = 1
    MaxUart = 1
SPECIFICATION Spec
INVARIANTS TypeOK HandlesCounted BacklogIsUnclaimed
PROPERTIES OpenClientKeepsSlot EveryClientIsClaimed
