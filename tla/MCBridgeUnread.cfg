CONSTANTS
    MAX_SRV_CLIENTS = 1
    STACK_PROTECTOR = 1
    Backlog = 1
    SndBuf = 2
    MaxConns = 2
    MaxRx = 1
    MaxUart = 1
SPECIFICATION Spec
PROPERTIES NothingUnreadIsDropped
