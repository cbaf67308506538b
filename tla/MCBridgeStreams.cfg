CONSTANTS
    MAX_SRV_CLIENTS = 2
    STACK_PROTECTOR = 2
    Backlog = 1
    SndBuf = 2
    MaxConns = 2
    MaxRx = 0
    MaxUart = 4
SPECIFICATION Spec
INVARIANTS ClientStreamInOrder NeverWaitsForRoom
PROPERTIES ChunksStayWhole
