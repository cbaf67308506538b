CONSTANTS
    UART_TX_FIFO_SIZE = 3
    Modes = {63, 16, 33030172}
    Sizes = {2, 5}
    MaxChars = 6  MaxBegins = 1
SPECIFICATION Spec
INVARIANTS SentInOrder FlushMeansSent WritesWaitOneFrame
CHECK_DEADLOCK FALSE
