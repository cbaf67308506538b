SPECIFICATION Spec
CONSTANTS
    FifoDepth = 3
    IntrTrig = 2
    Sizes = {2, 3, 4}
    InitSize = 3
    MaxBytes = 5
INVARIANTS DeliveredInOrder AnnouncedIsHeld LossIsRecorded
PROPERTIES PeekThenRead ImplementsByteQueue FifoIsServed
