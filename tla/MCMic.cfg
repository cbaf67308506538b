CONSTANTS
    PCMBUF_SIZE = 3
    Counts = {1, 2}
    MaxSamples = 11  MaxFails = 2  MaxRestarts = 1
SPECIFICATION Spec
INVARIANTS PacketIsOneSlice SlicesInOrder SettingIsKept
CHECK_DEADLOCK FALSE
