CONSTANTS
    MaxCount = 3
    MaxCalls = 5
    MaxFns = 3
SPECIFICATION TaskSpec
INVARIANTS RunOnceInOrder NoItemLeaks StopEndsThePass ListIsWhole NoItemIsDangling OncePerPass SleeperIsWoken
