CONSTANTS
    MaxCount = 2
    MaxCalls = 4
    MaxFns = 2
SPECIFICATION TaskSpec
PROPERTIES EveryFunctionRuns EveryFunctionIsVisited
