CONSTANTS
    Keys = {k1, k2}
    Workers = {w1}
    NoKey = NoKey
    MaxRetries = 2
    ChanCap = 1
SPECIFICATION LoopFairSpec
PROPERTIES
    ImplementsKeyedTasks
    RetriesSettle
    StopReachesWorkers
