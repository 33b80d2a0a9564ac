SPECIFICATION Spec
CONSTANTS
    MaxDepth = 4
    MaxCalls = 3
    MaxClosed = 2
    MaxErrors = 2
    Stream = {"out", "gone", "p", "q"}
    StdStream = "out"
    Nowhere = "gone"
    BatchSlots = 2
    BatchCap = 2
    MaxBytes = 3
    Bits = 5
    Mant = 3
    NaN = NaN
    Starts <- MCStarts
    Limits <- MCLimits
    Addends <- MCAddends
    Steps <- MCSteps
    MaxVisits = 33
    Name = {"p", "q"}
    Env = {"g", "e", "b"}
    RealG = "g"
    Bare = {"b"}
    MaxLoads = 3
    Text = {"a", "b", "c", "d", "e"}
    HashOf <- MCHash
    PoolCap = 4
    Modules <- MCModules
    MaxMade = 7
INVARIANTS ClosedInReverse ErrorsKept BytesInOrder NothingLost VisitsProgression
    EnvOfInnermost OneInstance PoolProbeEnds OneCopyMade
PROPERTIES ErrorsDelivered LoopEnds
CHECK_DEADLOCK FALSE
