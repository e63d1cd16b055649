CONSTANTS
    Dirs = {d1}
    Workers = {a}
    MaxOpens = 2
    MaxConcurrent = 2
    MaxCalls = 2
SPECIFICATION Spec
INVARIANT OneRunPerWorker
CHECK_DEADLOCK FALSE
