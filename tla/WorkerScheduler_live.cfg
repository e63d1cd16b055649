\* Two workers competing for one slot, two calls at once.
CONSTANTS
    Dirs = {d1}
    Workers = {a, b}
    MaxOpens = 2
    MaxConcurrent = 1
    MaxCalls = 2
SPECIFICATION FairSpec
PROPERTY CloseReleases
PROPERTY QueueMoves
CHECK_DEADLOCK FALSE
