\* One directory and one worker; two slots, three calls at once, the directory opened twice.
CONSTANTS
    Dirs = {d1}
    Workers = {a}
    MaxOpens = 2
    MaxConcurrent = 2
    MaxCalls = 3
SPECIFICATION Spec
INVARIANT TypeOK
INVARIANT StartsAccounted
INVARIANT StoppedIsQuiet
INVARIANT OneRunPerWorkspace
INVARIANT PoolSound
CHECK_DEADLOCK FALSE
