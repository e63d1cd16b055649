SPECIFICATION FallbackSpec
CONSTANTS
    Threshold = 1
    InitialCooldown = 1
    MaxCooldown = 3
    Length = 2
    ChainCallers = {c1, c2}
INVARIANT
    OneTrial
