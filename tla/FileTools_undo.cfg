CONSTANTS
    Tools = {t1, t2}
    Paths = {1, 2}
    Locks = {l1, l2}
    None = None
    t1 = t1
    t2 = t2
    l1 = l1
    l2 = l2
    u = u
    User = u
    Files = {1, 2}
    Authors = {t1, t2, u}
    MaxBytes = 9
    Absent = Absent
    MaxTurns = 1
    MaxStuck = 0
    Plans <- OnePlan
    EditFiles = {1, 2}
    StartFiles = {1}
CHECK_DEADLOCK FALSE
SPECIFICATION Spec
PROPERTY UndoKeepsUserEdits
