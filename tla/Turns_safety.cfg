SPECIFICATION Spec
SYMMETRY Symmetry
CONSTANTS
  Turns = {t1, t2}
  Sessions = {s1, s2}
  Steers = {m1, m2}
  MaxUnsaved = 1
CHECK_DEADLOCK FALSE
INVARIANTS
  TypeOK
  MessagesKept
  TranscriptsSound
  WorkersApart
