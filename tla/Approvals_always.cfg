SPECIFICATION ApprovalSpec
CONSTANTS
  Workspaces = {w1, w2}
  Calls = {c1}
  Turns = {t1}
  Keys = {k1, k2}
  NoKey = nokey
  AutoApproved = {}
  Permitted = {}
INVARIANTS
  AlwaysPersists
