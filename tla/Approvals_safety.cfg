SPECIFICATION ApprovalSpec
SYMMETRY Symmetry
CONSTANTS
  Workspaces = {w1}
  Calls = {c1, c2}
  Turns = {t1, t2}
  Keys = {k1, k2, k3}
  NoKey = nokey
  AutoApproved = {k2}
  Permitted = {k1}
INVARIANTS
  ApprovalTypeOK
  NothingUnasked
  RequestsSettled
  AlwaysPersists
