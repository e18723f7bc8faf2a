SPECIFICATION Spec
CONSTANTS
  p1 = p1
  p2 = p2
  p3 = p3
  k1 = k1
  k2 = k2
  k3 = k3
  k4 = k4
  NoKey = NoKey
  Proc <- MCProc
  Key <- MCKey
  MaxCalls = 6
SYMMETRY Symmetry
INVARIANTS
  RowsHaveObjects
  LeftoversExplained
  EntriesExpire
CHECK_DEADLOCK FALSE
