SPECIFICATION Spec
CONSTANTS
  p1 = p1
  p2 = p2
  p3 = p3
  r1 = r1
  r2 = r2
  NoId = NoId
  Proc <- MCProc
  Email <- MCEmail
  lower <- MCLower
  Request <- MCRequest
  recoveryAttempts = 2
  MaxCalls = 6
SYMMETRY Symmetry
INVARIANTS
  TypeOK
  AttemptsKept
  PasswordChangesOnce
  UnspentRequestKept
CHECK_DEADLOCK FALSE
