SPECIFICATION Spec
CONSTANTS
  p1 = p1
  p2 = p2
  p3 = p3
  c1 = c1
  c2 = c2
  c3 = c3
  NoCode = NoCode
  Proc <- MCProc
  Code <- MCCode
  Resend = 1
  Lifetime = 2
  MaxBad = 2
  MaxTime = 3
  MaxCalls = 6
SYMMETRY Symmetry
INVARIANTS
  AnswersCounted
  NewestCodeKept
  MessagesSpaced
CHECK_DEADLOCK FALSE
