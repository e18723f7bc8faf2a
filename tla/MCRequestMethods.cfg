SPECIFICATION Spec
CONSTANTS
  Doc <- MCDoc
  Service <- Services
  Reach <- Injected
  Users <- MCUsers
  Call <- MCCall
  DocOf <- MCDocOf
  Before <- MCBefore
  Paths <- MCPaths
  PoolSize = 1
  None = None
INVARIANTS
  TypeOK
  ChangesAreAudited
  OkMeansDone
  OneChangePerContext
PROPERTY ImplementsLedger
CHECK_DEADLOCK FALSE
