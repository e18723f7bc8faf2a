SPECIFICATION FairSpec
CONSTANTS
  Doc <- MCDoc
  Service <- Services
  Reach <- Injected
  Users <- MCUsers
  Call <- MCCall
  DocOf <- MCDocOf
  Before <- MCBefore
  Paths <- MCPaths
  PoolSize = 2
  None = None
INVARIANT NoLeakedConnection
PROPERTY CallsAnswered
CHECK_DEADLOCK FALSE
