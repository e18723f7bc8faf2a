SPECIFICATION Spec
CONSTANTS
  Service <- MCService
  Pages <- MCPages
  Edits <- MCEdits
  Inputs <- MCInputs
  Rates <- MCRates
  Year0 = 2024
  LastYear = 2025
  MaxCrawls = 2
  MaxEdits = 1
  MaxUpdates = 1
INVARIANTS
  TypeOK
  TenureReadRight
  ExpiryReadRight
  FiguresReadRight
  StaleHasCause
PROPERTIES
  HouseStyleIsListed
CHECK_DEADLOCK FALSE
