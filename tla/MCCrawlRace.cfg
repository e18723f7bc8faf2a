SPECIFICATION Spec
CONSTANTS
  Source <- MCSource
  Policy <- MCPolicy
  PastEnd <- MCPastEnd
  Listing <- MCListing
  Stored <- MCStored
  Lists <- MCLists
  Sites <- MCSites
  PageSize = 2
  EmptyRetries = 1
  Job <- MCJob
  Plans <- MCPlans
  Sweep <- MCSweep
  MaxPage = 3
  MaxSite = 0
  MaxRate = 2
INVARIANTS
  TypeOK
  DuplicateHasCause
  PriceOnItsProperty
  PricedUnlessTorn
  OnePricePerItem
  OneRatePerCrawl
PROPERTY ImplementsHistory
CHECK_DEADLOCK FALSE
