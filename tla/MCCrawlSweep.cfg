SPECIFICATION FairSpec
CONSTANTS
  Source <- MCSource
  Policy <- MCPolicy
  PastEnd <- MCPastEnd
  Listing <- MCListing
  Stored <- MCStored
  Lists <- MCLists
  Sites <- MCSites
  PageSize = 2
  EmptyRetries = 1
  Job <- MCJob
  Plans <- MCPlans
  Sweep <- MCSweep
  MaxPage = 4
  MaxSite = 1
  MaxRate = 1
INVARIANT CompleteCrawlLoadedAll
PROPERTY SweepReachesAll
CHECK_DEADLOCK FALSE
