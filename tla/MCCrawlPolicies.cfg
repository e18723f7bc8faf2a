SPECIFICATION FairSpec
CONSTANTS
  Source <- MCSource
  Policy <- MCPolicy
  PastEnd <- MCPastEnd
  Listing <- MCListing
  Stored <- MCStored
  Lists <- MCLists
  Sites <- MCSites
  PageSize = 2
  EmptyRetries = 1
  Job <- MCJob
  Plans <- MCPlans
  Sweep <- MCSweep
  MaxPage = 6
  MaxSite = 0
  MaxRate = 1
INVARIANT CompleteCrawlLoadedAll
PROPERTY JobsEnd
CHECK_DEADLOCK FALSE
