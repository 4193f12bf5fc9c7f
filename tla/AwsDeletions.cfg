CONSTANTS
  a = a
  b = b
  c = c
  d = d
  e = e
  None = None
  Resources <- MCResources
  Regions <- MCRegions
  RegionOf <- MCRegionOf
  NameOf <- MCNameOf
  Listings <- MCListings
  AwsBulkOperationSize = 2
  Slots = 1
  MaxPolls = 1
SPECIFICATION FairSpec
INVARIANTS
  DetachedIsAccountedFor
  CleanReturnAccounts
PROPERTIES
  ImplementsProviderCall
  CallEnds
CHECK_DEADLOCK FALSE
