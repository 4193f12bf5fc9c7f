CONSTANTS
  a = a
  b = b
  c = c
  d = d
  e = e
  None = None
  Resources <- MCResources
  Regions <- MCRegions
  RegionOf <- MCRegionOf
  NameOf <- MCNameOf
  Listings <- MCListings
  AwsBulkOperationSize = 2
  Slots = 1
  MaxPolls = 1
SPECIFICATION Spec
INVARIANT OnlySelectedDeleted
CHECK_DEADLOCK FALSE
