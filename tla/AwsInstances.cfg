CONSTANTS
  plain = plain
  member = member
  spotMember = spotMember
  spot = spot
  lone = lone
  pool = pool
  NoGroup = NoGroup
  Instances <- MCInstances
  RegionOf <- MCRegionOf
  GroupOf <- MCGroupOf
  Spot <- MCSpot
  AwsBulkOperationSize = 2
SPECIFICATION FairSpec
INVARIANTS
  GroupSuspendedFirst
  CleanReturnAccounts
PROPERTIES
  ImplementsProviderCall
  CallEnds
CHECK_DEADLOCK FALSE
