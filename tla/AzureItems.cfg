CONSTANTS
  a = a
  b = b
  c = c
  d = d
  logs = logs
  dumps = dumps
  cores = cores
  today = today
  lastweek = lastweek
  yesterday = yesterday
  lastmonth = lastmonth
  Resources <- MCResources
  ScaleSetVMs <- MCScaleSetVMs
  Key <- MCKey
  Group <- MCGroup
  Regions <- MCRegions
  RegionOf <- MCRegionOf
  Containers <- MCContainers
  AccountOf <- MCAccountOf
  Blobs <- MCBlobs
  ContainerOf <- MCContainerOf
  Age <- MCAge
  Listings <- MCListings
  RetentionDays <- MCRetentionDays
  Slots = 2
SPECIFICATION FairSpec
INVARIANTS
  TypeOK
  CleanReturnAccounts
PROPERTIES
  CallEnds
CHECK_DEADLOCK FALSE
