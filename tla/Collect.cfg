CONSTANTS
  AWS = AWS
  AWS_GOV = AWS_GOV
  AZURE = AZURE
  GCP = GCP
  Clouds <- MCClouds
  ItemsCap = 2
  ErrCap = 1
SPECIFICATION FairSpec
INVARIANTS
  TypeOK
  NoSendAfterClose
  EachBatchOnce
PROPERTIES
  ImplementsCollection
  WaitReturns
CHECK_DEADLOCK FALSE
