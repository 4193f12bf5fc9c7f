CONSTANTS
  AWS = AWS
  AWS_GOV = AWS_GOV
  AZURE = AZURE
  GCP = GCP
  Clouds <- MCClouds
  ItemsCap = 10
  ErrCap = 5
SPECIFICATION Spec
INVARIANT ReturnsAllItems
CHECK_DEADLOCK FALSE
