CONSTANTS
  Providers <- MCProviders
  Inventory <- MCInventory
  Requests <- MCRequests
  StartsWith <- MCStartsWith
SPECIFICATION FairSpec
INVARIANTS
  TypeOK
  FiltersCompose
  TouchedWasSelected
  CleanExitMeansHandled
  AbortBeforeAction
PROPERTIES
  RunEnds
CHECK_DEADLOCK FALSE
