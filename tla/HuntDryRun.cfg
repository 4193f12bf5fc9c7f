CONSTANTS
  Providers <- MCProviders
  Inventory <- MCInventory
  Requests <- DryRunRequests
  StartsWith <- MCStartsWith
SPECIFICATION Spec
INVARIANTS
  DryRunChangesNothing
CHECK_DEADLOCK FALSE
