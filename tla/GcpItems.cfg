CONSTANTS
  web1 = web1
  web2 = web2
  api1 = api1
  old = old
  db = db
  web = web
  api = api
  Resources <- MCResources
  Groups <- MCGroups
  Named <- MCNamed
  Members <- MCMembers
  Listings <- MCListings
  Slots = 2
SPECIFICATION FairSpec
INVARIANTS
  TypeOK
  CleanReturnAccounts
PROPERTIES
  CallEnds
CHECK_DEADLOCK FALSE
