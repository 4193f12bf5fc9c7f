CONSTANTS
  full = full
  flat = flat
  vm1 = vm1
  vm2 = vm2
  vm3 = vm3
  address = address
  firewall = firewall
  subnet = subnet
  network = network
  database = database
  Stacks <- MCStacks
  Parts <- MCParts
  Kind <- MCKind
  StackOf <- MCStackOf
SPECIFICATION FairSpec
INVARIANTS
  TypeOK
  NetworkAfterInstances
  NetworkLast
  CleanReturnIsComplete
  LateFailuresOnly
PROPERTIES
  ImplementsStackTermination
  CallEnds
CHECK_DEADLOCK FALSE
