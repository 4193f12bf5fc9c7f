CONSTANTS
  full = full
  bare = bare
  third = third
  balancer = balancer
  alarms = alarms
  bareAlarms = bareAlarms
  gateway = gateway
  network = network
  Stacks <- MCStacks
  Parts <- MCParts
  Resources <- MCResources
  Vpcs <- MCVpcs
  Inputs <- MCInputs
  StackOf <- MCStackOf
  LoadBalancers <- MCLoadBalancers
SPECIFICATION FairSpec
INVARIANTS
  PartsAfterInstances
  CleanReturnMeansDeleted
PROPERTIES
  ImplementsStackTermination
  CallEnds
  PartFailureIsFatal
CHECK_DEADLOCK FALSE
