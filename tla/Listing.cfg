CONSTANTS
  east = east
  west = west
  account = account
  a = a
  b = b
  c = c
  d = d
  e = e
  f = f
  i1 = i1
  i2 = i2
  i3 = i3
  i4 = i4
  i5 = i5
  lb1 = lb1
  lb2 = lb2
  ip1 = ip1
  ip2 = ip2
  sg1 = sg1
  vol1 = vol1
  al1 = al1
  al2 = al2
  n1 = n1
  n2 = n2
  n3 = n3
  f1 = f1
  f2 = f2
  s1 = s1
  s2 = s2
  adr1 = adr1
  adr2 = adr2
  db1 = db1
  db2 = db2
  Account = account
  Items <- MCItems
  Sections <- MCSections
  Pages <- MCPages
  Inactive <- MCInactive
  Nameless <- MCNameless
  Instances <- MCInstances
  Tagged <- MCTagged
  GroupOf <- MCGroupOf
  StateOf <- MCStateOf
  TagsOf <- MCTagsOf
  NameOf <- MCNameOf
  RegionOf <- MCRegionOf
  CfTagged <- MCCfTagged
  VolumesOf <- MCVolumesOf
  AlarmsOf <- MCAlarmsOf
  NetworksOf <- MCNetworksOf
  Described <- MCDescribed
  FirewallsOf <- MCFirewallsOf
  SubnetsOf <- MCSubnetsOf
  AddressesOf <- MCAddressesOf
  Databases <- MCDatabases
  LoadBalancers = {lb1, lb2}
  ElasticIps = {ip1, ip2}
  SecurityGroups = {sg1}
  Capacity = 1
SPECIFICATION FairSpec
INVARIANTS
  ListingAccounts
  StacksAreWhole
PROPERTIES
  ListingEnds
CHECK_DEADLOCK FALSE
