---------------------------- MODULE MCGcpStacks -----------------------------
(* A stack with two instances, an address and a network with a subnet, and *)
(* one with a database and an instance but no network.                     *)
EXTENDS GcpStacks

CONSTANTS full, flat, vm1, vm2, address, firewall, subnet, network, database, vm3

MCStacks == {full, flat}
MCParts == {vm1, vm2, address, firewall, subnet, network, database, vm3}
MCStackOf == [r \in MCParts |-> IF r \in {database, vm3} THEN flat ELSE full]
MCKind ==
  [r \in MCParts |->
     CASE r \in {vm1, vm2, vm3} -> "instance"
       [] r = address           -> "ip"
       [] r = firewall          -> "firewall"
       [] r = subnet            -> "subnet"
       [] r = network           -> "network"
       [] r = database          -> "database"]
=============================================================================
