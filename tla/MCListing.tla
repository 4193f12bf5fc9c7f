------------------------------ MODULE MCListing ------------------------------
(* Two sections of two pages and one, and an account of two pages.  The    *)
(* instances make three stacks on AWS, one of them in both regions and one *)
(* of a single instance, with one instance, one load balancer and one      *)
(* address that belong to CloudFormation; on GCP two instances share a     *)
(* name, and a stack has interfaces to three networks.                     *)
EXTENDS Listing

CONSTANTS east, west, account, a, b, c, d, e, f,
  i1, i2, i3, i4, i5, lb1, lb2, ip1, ip2, sg1, vol1, al1, al2,
  n1, n2, n3, f1, f2, s1, s2, adr1, adr2, db1, db2

MCItems == {a, b, c, d, e, f}
MCSections == {east, west}
MCPages ==
  [s \in {east, west, account} |->
     CASE s = east -> <<{a, b}, {c}>> [] s = west -> <<{d}>> [] s = account -> <<{e}, {f}>>]
MCInactive == {b}
MCNameless == {d}

MCInstances == {i1, i2, i3, i4, i5}
MCTagged == {i1, i2, i3, i4, i5, lb1, lb2, ip1, ip2, sg1, db1, db2}
MCGroupOf == [x \in MCTagged |-> IF x \in {i4, i5, lb2} THEN "prod" ELSE "test"]
MCStateOf == [i \in MCInstances |-> IF i = i2 THEN "Stopped" ELSE "Running"]
MCTagsOf == [i \in MCInstances |-> IF i = i5 THEN {} ELSE IF i = i2 THEN {"group", "ignore"} ELSE {"group"}]
MCNameOf == [i \in MCInstances |-> IF i \in {i1, i4} THEN "gateway" ELSE IF i = i2 THEN "core" ELSE IF i = i3 THEN "worker" ELSE "idbroker"]
MCRegionOf == [x \in MCInstances \cup {lb1, lb2, ip1, ip2, sg1} |-> IF x \in {i1, i2, i5, lb1, ip1, sg1} THEN east ELSE west]
MCCfTagged == {i5, lb1, ip2}
MCVolumesOf == [i \in MCInstances |-> IF i = i2 THEN {vol1} ELSE {}]
MCAlarmsOf == [i \in MCInstances |-> IF i = i1 THEN {al1, al2} ELSE {}]
MCNetworksOf ==
  [i \in MCInstances |->
     CASE i = i1 -> <<n1, n2, n3>> [] i \in {i2, i4} -> <<n1>> [] i = i3 -> <<n3>> [] OTHER -> <<>>]
MCDescribed == {n1, n2}
MCFirewallsOf == [n \in {n1, n2, n3} |-> IF n = n1 THEN {f1, f2} ELSE {}]
MCSubnetsOf == [n \in {n1, n2, n3} |-> CASE n = n1 -> {s1} [] n = n2 -> {s2} [] OTHER -> {}]
MCAddressesOf == [i \in MCInstances |-> IF i = i2 THEN {adr1} ELSE IF i = i4 THEN {adr2} ELSE {}]
MCDatabases == {db1, db2}
=============================================================================
