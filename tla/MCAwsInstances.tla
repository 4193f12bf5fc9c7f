--------------------------- MODULE MCAwsInstances ---------------------------
(* A region with an auto scaling group, a spot instance in it and one      *)
(* outside, and a region with a spot instance only.                        *)
EXTENDS AwsInstances

CONSTANTS plain, member, spotMember, spot, lone, pool

MCInstances == {plain, member, spotMember, spot, lone}
MCRegionOf == [i \in MCInstances |-> IF i = lone THEN "west" ELSE "east"]
MCGroupOf == [i \in MCInstances |-> IF i \in {member, spotMember} THEN pool ELSE NoGroup]
MCSpot == {spotMember, spot, lone}
=============================================================================
