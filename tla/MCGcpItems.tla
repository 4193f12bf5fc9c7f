----------------------------- MODULE MCGcpItems -----------------------------
(* Two groups, one with a base name that begins with the other's and "-",  *)
(* and an instance of no group that is named like the members of the first *)
EXTENDS GcpItems

CONSTANTS web1, web2, api1, old, db, web, api

MCResources == {web1, web2, api1, old, db}
MCGroups == {web, api}
MCNamed == [g \in MCGroups |-> IF g = web THEN {web1, web2, api1, old} ELSE {api1}]
MCMembers == [g \in MCGroups |-> IF g = web THEN {web1, web2} ELSE {api1}]
MCListings ==
  {<<>>, <<db>>, <<old>>, <<web1, web2>>, <<web1, old>>, <<old, web1>>, <<api1, web1>>,
   <<web1, api1>>, <<api1, old, db>>, <<old, api1, web2>>, <<db, web2, old, web1>>}
=============================================================================
