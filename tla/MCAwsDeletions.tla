--------------------------- MODULE MCAwsDeletions ---------------------------
(* Three resources in one region and two in another, where an alarm has    *)
(* the name of one of the first.  The lists make a full and a shorter      *)
(* chunk of one region, and mix the regions in several orders.             *)
EXTENDS AwsDeletions

CONSTANTS a, b, c, d, e

MCResources == {a, b, c, d, e}
MCRegions == {"east", "west"}
MCRegionOf == [i \in MCResources |-> IF i \in {a, b, c} THEN "east" ELSE "west"]
MCNameOf ==
  [i \in MCResources |->
     CASE i = a -> "cpu" [] i \in {b, e} -> "disk" [] i = c -> "net" [] i = d -> "errors"]
MCListings == {<<>>, <<a, b, c>>, <<c, a, b>>, <<b, d>>, <<d, b>>, <<a, d, b>>}
=============================================================================
