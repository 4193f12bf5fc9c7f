---------------------------- MODULE MCAzureItems ----------------------------
(* Four resources in two regions: a scale set member, two images of one    *)
(* name and region in different resource groups, and storage accounts with *)
(* young and old blobs.  A negative RETENTION_DAYS is accepted as well.    *)
EXTENDS AzureItems

CONSTANTS a, b, c, d, logs, dumps, cores, today, lastweek, yesterday, lastmonth

MCResources == {a, b, c, d}
MCScaleSetVMs == {c}
MCKey == [i \in MCResources |-> IF i \in {a, b} THEN "ubuntu" ELSE IF i = c THEN "centos" ELSE "rhel"]
MCGroup == [i \in MCResources |-> IF i = b THEN "images" ELSE "default"]
MCRegions == {"east", "west"}
MCRegionOf == [i \in MCResources |-> IF i \in {a, b} THEN "east" ELSE "west"]
MCContainers == {logs, dumps, cores}
MCAccountOf == [k \in MCContainers |-> IF k = cores THEN c ELSE a]
MCBlobs == {today, lastweek, yesterday, lastmonth}
MCContainerOf ==
  [o \in MCBlobs |-> IF o \in {today, lastweek} THEN logs ELSE IF o = yesterday THEN dumps ELSE cores]
MCAge ==
  [o \in MCBlobs |->
     CASE o = today -> 0 [] o = yesterday -> 1 [] o = lastweek -> 7 [] o = lastmonth -> 30]
MCListings == {<<>>, <<c>>, <<a, b>>, <<b, a>>, <<c, a, b>>, <<b, d, a, c>>}
MCRetentionDays == {-1, 1}
=============================================================================
