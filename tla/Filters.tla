------------------------------ MODULE Filters -------------------------------
(***************************************************************************)
(* filter/*.go, types/filter_config*.go and the matchers of utils.go: what *)
(* one filter keeps of a list of cloud items.                              *)
(*                                                                         *)
(* An item is a record with the fields id, cloud, region, kind, name,      *)
(* owner, labels (its tag keys), state, old (created longer ago than the   *)
(* period of the age filters) and group (on GCP, BaseInstanceName + "-" of *)
(* the managed instance group it belongs to, or "").  "flags" is the part  *)
(* of the command line the filters read: ignoreLabelDisabled,              *)
(* exactMatchOwner and config.                                             *)
(***************************************************************************)
EXTENDS Naturals, Sequences

CONSTANT StartsWith   \* the pairs <<hay, needle>> where hay starts with needle

IgnoreLabel == "cloud-cost-reducer-ignore"

-----------------------------------------------------------------------------
(* utils.go and the item types *)

IsStartsWith(hay, needles) == \E n \in needles : <<hay, n>> \in StartsWith

IsAnyStartsWith(haystack, needles) == \E h \in haystack : IsStartsWith(h, needles)

\* The kinds whose GetOwner answers "???" when there is no owner.
UnknownOwnerKinds == {"instance", "stack", "access", "alert", "storage"}

GetOwner(item) ==
  CASE item.kind = "image"                                  -> ""
    [] item.kind \in UnknownOwnerKinds /\ item.owner = ""    -> "???"
    [] OTHER                                                -> item.owner

-----------------------------------------------------------------------------
(* The filter configuration.  A property that is absent and one with no    *)
(* values both make isFilterMatch answer false: both are {} here.          *)

Entity(inclusive, kind) ==
  CASE inclusive  /\ kind = "access" -> "includeAccess"
    [] ~inclusive /\ kind = "access" -> "excludeAccess"
    [] inclusive  /\ kind # "access" -> "includeInstance"
    [] ~inclusive /\ kind # "access" -> "excludeInstance"

\* string(cloud)[0] followed by the rest in lower case, looked up by
\* reflection: FilterInstanceConfig has no field Aws_gov.
FieldName  == [AWS |-> "Aws", AWS_GOV |-> "Aws_gov", AZURE |-> "Azure", GCP |-> "Gcp"]
ConfigFields == {"Aws", "Azure", "Gcp"}

\* A V1 configuration is the set of its <<entity, field, property, value>>.
GetFilterValuesV1(config, entity, cloud, property) ==
  {v[4] : v \in {w \in config.values :
                    /\ FieldName[cloud] \in ConfigFields
                    /\ w[1] = entity /\ w[2] = FieldName[cloud] /\ w[3] = property}}

LowerCase == [AWS |-> "aws", AWS_GOV |-> "aws_gov", AZURE |-> "azure", GCP |-> "gcp"]

\* A V2 configuration is a list of entries; the first that mentions the
\* entity, the cloud and the property answers alone.
GetFilterValuesV2(config, entity, cloud, property) ==
  LET Mentions(e) == /\ entity \in e.types
                     /\ LowerCase[cloud] \in e.clouds
                     /\ property \in e.properties
      First == {n \in DOMAIN config.filters :
                   /\ Mentions(config.filters[n])
                   /\ \A m \in DOMAIN config.filters :
                         Mentions(config.filters[m]) => n <= m}
  IN  UNION {config.filters[n].values : n \in First}

GetFilterValues(config, entity, cloud, property) ==
  CASE config.version = "none" -> {}
    [] config.version = "V1"   -> GetFilterValuesV1(config, entity, cloud, property)
    [] config.version = "V2"   -> GetFilterValuesV2(config, entity, cloud, property)

-----------------------------------------------------------------------------
(* isFilterMatch *)

MatchesConfig(flags, inclusive, item) ==
  LET Values(property) ==
        GetFilterValues(flags.config, Entity(inclusive, item.kind), item.cloud, property)
  IN  /\ item.kind # "image"
      /\ \/ IsStartsWith(item.name, Values("name"))
         \/ flags.exactMatchOwner /\ GetOwner(item) \in Values("owner")
         \/ ~flags.exactMatchOwner /\ IsStartsWith(GetOwner(item), Values("owner"))
         \/ IsAnyStartsWith(item.labels, Values("label"))

HasIgnoreLabel(flags, item) ==
  IgnoreLabel \in item.labels /\ ~flags.ignoreLabelDisabled

\* An ignored item matches every exclusive filter and no inclusive one.
IsFilterMatch(flags, inclusive, item) ==
  IF HasIgnoreLabel(flags, item)
  THEN ~inclusive
  ELSE MatchesConfig(flags, inclusive, item)

-----------------------------------------------------------------------------
(* The nine filters *)

StateFilters == {"running", "longrunning", "stopped", "failed", "unused"}
FilterTypes  == StateFilters \cup {"oldaccess", "ownerless", "match", "nomatch"}

IsInclusive(f) == f = "match"

\* The state each filter asks of each kind of item it applies to.
WantedState ==
  [running     |-> [instance |-> "running", stack |-> "running",
                    database |-> "running", disk |-> "unused"],
   longrunning |-> [instance |-> "running", stack |-> "running",
                    database |-> "running", disk |-> "unused", alert |-> "unused"],
   stopped     |-> [instance |-> "stopped"],
   failed      |-> [stack |-> "failed"],
   unused      |-> [disk |-> "unused", alert |-> "unused"]]

\* On any other kind of item the filter ends the process with log.Fatalf.
Applies(f, kind) ==
  CASE f \in StateFilters -> kind \in DOMAIN WantedState[f]
    [] f = "oldaccess"    -> kind = "access"
    [] OTHER              -> TRUE

IsNeeded(f, item) ==
  /\ f \in StateFilters => item.state = WantedState[f][item.kind]
  /\ f \in {"longrunning", "oldaccess"} => item.old
  /\ f = "ownerless" => GetOwner(item) \in {"", "???"}

Include(flags, f, item) ==
  IsFilterMatch(flags, IsInclusive(f), item) <=> IsInclusive(f)

Keeps(flags, f, item) == Include(flags, f, item) /\ IsNeeded(f, item)

\* What filter(...) returns, and when it does not return: isNeeded is
\* evaluated on every item, the excluded ones too.
Filtered(flags, f, items) == {i \in items : Keeps(flags, f, i)}

Fatal(f, items) == \E i \in items : ~Applies(f, i.kind)
=============================================================================
