------------------------------- MODULE MCHunt -------------------------------
(* Hunt on a small inventory that has a resource of most kinds. *)
EXTENDS Hunt

Item(id, cloud, kind, name, state) ==
  [id |-> id, cloud |-> cloud, region |-> "r1", kind |-> kind, name |-> name,
   owner |-> "", labels |-> {}, state |-> state, old |-> TRUE, group |-> ""]

Ignored(i)   == [i EXCEPT !.labels = {IgnoreLabel}]
Owned(i, o)  == [i EXCEPT !.owner = o]
Member(i)    == [i EXCEPT !.group = "workers-"]
In(i, r)     == [i EXCEPT !.region = r]

MCProviders == {"AWS", "AWS_GOV", "AZURE", "GCP"}

MCInventory ==
  {Owned(Item("i1", "AWS", "instance", "web-1", "running"), "alice"),
   Member(Item("i3", "GCP", "instance", "workers-1", "running")),
   Ignored(Member(Item("i4", "GCP", "instance", "workers-2", "stopped"))),
   Item("i2", "GCP", "instance", "workers-old", "running"),
   Owned(Item("s1", "AWS_GOV", "stack", "gov", "running"), "alice"),
   Owned(Item("s2", "AZURE", "stack", "rg", "running"), "alina"),
   Item("a1", "AWS", "alert", "cpu", "unused"),
   In(Item("a2", "AWS", "alert", "cpu", "inuse"), "r2"),
   In(Item("a3", "AWS", "alert", "disk", "unused"), "r2"),
   Item("t1", "AZURE", "storage", "logs", "unused"),
   Ignored(Item("m1", "AWS", "image", "base", "unused")),
   Item("m2", "GCP", "image", "base", "unused")}

MCStartsWith ==
  {<<"web-1", "web">>, <<"alice", "al">>, <<"alina", "al">>,
   <<"alice", "alice">>} \cup ({"workers-1", "workers-2", "workers-old"} \X {"workers-"})

None == [version |-> "none"]
V1 == [version |-> "V1",
       values  |-> {<<"excludeInstance", "Aws", "owner", "alice">>,
                    <<"excludeInstance", "Azure", "owner", "alice">>,
                    <<"includeInstance", "Aws", "name", "web">>}]
V2 == [version |-> "V2",
       filters |-> <<[types      |-> {"excludeInstance", "includeInstance"},
                      clouds     |-> {"aws_gov", "azure"},
                      properties |-> {"owner", "name"},
                      values     |-> {"al"}],
                     [types      |-> {"excludeInstance"},
                      clouds     |-> {"aws", "azure"},
                      properties |-> {"owner"},
                      values     |-> {"alice"}]>>]

Request(op, action, fs, dryRun, disabled, config) ==
  [op |-> op, action |-> action, filters |-> fs, clouds |-> {},
   registered |-> FilterTypes, dryRun |-> dryRun,
   ignoreLabelDisabled |-> disabled, exactMatchOwner |-> FALSE, config |-> config]

\* Flags that go together: -d, -i and the filter configuration.
Flags == {<<FALSE, FALSE, None>>, <<FALSE, FALSE, V1>>, <<FALSE, TRUE, V2>>, <<TRUE, FALSE, V2>>}

\* The command lines of the run: every action that changes the clouds, and
\* two that report, on five operations; and some that are rejected, restrict
\* the clouds, have an unknown filter name or one that is not registered.
MCRequests ==
  {Request(op, action, fs, flags[1], flags[2], flags[3]) :
     op     \in {"getInstances", "getStacks", "getAlerts", "getStorages", "readImages"},
     action \in {"log", "notification", "termination", "stop", "cleanup"},
     fs     \in {{}, {"longrunning"}, {"running", "nomatch"}, {"match", "ownerless"}},
     flags  \in Flags}
  \cup
  {[Request("getInstances", "termination", {"longrunning", "nosuch"}, FALSE, FALSE, V2)
      EXCEPT !.clouds = {"AWS", "GCP"}, !.exactMatchOwner = TRUE],
   [Request("getStacks", "termination", {"failed"}, FALSE, FALSE, None)
      EXCEPT !.clouds = {"DUMMY"}],
   [Request("getInstances", "termination", {"longrunning", "match"}, FALSE, FALSE, V1)
      EXCEPT !.registered = FilterTypes \ {"longrunning"}],
   Request("getDisks", "nosuch", {}, FALSE, FALSE, None)}

DryRunRequests == {Request("getInstances", "termination", {"running"}, TRUE, FALSE, None)}
=============================================================================
