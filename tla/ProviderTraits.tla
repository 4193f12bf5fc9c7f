--------------------------- MODULE ProviderTraits ---------------------------
(***************************************************************************)
(* What the main loop and the actions rely on of aws.go, gcp.go and        *)
(* azure.go, call by call.  Hunt assumes it of every call in progress; the *)
(* modules of the calls implement ProviderCall, which is stated in the     *)
(* same terms.                                                             *)
(***************************************************************************)
AwsClouds == {"AWS", "AWS_GOV"}

\* Getters that answer "not supported".
Unlistable ==
  AwsClouds \X {"storage"}
    \cup {"GCP"} \X {"alert", "storage"}
    \cup {"AZURE"} \X {"disk", "access", "alert"}

\* Calls that go ahead whatever ctx.DryRun is.
IgnoresDryRun ==
  AwsClouds \X {"TerminateInstances", "StopInstances", "StopDatabases"}
    \cup {<<"AZURE", "StopInstances">>}

\* Calls that return no error though they left a resource as it was: a
\* failure that is only logged, a resource skipped, the wrong one named, one
\* that the request does not reach, or nothing in it older than the retention
\* period.
MaySkip ==
  AwsClouds \X {"StopInstances", "DeleteDisks", "DeleteAlerts"}
    \cup {"AZURE"} \X {"TerminateInstances", "TerminateStacks", "DeleteImages", "CleanupStorages"}
    \cup {<<"GCP", "TerminateInstances">>}

\* The call of cloud c does what it is for.
IsEffective(c, call, dryRun) == ~dryRun \/ <<c, call>> \in IgnoresDryRun

\* An answer without errors means that everything was changed.
AnswerIsFull(c, call, dryRun) == IsEffective(c, call, dryRun) /\ <<c, call>> \notin MaySkip
=============================================================================
