--------------------------- MODULE MCNativeStacks ---------------------------
(* Two native stacks, one with a load balancer and alarms, one with nothing *)
(* but the call for its alarms; and a stack that is of CloudFormation, with *)
(* a VPC and a load balancer that may be missing while the stack is in      *)
(* failure, or never have been created, or of a type not implemented.       *)
EXTENDS NativeStacks

CONSTANTS full, bare, third, balancer, alarms, bareAlarms, gateway, network

MCStacks == {full, bare, third}
MCParts     == {balancer, alarms, bareAlarms}
MCResources == {gateway, network}
MCStackOf ==
  [r \in MCParts \cup MCResources |->
     IF r = bareAlarms THEN bare ELSE IF r \in MCParts THEN full ELSE third]
MCLoadBalancers == {balancer, gateway}
MCVpcs == {network}
MCInput(t, missingOnes, unnamedOnes, failedOnes) ==
  [type      |-> [s \in MCStacks |-> IF s = third THEN t ELSE "native"],
   missing   |-> missingOnes,
   unnamed   |-> unnamedOnes,
   inFailure |-> failedOnes]
MCInputs ==
  {MCInput("other", {}, {}, {}), MCInput("cf", {}, {}, {third}),
   MCInput("cf", {gateway}, {}, {}), MCInput("cf", {gateway}, {}, {third}),
   MCInput("cf", {gateway}, {gateway}, {third}), MCInput("cf", {}, {network}, {})}
=============================================================================
