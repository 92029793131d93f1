------------------------------- MODULE MCEndpoint -------------------------------
(* One run for what is reached from outside and reaches out: the endpoint, whose   *)
(* configurations differ in the bind decision that follows and whose two clients   *)
(* share a session; the tool calls it passes on, next to the panels' edits; the    *)
(* accounts.  A behaviour is one of one part; the others rest in their initial     *)
(* states.                                                                         *)
EXTENDS McpEndpoint, Accounts, MCToolCalls

VARIABLE part

toolPartVars == <<toolVars, edits>>
mcVars == <<part, endpointVars, accountVars, toolPartVars>>

Remote == [enabled |-> TRUE, address |-> "remote", token |-> "acceptable",
           acknowledged |-> TRUE, tls |-> "none"]

SomeConfigs ==
  {Remote,
   [Remote EXCEPT !.enabled = FALSE],
   [Remote EXCEPT !.tls = "usable"],
   [Remote EXCEPT !.tls = "half"],
   [Remote EXCEPT !.address = "loopback"]}

OutsideInit ==
  /\ part \in {"endpoint", "accounts", "tools"} /\ EndpointInit /\ AccountsInit /\ MCToolInit
  /\ part # "endpoint" => decision.loopbackOnly

OutsideNext ==
  /\ UNCHANGED part
  /\ IF part = "endpoint" THEN EndpointNext ELSE UNCHANGED endpointVars
  /\ IF part = "accounts" THEN AccountsNext ELSE UNCHANGED accountVars
  /\ IF part = "tools" THEN MCToolNext ELSE UNCHANGED toolPartVars

\* The fairness of the endpoint; nothing is promised of a user who signs in.
OutsideSpec ==
  /\ OutsideInit /\ [][OutsideNext]_mcVars
  /\ WF_endpointVars(part = "endpoint" /\ Serve)
  /\ WF_endpointVars(part = "endpoint" /\ StopReturn)
=================================================================================
