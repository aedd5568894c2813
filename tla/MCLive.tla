------------------------------- MODULE MCLive -------------------------------
(******************************************************************************)
(* What must eventually happen: in the approval gate, the calls between the   *)
(* two services, the requests of the MCP server and the calls of the security *)
(* proxy.  They share no state and stand side by side: a behaviour picks one  *)
(* and stays with it.                                                         *)
(******************************************************************************)
EXTENDS HumanGate, PhaseCalls, McpTransport, ProxyPipeline

CONSTANTS r1, h1, h2, i1, g1, a1, c1, c2

VARIABLE part

Body(tier) ==
  [incident |-> i1, tier |-> tier, autoApprove |-> FALSE, forceVerifyFail |-> FALSE,
   proxyDenied |-> TRUE, target |-> g1, parallel |-> {}]

HighBodies == {Body("high")}

Layer(l, e, f) ==
    [licensed |-> l, enabled |-> e, enforce |-> f]

GuardedPolicy ==
    [denied |-> {}, probes |-> TRUE, strict |-> TRUE,
     layer |-> [llm_risk |-> Layer(TRUE, TRUE, TRUE), tool_intent |-> Layer(TRUE, TRUE, FALSE)],
     routed |-> {c1}, firm |-> TRUE, onward |-> TRUE]
LaxPolicy ==
    [denied |-> {c2}, probes |-> FALSE, strict |-> FALSE,
     layer |-> [llm_risk |-> Layer(FALSE, TRUE, TRUE), tool_intent |-> Layer(TRUE, FALSE, TRUE)],
     routed |-> {}, firm |-> FALSE, onward |-> FALSE]
CheckingPolicy ==
    [denied |-> {}, probes |-> FALSE, strict |-> TRUE,
     layer |-> [llm_risk |-> Layer(TRUE, FALSE, TRUE), tool_intent |-> Layer(TRUE, TRUE, TRUE)],
     routed |-> {c2}, firm |-> FALSE, onward |-> FALSE]

SomeProxyPolicies == {GuardedPolicy, LaxPolicy, CheckingPolicy}
SomeUsageLimits == [mcp_calls |-> 1, llm_risk |-> 1, tool_intent |-> 0]

allVars == <<part, gateVars, callsVars, transportVars, pipelineVars>>

ServicesInit ==
    /\ part \in {"gate", "calls", "transport", "pipeline"}
    /\ GateInit
    /\ CallsInit
    /\ TransportInit
    /\ PipelineInit
    /\ part # "pipeline" => policy = LaxPolicy
    /\ part # "transport" => backend = "memory"

\* The other parts stay as they are
Only(p) ==
    /\ IF p = "gate" THEN TRUE ELSE UNCHANGED gateVars
    /\ IF p = "calls" THEN TRUE ELSE UNCHANGED callsVars
    /\ IF p = "transport" THEN TRUE ELSE UNCHANGED transportVars
    /\ IF p = "pipeline" THEN TRUE ELSE UNCHANGED pipelineVars

ServicesNext ==
    /\ UNCHANGED part
    /\ \/ part = "gate" /\ GateNext /\ Only("gate")
       \/ part = "calls" /\ CallsNext /\ Only("calls")
       \/ part = "transport" /\ TransportNext /\ Only("transport")
       \/ part = "pipeline" /\ PipelineNext /\ Only("pipeline")

ServicesSpec == ServicesInit /\ [][ServicesNext]_allVars /\ GateFairness /\ CallsFairness
                    /\ TransportFairness /\ PipelineFairness
=============================================================================
