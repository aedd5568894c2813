---------------------------- MODULE MCApprovals -----------------------------
(*****************************************************************************)
(* The approval gate of the two services, the calls of the security proxy    *)
(* and the sessions of the MCP server, which share no state, side by side: a *)
(* behaviour picks one and stays with it.                                    *)
(*****************************************************************************)
EXTENDS HumanGate, ProxyPipeline, McpTransport, TLC

CONSTANTS r1, r2, h1, h2, i1, g1, a1, a2, c1, c2

VARIABLE part

\* Every run pauses on the same incident, needing one or two approvals
Body(tier) ==
  [incident |-> i1, tier |-> tier, autoApprove |-> FALSE, forceVerifyFail |-> FALSE,
   proxyDenied |-> TRUE, target |-> g1, parallel |-> {}]

PausingBodies == {Body("medium"), Body("high")}

GateSymmetry == Permutations(Runs) \cup Permutations(Resumes)
                  \cup Permutations(Rows)

(* ProxyPipeline: a policy that enforces risk scoring and the isolated        *)
(* executor, one that denies a call and watches, and one that enforces intent *)
Layer(l, e, f) ==
    [licensed |-> l, enabled |-> e, enforce |-> f]

GuardedPolicy ==
    [denied |-> {}, probes |-> TRUE, strict |-> TRUE,
     layer |-> [llm_risk |-> Layer(TRUE, TRUE, TRUE), tool_intent |-> Layer(TRUE, TRUE, FALSE)],
     routed |-> {c1}, firm |-> TRUE, onward |-> TRUE]
LaxPolicy ==
    [denied |-> {c2}, probes |-> FALSE, strict |-> FALSE,
     layer |-> [llm_risk |-> Layer(FALSE, TRUE, TRUE), tool_intent |-> Layer(TRUE, FALSE, TRUE)],
     routed |-> {}, firm |-> FALSE, onward |-> FALSE]
CheckingPolicy ==
    [denied |-> {}, probes |-> FALSE, strict |-> TRUE,
     layer |-> [llm_risk |-> Layer(TRUE, FALSE, TRUE), tool_intent |-> Layer(TRUE, TRUE, TRUE)],
     routed |-> {c2}, firm |-> FALSE, onward |-> FALSE]

SomeProxyPolicies == {GuardedPolicy, LaxPolicy, CheckingPolicy}
SomeUsageLimits == [mcp_calls |-> 1, llm_risk |-> 1, tool_intent |-> 0]

allVars == <<part, gateVars, pipelineVars, transportVars>>

ServicesInit ==
    /\ part \in {"gate", "pipeline", "transport"}
    /\ GateInit
    /\ PipelineInit
    /\ TransportInit
    /\ part # "pipeline" => policy = LaxPolicy
    /\ part # "transport" => backend = "memory"

\* The other parts stay as they are
Only(p) ==
    /\ IF p = "gate" THEN TRUE ELSE UNCHANGED gateVars
    /\ IF p = "pipeline" THEN TRUE ELSE UNCHANGED pipelineVars
    /\ IF p = "transport" THEN TRUE ELSE UNCHANGED transportVars

\* A behaviour replaces the policy or fails to read the usage file, not both
OneDisturbance == reloads' = 0 \/ unreadable' = 0

ServicesNext ==
    /\ UNCHANGED part
    /\ \/ part = "gate" /\ GateNext /\ Only("gate")
       \/ part = "pipeline" /\ PipelineNext /\ OneDisturbance /\ Only("pipeline")
       \/ part = "transport" /\ TransportNext /\ Only("transport")

ServicesSpec == ServicesInit /\ [][ServicesNext]_allVars
=============================================================================
