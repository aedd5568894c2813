----------------------------- MODULE MCMcpServer -----------------------------
(******************************************************************************)
(* Parts of the Wazuh MCP server, which share no state, side by side: its     *)
(* Wazuh client, rate limiter, traffic log and JSON-RPC.  A behaviour picks   *)
(* one and stays with it.                                                     *)
(******************************************************************************)
EXTENDS WazuhClient, RateLimiter, TrafficLog, JsonRpc

CONSTANTS r1, r2, w1

VARIABLE part

allVars == <<part, vars, limiterVars, trafficVars, rpcVars>>

ServerInit ==
    /\ part \in {"client", "limiter", "traffic", "rpc"}
    /\ Init
    /\ LimiterInit
    /\ TrafficInit
    /\ RpcInit
    /\ part # "rpc" => path = "/" /\ isBatch

\* The other parts stay as they are
Only(p) ==
    /\ IF p = "client" THEN TRUE ELSE UNCHANGED vars
    /\ IF p = "limiter" THEN TRUE ELSE UNCHANGED limiterVars
    /\ IF p = "traffic" THEN TRUE ELSE UNCHANGED trafficVars
    /\ IF p = "rpc" THEN TRUE ELSE UNCHANGED rpcVars

ServerNext ==
    /\ UNCHANGED part
    /\ \/ part = "client" /\ Next /\ Only("client")
       \/ part = "limiter" /\ LimiterNext /\ Only("limiter")
       \/ part = "traffic" /\ TrafficNext /\ Only("traffic")
       \/ part = "rpc" /\ RpcNext /\ Only("rpc")

ServerSpec ==
    /\ ServerInit /\ [][ServerNext]_allVars
    /\ \A c \in Calls : WF_vars(Step(c))
=============================================================================
