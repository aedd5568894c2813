-------------------------- MODULE ResponsePlaybook --------------------------
(*****************************************************************************)
(* The response playbooks of Phase 4 (phase4/orchestration/playbooks.py) and *)
(* the tool calls they make (MCPToolClient, phase4/server.py): a step that   *)
(* is a tool is asked of one endpoint after another.                         *)
(*                                                                           *)
(* The engine runs on the event loop and a call blocks it, so two executions *)
(* meet only where one of them waits.  All executions share one database     *)
(* session, which nobody rolls back.                                         *)
(*****************************************************************************)
EXTENDS Naturals, Sequences, FiniteSets

CONSTANTS
    Executions,   \* POST /playbooks/{name}/execute
    EndpointCount \* MCP_BASE_URLS: the proxy's addresses, then the server's

ASSUME ResponseAssumption == EndpointCount \in Nat \ {0}

VARIABLES
    exec,     \* execution -> where it is
    results,  \* execution -> what became of its steps, in order
    carried,  \* execution -> endpoints that carried out the last tool it called
    didAnswer, \* execution -> endpoints that answered to that call
    holder,   \* the execution that holds the event loop, or Nobody
    session   \* of the engine: "ok", or "broken" after a failed flush

responseVars == <<exec, results, carried, didAnswer, holder, session>>

PlanStep(action, onFailure) == [action |-> action, onFailure |-> onFailure]
Ransomware ==
    <<PlanStep("tool", "abort"), PlanStep("tool", "continue"), PlanStep("tool", "continue"),
      PlanStep("wait", "abort"), PlanStep("tool", "retry"), PlanStep("notify", "abort"),
      PlanStep("create_incident", "abort")>>
BruteForce ==
    <<PlanStep("tool", "abort"), PlanStep("notify", "abort"), PlanStep("notify", "abort"),
      PlanStep("create_incident", "abort")>>
Plans == {Ransomware, BruteForce}

Nobody == "nobody"
MaxSteps == Len(Ransomware)
Endpoints == 1 .. EndpointCount
NoPlan == << >>
Waiting == [pc |-> "new", plan |-> NoPlan, step |-> 0, endpoint |-> 0, status |-> "pending"]

ResponseInit ==
    /\ exec = [e \in Executions |-> Waiting]
    /\ results = [e \in Executions |-> << >>]
    /\ carried = [e \in Executions |-> {}]
    /\ didAnswer = [e \in Executions |-> {}]
    /\ holder = Nobody /\ session = "ok"

Current(e) == exec[e].plan[exec[e].step]
Free(e) == holder \in {e, Nobody}

Execute(e, plan) ==
    /\ exec[e].pc = "new" /\ Free(e)
    /\ exec' = [exec EXCEPT ![e] = [pc |-> "step", plan |-> plan, step |-> 1, endpoint |-> 1,
                                    status |-> "running"]]
    /\ holder' = e
    /\ UNCHANGED <<results, carried, didAnswer, session>>

\* Mutant of Aborts: none does
AbortsNever(e) == FALSE
\* Steps to be tried again are not: retry_count is never read
Aborts(e) == Current(e).onFailure = "abort"

\* Mutant of Final: any failed step fails the playbook
FinalIfAllWell(e, how, aborted) ==
    IF how = "failed" \/ \E s \in DOMAIN results[e] : results[e][s] = "failed"
    THEN "failed" ELSE "success"
Final(e, how, aborted) == IF aborted THEN "failed" ELSE "success"

\* The step ends, and with it perhaps the playbook
Ended(e, how) ==
    LET aborted == how = "failed" /\ Aborts(e)
        last == aborted \/ exec[e].step = Len(exec[e].plan)
    IN /\ results' = [results EXCEPT ![e] = Append(@, how)]
       /\ exec' = [exec EXCEPT ![e] =
                     IF last
                     THEN [exec[e] EXCEPT !.pc = "over", !.status = Final(e, how, aborted)]
                     ELSE [exec[e] EXCEPT !.pc = "step", !.step = @ + 1, !.endpoint = 1]]
       /\ holder' = IF last THEN Nobody ELSE e

At(e, action) == exec[e].pc = "step" /\ holder = e /\ Current(e).action = action

(* A tool: execute_tool *)

\* The record of a step begins anew with its first endpoint
SoFar(e, endpoints) == IF exec[e].endpoint = 1 THEN {} ELSE endpoints[e]
Mark(e, endpoints, yes) == SoFar(e, endpoints) \union (IF yes THEN {exec[e].endpoint} ELSE {})
CallTool(e, does, answers) ==
    /\ carried' = [carried EXCEPT ![e] = Mark(e, carried, does)]
    /\ didAnswer' = [didAnswer EXCEPT ![e] = Mark(e, didAnswer, answers)]

\* Mutant of MovesOn: what is lost is asked of the next endpoint
MovesOnFromLoss(answer) == answer # "result"
\* An address that refuses the connection, an HTTP error and a result marked
\* isError move on; a lost answer does not
MovesOn(answer) == answer \in {"refused", "http_error", "tool_error"}

\* Mutant of HasNext: one more than there are
HasOneMore(e) == exec[e].endpoint <= EndpointCount
HasNext(e) == exec[e].endpoint < EndpointCount

TryNext(e) ==
    IF HasNext(e)
    THEN /\ exec' = [exec EXCEPT ![e].endpoint = @ + 1]
         /\ UNCHANGED <<results, holder>>
    ELSE Ended(e, "failed")

\* A tool that answered with an error may have been carried out all the same
CallFails(e, answer, does) ==
    /\ At(e, "tool")
    /\ answer \in {"refused", "http_error", "tool_error", "lost"}
    /\ answer = "refused" => ~does
    /\ CallTool(e, does, answer \in {"http_error", "tool_error"})
    /\ IF MovesOn(answer) THEN TryNext(e) ELSE Ended(e, "failed")
    /\ UNCHANGED session

\* A JSON-RPC error comes with status 200 and no result: it counts as one
CallReturns(e, does) ==
    /\ At(e, "tool")
    /\ CallTool(e, does, TRUE)
    /\ Ended(e, "completed")
    /\ UNCHANGED session

(* The other steps *)

\* notify and manual_review only log
Log(e) ==
    /\ At(e, "notify")
    /\ Ended(e, "completed")
    /\ UNCHANGED <<carried, didAnswer, session>>

StartWait(e) ==
    /\ At(e, "wait")
    /\ exec' = [exec EXCEPT ![e].pc = "sleep"]
    /\ holder' = Nobody
    /\ UNCHANGED <<results, carried, didAnswer, session>>

EndWait(e) ==
    /\ exec[e].pc = "sleep" /\ Free(e)
    /\ Ended(e, "completed")
    /\ UNCHANGED <<carried, didAnswer, session>>

\* The id may be taken by a request of another thread
AfterFlush(taken) == IF taken THEN "broken" ELSE session

\* Mutant of Created: a broken session creates
CreatedUnlessTaken(taken) == ~taken
Created(taken) == session = "ok" /\ ~taken

CreateIncident(e, taken) ==
    /\ At(e, "create_incident")
    /\ Ended(e, IF Created(taken) THEN "completed" ELSE "failed")
    /\ session' = AfterFlush(taken)
    /\ UNCHANGED <<carried, didAnswer>>

ResponseStep(e) ==
    \/ \E plan \in Plans : Execute(e, plan)
    \/ \E answer \in {"refused", "http_error", "tool_error", "lost"}, does \in BOOLEAN :
           CallFails(e, answer, does)
    \/ \E does \in BOOLEAN : CallReturns(e, does)
    \/ Log(e) \/ StartWait(e) \/ EndWait(e)
    \/ \E taken \in BOOLEAN : CreateIncident(e, taken)

ResponseNext == \E e \in Executions : ResponseStep(e)
ResponseSpec == ResponseInit /\ [][ResponseNext]_responseVars

-----------------------------------------------------------------------------
(* Properties *)

\* Types of the executions.
ResponseTypeOK ==
    /\ exec \in [Executions -> [pc : {"new", "step", "sleep", "over"},
                                plan : Plans \union {NoPlan},
                                step : 0 .. MaxSteps, endpoint : 0 .. EndpointCount,
                                status : {"pending", "running", "success", "failed"}]]
    /\ \A e \in Executions : results[e] \in Seq({"completed", "failed"})
    /\ carried \in [Executions -> SUBSET Endpoints]
    /\ didAnswer \in [Executions -> SUBSET Endpoints]
    /\ holder \in Executions \union {Nobody} /\ session \in {"ok", "broken"}

\* A tool is carried out again only where an endpoint that had carried it out
\* answered with an error: an answer that is lost never repeats a response.
RepeatsFollowAnAnswer ==
    \A e \in Executions : \A p, q \in carried[e] : p < q => p \in didAnswer[e]

\* Nothing follows a failed step whose failure aborts: where the isolation of a
\* host failed, no later step is carried out on it.
NothingFollowsAnAbort ==
    \A e \in Executions : \A s \in DOMAIN results[e] :
        results[e][s] = "failed" /\ exec[e].plan[s].onFailure = "abort" =>
            s = Len(results[e]) /\ exec[e].pc = "over"

\* A playbook is reported failed exactly when one of its steps aborted it; the
\* failures it was told to go on after do not show in the status.
StatusTellsAbort ==
    \A e \in Executions : exec[e].pc = "over" =>
        (exec[e].status = "failed" <=>
            \E s \in DOMAIN results[e] :
                results[e][s] = "failed" /\ exec[e].plan[s].onFailure = "abort")

\* Once a playbook lost the race for an incident id no playbook creates an
\* incident again: each of them that gets so far fails.
BrokenSessionCreatesNothing ==
    [][session = "broken" =>
          /\ session' = "broken"
          /\ \A e \in Executions : At(e, "create_incident") /\ results'[e] # results[e] =>
                 results'[e][exec[e].step] = "failed"]_responseVars

\* A response is repeated only on an error that came back, stops where it must,
\* says so, and creates nothing through a broken session.
ResponseHolds ==
    /\ [](ResponseTypeOK /\ RepeatsFollowAnAnswer /\ NothingFollowsAnAbort /\ StatusTellsAbort)
    /\ BrokenSessionCreatesNothing
=============================================================================
