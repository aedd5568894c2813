--------------------------- MODULE Phase3Workflow ---------------------------
(***************************************************************************)
(* The Phase 3 guarded-write workflow (services/phase3_langgraph/app/      *)
(* main.py): POST /phase3/run walks the graph triage -> enrich -> propose  *)
(* -> approval -> (pending | execute -> verify -> (rollback)) -> handoff,  *)
(* and POST /phase3/approvals/{incident_id}/resume continues a paused run. *)
(*                                                                         *)
(* Every HTTP request is a coroutine of one asyncio process; a Run and a   *)
(* Resume are both threads here.  Nodes without an await are one step.     *)
(* The write tools go over the network to the MCP server, which dispatches *)
(* an active response on the target: a request may be served late, its     *)
(* answer may be lost, and tenacity retries it.                            *)
(***************************************************************************)
EXTENDS Naturals, FiniteSets

CONSTANTS
  Runs,         \* POST /phase3/run requests
  Resumes,      \* POST /phase3/approvals/{incident_id}/resume requests
  Incidents,    \* incident_id values
  Targets,      \* what an action contains: a source IP, a host, a file
  Requests,     \* the request bodies the runs may carry
  MaxAttempts,  \* stop_after_attempt(3) of _mcp_call
  MaxRestarts,  \* bound: process restarts explored
  UndoAll,      \* does one rollback remove every duplicate of the rule?
  NoState       \* absence of a workflow state

Threads == Runs \cup Resumes
Tiers == {"low", "medium", "high", "critical"}
Kinds == {"act", "undo"}

RequestType ==
  [incident : Incidents, tier : Tiers, autoApprove : BOOLEAN,
   forceVerifyFail : BOOLEAN, proxyDenied : BOOLEAN,
   target : Targets, parallel : SUBSET Targets]

Outcomes == {"none", "passed", "failed"}
Decisions == {"none", "pending", "approved", "rejected"}
Statuses == {"running", "pending_approval", "completed_with_rollback",
             "completed_rejected", "completed_action_failed",
             "completed_actioned", "completed_read_only"}

WorkflowState ==
  [run : Runs, req : Requests, decision : Decisions, execution : Outcomes,
   verify : Outcomes, confirmed : BOOLEAN, rollback : Outcomes,
   status : Statuses]

PCs == {"idle", "triage", "enrich", "propose", "approval", "pending",
        "notify", "execute", "executing", "verify", "rollback", "undoing",
        "handoff", "done", "paused", "notFound", "error", "crashed"}
Ended == {"done", "paused", "notFound", "error", "crashed"}

CallState == [n : 0..MaxAttempts, res : {"idle", "waiting", "ok", "error"}]
Message == [thread : Threads, kind : Kinds, target : Targets,
            n : 1..MaxAttempts]

ASSUME Phase3Assumption ==
  /\ Requests \subseteq RequestType
  /\ Runs \cap Resumes = {}
  /\ MaxAttempts \in Nat \ {0}
  /\ MaxRestarts \in Nat
  /\ UndoAll \in BOOLEAN
  /\ NoState \notin WorkflowState

VARIABLES
  pc,        \* where each coroutine is in the graph
  wf,        \* the workflow state dict each coroutine carries
  pending,   \* PENDING_APPROVALS, by incident_id
  call,      \* the _mcp_call attempts of each coroutine's write tools
  inflight,  \* write requests on the wire or still being served
  rules,     \* active-response rules in force on each target
  restarts   \* process restarts so far

vars == <<pc, wf, pending, call, inflight, rules, restarts>>
netVars == <<call, inflight, rules>>

NewState(r, req) ==
  [run |-> r, req |-> req, decision |-> "none", execution |-> "none",
   verify |-> "none", confirmed |-> FALSE, rollback |-> "none",
   status |-> "running"]

NoCall == [n |-> 0, res |-> "idle"]

Init ==
  /\ pc = [t \in Threads |-> "idle"]
  /\ wf = [t \in Threads |-> NoState]
  /\ pending = [i \in Incidents |-> NoState]
  /\ call = [t \in Threads |-> [k \in Kinds |-> [g \in Targets |-> NoCall]]]
  /\ inflight = {}
  /\ rules = [g \in Targets |-> 0]
  /\ restarts = 0

Goto(t, label) == pc' = [pc EXCEPT ![t] = label]

-----------------------------------------------------------------------------
(* The read-only part of the graph and the approval gate.                  *)

StartRun(r) ==
  /\ pc[r] = "idle"
  /\ \E req \in Requests : wf' = [wf EXCEPT ![r] = NewState(r, req)]
  /\ Goto(r, "triage")
  /\ UNCHANGED <<pending, netVars, restarts>>

\* A read call that fails after its retries raises out of the graph.
Triage(r) ==
  /\ pc[r] = "triage"
  /\ \/ Goto(r, "enrich")
     \/ ~wf[r].req.proxyDenied /\ Goto(r, "error")
  /\ UNCHANGED <<wf, pending, netVars, restarts>>

RouteByRisk(req) == IF req.tier = "low" THEN "handoff" ELSE "propose"

Enrich(r) ==
  /\ pc[r] = "enrich"
  /\ ~wf[r].req.proxyDenied
  /\ \/ Goto(r, RouteByRisk(wf[r].req))
     \/ Goto(r, "error")
  /\ UNCHANGED <<wf, pending, netVars, restarts>>

ProxyEnrich(r) ==
  /\ pc[r] = "enrich"
  /\ wf[r].req.proxyDenied
  /\ Goto(r, RouteByRisk(wf[r].req))
  /\ UNCHANGED <<wf, pending, netVars, restarts>>

RequiredBelowHigh(req) == req.tier = "medium"
ApprovalRequired(req) == req.tier \in {"medium", "high", "critical"}
ApprovalsNeeded(req) == IF req.tier \in {"high", "critical"} THEN 2 ELSE 1

ProposeAction(r) ==
  /\ pc[r] = "propose"
  /\ Goto(r, "approval")
  /\ UNCHANGED <<wf, pending, netVars, restarts>>

\* approval_decision of the request is overwritten: a run that needs a
\* decision always pauses, unless it asked for auto_approve.
GateDecision(req) ==
  IF ApprovalRequired(req) /\ ~req.autoApprove THEN "pending" ELSE "approved"

RouteUnlessPending(decision) ==
  IF decision = "pending" THEN "pending" ELSE "execute"

RouteAfterApproval(decision) ==
  CASE decision = "pending" -> "pending"
    [] decision = "approved" -> "execute"
    [] OTHER -> "handoff"

ApprovalGate(r) ==
  /\ pc[r] = "approval"
  /\ LET d == GateDecision(wf[r].req)
     IN  /\ wf' = [wf EXCEPT
                    ![r].decision = d,
                    ![r].status = IF d = "pending" THEN "pending_approval" ELSE @]
         /\ Goto(r, RouteAfterApproval(d))
  /\ UNCHANGED <<pending, netVars, restarts>>

\* The store is keyed by incident_id and overwrites what it held.
StorePending(r) ==
  /\ pc[r] = "pending"
  /\ pending' = [pending EXCEPT ![wf[r].req.incident] = wf[r]]
  /\ Goto(r, "notify")
  /\ UNCHANGED <<wf, netVars, restarts>>

\* POST {PHASE4_API_URL}/approvals, whatever becomes of it.
Notify(r) ==
  /\ pc[r] = "notify"
  /\ Goto(r, "paused")
  /\ UNCHANGED <<wf, pending, netVars, restarts>>

-----------------------------------------------------------------------------
(* Resuming a paused run: pop under the lock, then the rest of the graph.  *)

PeekPending(i) == UNCHANGED pending
PopPending(i) == pending' = [pending EXCEPT ![i] = NoState]

ResumeFound(h, i, decision) ==
  /\ pc[h] = "idle"
  /\ pending[i] # NoState
  /\ wf' = [wf EXCEPT ![h] = [pending[i] EXCEPT !.decision = decision]]
  /\ PopPending(i)
  /\ Goto(h, RouteAfterApproval(decision))
  /\ UNCHANGED <<netVars, restarts>>

ResumeMissing(h, i) ==
  /\ pc[h] = "idle"
  /\ pending[i] = NoState
  /\ Goto(h, "notFound")
  /\ UNCHANGED <<wf, pending, netVars, restarts>>

Resume(h) ==
  \E i \in Incidents :
    \/ \E d \in {"approved", "rejected"} : ResumeFound(h, i, d)
    \/ ResumeMissing(h, i)

-----------------------------------------------------------------------------
(* _mcp_call for the write tools: up to MaxAttempts posts, the next one    *)
(* when the last failed or timed out after 120 s.  The back-off between    *)
(* two posts is not a state of its own: a post may be served at any later  *)
(* time anyway.                                                            *)

Post(t, k, g, n) == [thread |-> t, kind |-> k, target |-> g, n |-> n]
Waiting(n) == [n |-> n, res |-> "waiting"]

PlannedTargets(s) == IF s.req.parallel = {} THEN {s.req.target} ELSE s.req.parallel

BeginCalls(t, k, S) ==
  /\ call' = [call EXCEPT ![t][k] =
                [g \in Targets |-> IF g \in S THEN Waiting(1) ELSE NoCall]]
  /\ inflight' = inflight \cup {Post(t, k, g, 1) : g \in S}

Active(t) == pc[t] \in {"executing", "undoing"}
Awaited(m) ==
  Active(m.thread) /\ call[m.thread][m.kind][m.target] = Waiting(m.n)

OneMoreLeft(n) == n <= MaxAttempts
AttemptsLeft(n) == n < MaxAttempts

\* The attempt m has failed: post again, or raise RetryError.
RetryOrRaise(m, served) ==
  IF AttemptsLeft(m.n)
  THEN /\ call' = [call EXCEPT ![m.thread][m.kind][m.target] = Waiting(m.n + 1)]
       /\ inflight' = (inflight \ served)
                        \cup {Post(m.thread, m.kind, m.target, m.n + 1)}
  ELSE /\ call' = [call EXCEPT ![m.thread][m.kind][m.target].res = "error"]
       /\ inflight' = inflight \ served

\* What the agent does with an active response: one more rule, or one rule
\* less (all of them where the undo command removes every match).
Effect(m) ==
  rules' = [rules EXCEPT ![m.target] =
              IF m.kind = "act" THEN @ + 1
              ELSE IF UndoAll \/ @ = 0 THEN 0 ELSE @ - 1]

Reply(m, answer) ==
  CASE answer = "ok" /\ Awaited(m) ->
         /\ call' = [call EXCEPT ![m.thread][m.kind][m.target].res = "ok"]
         /\ inflight' = inflight \ {m}
    [] answer = "error" /\ Awaited(m) -> RetryOrRaise(m, {m})
    [] OTHER -> inflight' = inflight \ {m} /\ UNCHANGED call

\* The manager accepts a command the agent may silently not carry out, and
\* an error may be reported after the command was dispatched.
Serve(m) ==
  /\ m \in inflight
  /\ \/ Effect(m)
     \/ UNCHANGED rules
  /\ \E answer \in {"ok", "error", "lost"} : Reply(m, answer)
  /\ UNCHANGED <<pc, wf, pending, restarts>>

Timeout(m) ==
  /\ Awaited(m)
  /\ RetryOrRaise(m, {})
  /\ UNCHANGED <<pc, wf, pending, rules, restarts>>

AnsweredOk(t, k) == \A g \in Targets : call[t][k][g].res \in {"idle", "ok"}
Answered(t, k) == \A g \in Targets : call[t][k][g].res # "waiting"
AllPassed(t, k, S) == \A g \in S : call[t][k][g].res = "ok"
Outcome(passed) == IF passed THEN "passed" ELSE "failed"

-----------------------------------------------------------------------------
(* execute, verify, rollback, handoff                                      *)

StartExecute(t) ==
  /\ pc[t] = "execute"
  /\ BeginCalls(t, "act", PlannedTargets(wf[t]))
  /\ Goto(t, "executing")
  /\ UNCHANGED <<wf, pending, rules, restarts>>

RollbackAfterFailure(execution) == IF execution = "failed" THEN "rollback" ELSE "verify"
RouteAfterExecute(execution) == IF execution = "failed" THEN "handoff" ELSE "verify"

\* gather(..., return_exceptions=True): wait for all, one failure fails all.
FinishExecute(t) ==
  /\ pc[t] = "executing"
  /\ Answered(t, "act")
  /\ LET e == Outcome(AllPassed(t, "act", PlannedTargets(wf[t])))
     IN  wf' = [wf EXCEPT ![t].execution = e] /\ Goto(t, RouteAfterExecute(e))
  /\ UNCHANGED <<pending, netVars, restarts>>

RouteAfterVerify(verify) == IF verify = "failed" THEN "rollback" ELSE "handoff"

\* verify_action passes when the tool answers; `confirmed' is the blocked /
\* isolated / quarantined field of that answer, which the node never reads.
VerifyAction(t) ==
  /\ pc[t] = "verify"
  /\ \E v \in {"passed", "failed"}, seen \in BOOLEAN :
       /\ wf[t].req.forceVerifyFail => v = "failed"
       /\ v = "failed" => ~seen
       /\ wf' = [wf EXCEPT ![t].verify = v, ![t].confirmed = seen]
       /\ Goto(t, RouteAfterVerify(v))
  /\ UNCHANGED <<pending, netVars, restarts>>

\* Only the primary action is undone, never the parallel ones.
StartRollback(t) ==
  /\ pc[t] = "rollback"
  /\ BeginCalls(t, "undo", {wf[t].req.target})
  /\ Goto(t, "undoing")
  /\ UNCHANGED <<wf, pending, rules, restarts>>

FinishRollback(t) ==
  /\ pc[t] = "undoing"
  /\ Answered(t, "undo")
  /\ wf' = [wf EXCEPT
             ![t].rollback = Outcome(AllPassed(t, "undo", {wf[t].req.target}))]
  /\ Goto(t, "handoff")
  /\ UNCHANGED <<pending, netVars, restarts>>

ActionedIfExecuted(s) ==
  IF s.rollback # "none" THEN "completed_with_rollback"
  ELSE IF s.decision = "rejected" THEN "completed_rejected"
  ELSE IF s.execution # "none" THEN "completed_actioned" ELSE "completed_read_only"

FinalStatus(s) ==
  CASE s.rollback # "none" -> "completed_with_rollback"
    [] s.rollback = "none" /\ s.decision = "rejected" -> "completed_rejected"
    [] s.rollback = "none" /\ s.decision # "rejected"
         /\ s.execution = "failed" -> "completed_action_failed"
    [] s.rollback = "none" /\ s.decision # "rejected"
         /\ s.execution = "passed" -> "completed_actioned"
    [] OTHER -> "completed_read_only"

\* The report tool is an MCP call too: when it fails the request fails, with
\* the state already popped and the action already taken.
Handoff(t) ==
  /\ pc[t] = "handoff"
  /\ \/ /\ wf' = [wf EXCEPT ![t].status = FinalStatus(wf[t])]
        /\ Goto(t, "done")
     \/ /\ Goto(t, "error")
        /\ UNCHANGED wf
  /\ UNCHANGED <<pending, netVars, restarts>>

-----------------------------------------------------------------------------
\* PENDING_APPROVALS and the coroutines live in the process's memory; posts
\* already received are still served by the MCP server.
Restart ==
  /\ restarts < MaxRestarts
  /\ restarts' = restarts + 1
  /\ pending' = [i \in Incidents |-> NoState]
  /\ pc' = [t \in Threads |->
              IF pc[t] \in Ended \cup {"idle"} THEN pc[t] ELSE "crashed"]
  /\ UNCHANGED <<wf, netVars>>

RunStep(r) ==
  \/ StartRun(r) \/ Triage(r) \/ Enrich(r) \/ ProxyEnrich(r)
  \/ ProposeAction(r) \/ ApprovalGate(r) \/ StorePending(r) \/ Notify(r)

WriteStep(t) ==
  \/ StartExecute(t) \/ FinishExecute(t) \/ VerifyAction(t)
  \/ StartRollback(t) \/ FinishRollback(t) \/ Handoff(t)

Next ==
  \/ \E r \in Runs : RunStep(r)
  \/ \E h \in Resumes : Resume(h)
  \/ \E t \in Threads : WriteStep(t)
  \/ \E m \in inflight : Serve(m)
  \/ \E m \in Message : Timeout(m)
  \/ Restart

Spec == Init /\ [][Next]_vars

\* asyncio runs every ready coroutine and httpx times every post out; nothing
\* obliges an analyst to resume, or the MCP server to answer.
Fairness ==
  /\ \A r \in Runs : WF_vars(RunStep(r) /\ pc[r] # "idle")
  /\ \A t \in Threads : WF_vars(WriteStep(t))
  /\ \A m \in Message : WF_vars(Timeout(m))

FairSpec == Spec /\ Fairness

-----------------------------------------------------------------------------
(* Properties.                                                             *)

Carries(t, r) == wf[t] # NoState /\ wf[t].run = r
Sent(t, k, g) == call[t][k][g].n > 0
Wrote(t) == \E g \in Targets : Sent(t, "act", g)

\* The values every variable ranges over.
TypeOK ==
  /\ pc \in [Threads -> PCs]
  /\ wf \in [Threads -> WorkflowState \cup {NoState}]
  /\ pending \in [Incidents -> WorkflowState \cup {NoState}]
  /\ call \in [Threads -> [Kinds -> [Targets -> CallState]]]
  /\ inflight \subseteq Message
  /\ rules \in [Targets -> Nat]
  /\ restarts \in 0..MaxRestarts

\* A write tool is called only for a run that is not read-only and either
\* asked for auto_approve or was resumed with "approved" (OVERVIEW.md, "write
\* tools run only after the approval gate").
WritesAreApproved ==
  \A t \in Threads : Wrote(t) =>
    /\ wf[t] # NoState
    /\ wf[t].req.tier # "low"
    /\ wf[t].decision = "approved"
    /\ t \in Runs => wf[t].req.autoApprove

\* However many requests race to resume it, and however often its incident
\* is run again, one coroutine at most executes a run.
SingleExecutor ==
  \A t, u \in Threads : \A r \in Runs :
    Wrote(t) /\ Wrote(u) /\ Carries(t, r) /\ Carries(u, r) => t = u

\* The decision on a pause is taken once: a run is not both approved by one
\* analyst and rejected by another.
OneDecisionPerPause ==
  \A h, k \in Resumes : \A r \in Runs :
    Carries(h, r) /\ Carries(k, r) => h = k

\* The status reported for a run agrees with what was sent for it: nothing
\* for a rejected or read-only run by any coroutine, every planned call
\* answered for an actioned one.
StatusTellsWhatRan ==
  \A t \in Threads : pc[t] = "done" =>
    /\ wf[t].status \in {"completed_rejected", "completed_read_only"} =>
         \A u \in Threads : Carries(u, wf[t].run) => ~Wrote(u)
    /\ wf[t].status = "completed_actioned" =>
         /\ AllPassed(t, "act", PlannedTargets(wf[t]))
         /\ \A g \in Targets : ~Sent(t, "undo", g)

\* A rollback is sent only when every call of the action was answered and
\* its verification failed, and only for the primary target.
UndoAfterFailedVerify ==
  \A t \in Threads, g \in Targets : Sent(t, "undo", g) =>
    /\ AllPassed(t, "act", PlannedTargets(wf[t]))
    /\ wf[t].verify = "failed"
    /\ g = wf[t].req.target

\* A target is contained only if an approved run named it, however late its
\* requests are served and whatever restarts in between.
OnlyNamedTargetsContained ==
  \A g \in Targets : rules[g] > 0 =>
    \E t \in Threads :
      /\ wf[t] # NoState
      /\ wf[t].decision = "approved"
      /\ g \in PlannedTargets(wf[t])

\* Every request that was started is eventually answered, whatever the MCP
\* server does with the posts.
EveryRequestEnds ==
  \A t \in Threads : pc[t] # "idle" ~> pc[t] \in Ended

\* The abstract gate of a run.
Held(r) == \E i \in Incidents : pending[i] # NoState /\ pending[i].run = r
Released(r) == \E t \in Threads : Carries(t, r) /\ wf[t].decision = "approved"
GivenUp(r) ==
  \/ pc[r] = "crashed"
  \/ Carries(r, r) /\ wf[r].decision = "pending" /\ pc[r] # "pending"

GateOf(r) ==
  IF Released(r) THEN "open"
  ELSE IF Held(r) THEN "waiting"
  ELSE IF GivenUp(r) THEN "shut" ELSE "closed"

Guarded == INSTANCE GuardedWrite WITH
  Executors <- Threads,
  gate <- [r \in Runs |-> GateOf(r)],
  executors <- [r \in Runs |-> {t \in Threads : Carries(t, r) /\ Wrote(t)}]

\* The workflow implements the guarded write.
ImplementsGuardedWrite == Guarded!GuardedWriteSpec

(* A run is decided once and executed once, whoever resumes it.            *)
RunsAreDecidedOnce == SingleExecutor /\ OneDecisionPerPause

(* What is undone failed its verification, and what is contained was named *)
(* by a run that was approved.                                             *)
RollbacksAreEarned == UndoAfterFailedVerify /\ OnlyNamedTargetsContained

-----------------------------------------------------------------------------
(* What the documents and comments say, and the code does not do.          *)

Finished(t, status) == pc[t] = "done" /\ wf[t].status = status

\* "retrying a PUT that already executed could double-isolate an agent or
\* double-block an IP" (wazuh_client.py): a target holds one rule per
\* executed action.  _mcp_call retries the tool around that client.
ActiveResponseNotRepeated ==
  \A g \in Targets : rules[g] <= Cardinality({t \in Threads : Sent(t, "act", g)})

\* "quarantined=false -> node_rollback_action" (LANGGRAPH_PHASE3_GUIDE.md): a
\* verification that answers "not in effect" does not end as actioned.
UnconfirmedActionIsRolledBack ==
  \A t \in Threads : Finished(t, "completed_actioned") => wf[t].confirmed
=============================================================================
