------------------------ MODULE Phase3WorkflowProofs ------------------------
(***************************************************************************)
(* Proofs about the Phase 3 guarded-write workflow, for every set of runs, *)
(* resumes, incidents, targets and request bodies, and any number of       *)
(* attempts and restarts: what it keeps true, and that it implements the   *)
(* abstract guarded write (GuardedWrite).                                  *)
(***************************************************************************)
EXTENDS Phase3Workflow, TLAPS

-----------------------------------------------------------------------------
(* Type correctness.                                                       *)

LEMMA RequestFields ==
  ASSUME NEW s \in WorkflowState
  PROVE  /\ s.run \in Runs
         /\ s.req \in Requests
         /\ s.req.incident \in Incidents
         /\ s.req.target \in Targets
         /\ PlannedTargets(s) \subseteq Targets
BY Phase3Assumption DEF WorkflowState, RequestType, PlannedTargets

\* Posting the first attempt of a set of calls keeps the network state typed.
LEMMA BeginCallsType ==
  ASSUME TypeOK, NEW t \in Threads, NEW k \in Kinds,
         NEW S \in SUBSET Targets, BeginCalls(t, k, S)
  PROVE  /\ call' \in [Threads -> [Kinds -> [Targets -> CallState]]]
         /\ inflight' \subseteq Message
<1>1. 1 \in 1..MaxAttempts /\ 1 \in 0..MaxAttempts /\ 0 \in 0..MaxAttempts
  BY Phase3Assumption
<1>2. [g \in Targets |-> IF g \in S THEN Waiting(1) ELSE NoCall]
        \in [Targets -> CallState]
  BY <1>1 DEF Waiting, NoCall, CallState
<1>3. call' \in [Threads -> [Kinds -> [Targets -> CallState]]]
  BY <1>2 DEF TypeOK, BeginCalls
<1>4. \A g \in S : Post(t, k, g, 1) \in Message
  BY <1>1 DEF Post, Message
<1>5. QED
  BY <1>3, <1>4 DEF TypeOK, BeginCalls

LEMMA SetCallType ==
  ASSUME TypeOK, NEW t \in Threads, NEW k \in Kinds, NEW g \in Targets,
         NEW c \in CallState, call' = [call EXCEPT ![t][k][g] = c]
  PROVE  call' \in [Threads -> [Kinds -> [Targets -> CallState]]]
BY DEF TypeOK

LEMMA SetResType ==
  ASSUME TypeOK, NEW t \in Threads, NEW k \in Kinds, NEW g \in Targets,
         NEW a \in {"ok", "error"}, call' = [call EXCEPT ![t][k][g].res = a]
  PROVE  call' \in [Threads -> [Kinds -> [Targets -> CallState]]]
<1>1. call[t][k][g] \in CallState
  BY DEF TypeOK
<1>2. [call[t][k][g] EXCEPT !.res = a] \in CallState
  BY <1>1 DEF CallState
<1>3. QED
  BY <1>2 DEF TypeOK

LEMMA RetryOrRaiseType ==
  ASSUME TypeOK, NEW m \in Message, NEW served, RetryOrRaise(m, served)
  PROVE  /\ call' \in [Threads -> [Kinds -> [Targets -> CallState]]]
         /\ inflight' \subseteq Message
<1>1. /\ m.thread \in Threads /\ m.kind \in Kinds /\ m.target \in Targets
      /\ m.n \in 1..MaxAttempts
  BY DEF Message
<1>2. CASE AttemptsLeft(m.n)
  <2>1. m.n + 1 \in 1..MaxAttempts /\ m.n + 1 \in 0..MaxAttempts
    BY <1>1, <1>2, Phase3Assumption DEF AttemptsLeft
  <2>2. Waiting(m.n + 1) \in CallState
    BY <2>1 DEF Waiting, CallState
  <2>3. Post(m.thread, m.kind, m.target, m.n + 1) \in Message
    BY <1>1, <2>1 DEF Post, Message
  <2>4. call' \in [Threads -> [Kinds -> [Targets -> CallState]]]
    BY <1>1, <1>2, <2>2, SetCallType DEF RetryOrRaise
  <2>5. QED
    BY <1>2, <2>3, <2>4 DEF RetryOrRaise, TypeOK
<1>3. CASE ~AttemptsLeft(m.n)
  <2>1. call' \in [Threads -> [Kinds -> [Targets -> CallState]]]
    BY <1>1, <1>3, SetResType DEF RetryOrRaise
  <2>2. QED
    BY <1>3, <2>1 DEF RetryOrRaise, TypeOK
<1>4. QED
  BY <1>2, <1>3

\* A coroutine that is past its start carries a workflow state: with it the
\* type invariant is inductive.
CarriesState ==
  \A t \in Threads : pc[t] \notin {"idle", "notFound"} => wf[t] # NoState

TInv == TypeOK /\ CarriesState

LEMMA CarriedState ==
  ASSUME TInv, NEW t \in Threads, pc[t] \notin {"idle", "notFound"}
  PROVE  wf[t] \in WorkflowState
BY DEF TInv, TypeOK, CarriesState

\* A coroutine that moves on from where it carries a state, and leaves or
\* retypes that state, keeps TInv.
LEMMA MoveKeepsTInv ==
  ASSUME TInv, NEW t \in Threads, NEW label \in PCs,
         NEW s \in WorkflowState, wf' = [wf EXCEPT ![t] = s],
         pc' = [pc EXCEPT ![t] = label],
         pending' \in [Incidents -> WorkflowState \cup {NoState}],
         call' \in [Threads -> [Kinds -> [Targets -> CallState]]],
         inflight' \subseteq Message,
         rules' \in [Targets -> Nat],
         restarts' \in 0..MaxRestarts
  PROVE  TInv'
<1>1. NoState \notin WorkflowState
  BY Phase3Assumption
<1>2. TypeOK'
  BY DEF TInv, TypeOK
<1>3. CarriesState'
  BY <1>1 DEF TInv, TypeOK, CarriesState
<1>4. QED
  BY <1>2, <1>3 DEF TInv

LEMMA StepKeepsTInv ==
  ASSUME TInv, NEW t \in Threads, NEW label \in PCs,
         pc[t] \notin {"idle", "notFound"},
         pc' = [pc EXCEPT ![t] = label],
         UNCHANGED <<wf, restarts>>,
         pending' \in [Incidents -> WorkflowState \cup {NoState}],
         call' \in [Threads -> [Kinds -> [Targets -> CallState]]],
         inflight' \subseteq Message,
         rules' \in [Targets -> Nat]
  PROVE  TInv'
<1>1. wf[t] \in WorkflowState
  BY CarriedState
<1>2. wf' = [wf EXCEPT ![t] = wf[t]]
  BY DEF TInv, TypeOK
<1>3. restarts' \in 0..MaxRestarts
  BY DEF TInv, TypeOK
<1>4. QED
  BY <1>1, <1>2, <1>3, MoveKeepsTInv

LEMMA TypeInit == Init => TInv
<1> SUFFICES ASSUME Init PROVE TInv
  OBVIOUS
<1>1. NoCall \in CallState
  BY Phase3Assumption DEF NoCall, CallState
<1>2. restarts \in 0..MaxRestarts
  BY Phase3Assumption DEF Init
<1>3. TypeOK
  BY <1>1, <1>2 DEF Init, TypeOK, PCs
<1>4. CarriesState
  BY DEF Init, CarriesState
<1>5. QED
  BY <1>3, <1>4 DEF TInv

LEMMA TypeRunStep ==
  ASSUME TInv, NEW r \in Runs, RunStep(r)
  PROVE  TInv'
<1> USE DEF Goto, netVars, PCs
<1>0. r \in Threads /\ Requests \subseteq RequestType
  BY Phase3Assumption DEF Threads
<1>1. CASE StartRun(r)
  <2>1. PICK req \in Requests : wf' = [wf EXCEPT ![r] = NewState(r, req)]
    BY <1>1 DEF StartRun
  <2>2. NewState(r, req) \in WorkflowState
    BY DEF NewState, WorkflowState, Decisions, Outcomes, Statuses
  <2>3. QED
    BY <1>0, <1>1, <2>1, <2>2, MoveKeepsTInv DEF StartRun, TInv, TypeOK
<1>2. CASE Triage(r)
  BY <1>0, <1>2, StepKeepsTInv DEF Triage, TInv, TypeOK
<1>3. CASE Enrich(r)
  BY <1>0, <1>3, StepKeepsTInv DEF Enrich, RouteByRisk, TInv, TypeOK
<1>4. CASE ProxyEnrich(r)
  BY <1>0, <1>4, StepKeepsTInv DEF ProxyEnrich, RouteByRisk, TInv, TypeOK
<1>5. CASE ProposeAction(r)
  BY <1>0, <1>5, StepKeepsTInv DEF ProposeAction, TInv, TypeOK
<1>6. CASE ApprovalGate(r)
  <2> DEFINE d == GateDecision(wf[r].req)
             s == [wf[r] EXCEPT !.decision = d,
                     !.status = IF d = "pending" THEN "pending_approval" ELSE @]
  <2>1. d \in {"pending", "approved"}
    BY DEF GateDecision
  <2>2. RouteAfterApproval(d) \in PCs
    BY <2>1 DEF RouteAfterApproval
  <2>3. wf[r] \in WorkflowState
    BY <1>0, <1>6, CarriedState DEF ApprovalGate
  <2>4. s \in WorkflowState
    BY <2>1, <2>3 DEF WorkflowState, Decisions, Statuses
  <2>5. wf' = [wf EXCEPT ![r] = s]
    BY <1>6 DEF ApprovalGate
  <2> HIDE DEF d, s
  <2>6. QED
    BY <1>0, <1>6, <2>2, <2>4, <2>5, MoveKeepsTInv DEF ApprovalGate, TInv, TypeOK, d
<1>7. CASE StorePending(r)
  <2>1. wf[r] \in WorkflowState
    BY <1>0, <1>7, CarriedState DEF StorePending
  <2>2. QED
    BY <1>0, <1>7, <2>1, StepKeepsTInv DEF StorePending, TInv, TypeOK
<1>8. CASE Notify(r)
  BY <1>0, <1>8, StepKeepsTInv DEF Notify, TInv, TypeOK
<1>9. QED
  BY <1>1, <1>2, <1>3, <1>4, <1>5, <1>6, <1>7, <1>8 DEF RunStep

LEMMA TypeResume ==
  ASSUME TInv, NEW h \in Resumes, Resume(h)
  PROVE  TInv'
<1> USE DEF Goto, netVars, PCs
<1>0. h \in Threads
  BY DEF Threads
<1>1. ASSUME NEW i \in Incidents, NEW d \in {"approved", "rejected"},
             ResumeFound(h, i, d)
      PROVE  TInv'
  <2> DEFINE s == [pending[i] EXCEPT !.decision = d]
  <2>1. s \in WorkflowState
    BY <1>1 DEF ResumeFound, TInv, TypeOK, WorkflowState, Decisions
  <2>2. RouteAfterApproval(d) \in PCs
    BY DEF RouteAfterApproval
  <2>3. wf' = [wf EXCEPT ![h] = s]
    BY <1>1 DEF ResumeFound
  <2> HIDE DEF s
  <2>4. QED
    BY <1>0, <1>1, <2>1, <2>2, <2>3, MoveKeepsTInv
       DEF ResumeFound, PopPending, TInv, TypeOK
<1>2. ASSUME NEW i \in Incidents, ResumeMissing(h, i)
      PROVE  TInv'
  BY <1>0, <1>2 DEF ResumeMissing, TInv, TypeOK, CarriesState
<1>3. QED
  BY <1>1, <1>2 DEF Resume

LEMMA TypeWriteStep ==
  ASSUME TInv, NEW t \in Threads, WriteStep(t)
  PROVE  TInv'
<1> USE DEF Goto, netVars, PCs
<1>0. pc[t] \notin {"idle", "notFound"}
  BY DEF WriteStep, StartExecute, FinishExecute, VerifyAction, StartRollback,
         FinishRollback, Handoff
<1>w. wf[t] \in WorkflowState
  BY <1>0, CarriedState
<1>1. CASE StartExecute(t)
  <2>1. PlannedTargets(wf[t]) \in SUBSET Targets
    BY <1>w, RequestFields
  <2>2. /\ call' \in [Threads -> [Kinds -> [Targets -> CallState]]]
        /\ inflight' \subseteq Message
    BY <1>1, <2>1, BeginCallsType DEF StartExecute, TInv, Kinds
  <2>3. QED
    BY <1>0, <1>1, <2>2, StepKeepsTInv DEF StartExecute, TInv, TypeOK
<1>2. CASE FinishExecute(t)
  <2> DEFINE e == Outcome(AllPassed(t, "act", PlannedTargets(wf[t])))
             s == [wf[t] EXCEPT !.execution = e]
             label == RouteAfterExecute(e)
  <2>1. e \in {"passed", "failed"}
    BY DEF Outcome
  <2>2. s \in WorkflowState
    BY <1>w, <2>1 DEF WorkflowState, Outcomes
  <2>3. label \in PCs
    BY DEF RouteAfterExecute
  <2>4. wf' = [wf EXCEPT ![t] = s] /\ pc' = [pc EXCEPT ![t] = label]
    BY <1>2 DEF FinishExecute
  <2>5. UNCHANGED <<pending, call, inflight, rules, restarts>>
    BY <1>2 DEF FinishExecute
  <2> HIDE DEF s, label, e
  <2>6. QED
    BY <2>2, <2>3, <2>4, <2>5, MoveKeepsTInv DEF TInv, TypeOK
<1>3. CASE VerifyAction(t)
  <2>1. PICK v \in {"passed", "failed"}, seen \in BOOLEAN :
          /\ wf' = [wf EXCEPT ![t].verify = v, ![t].confirmed = seen]
          /\ Goto(t, RouteAfterVerify(v))
    BY <1>3 DEF VerifyAction
  <2> DEFINE s == [wf[t] EXCEPT !.verify = v, !.confirmed = seen]
  <2>2. s \in WorkflowState
    BY <1>w DEF WorkflowState, Outcomes
  <2>3. RouteAfterVerify(v) \in PCs
    BY DEF RouteAfterVerify
  <2>4. wf' = [wf EXCEPT ![t] = s]
    BY <2>1
  <2>5. UNCHANGED <<pending, call, inflight, rules, restarts>>
    BY <1>3 DEF VerifyAction
  <2> DEFINE label == RouteAfterVerify(v)
  <2>6. pc' = [pc EXCEPT ![t] = label] /\ label \in PCs
    BY <2>1, <2>3 DEF Goto
  <2> HIDE DEF s, label
  <2>7. QED
    BY <2>2, <2>4, <2>5, <2>6, MoveKeepsTInv DEF TInv, TypeOK
<1>4. CASE StartRollback(t)
  <2>1. {wf[t].req.target} \in SUBSET Targets
    BY <1>w, RequestFields
  <2>2. /\ call' \in [Threads -> [Kinds -> [Targets -> CallState]]]
        /\ inflight' \subseteq Message
    BY <1>4, <2>1, BeginCallsType DEF StartRollback, TInv, Kinds
  <2>3. QED
    BY <1>0, <1>4, <2>2, StepKeepsTInv DEF StartRollback, TInv, TypeOK
<1>5. CASE FinishRollback(t)
  <2> DEFINE e == Outcome(AllPassed(t, "undo", {wf[t].req.target}))
             s == [wf[t] EXCEPT !.rollback = e]
  <2>1. e \in {"passed", "failed"}
    BY DEF Outcome
  <2>2. s \in WorkflowState
    BY <1>w, <2>1 DEF WorkflowState, Outcomes
  <2>3. wf' = [wf EXCEPT ![t] = s]
    BY <1>5 DEF FinishRollback
  <2> HIDE DEF s, e
  <2>4. QED
    BY <1>5, <2>2, <2>3, MoveKeepsTInv DEF FinishRollback, TInv, TypeOK
<1>6. CASE Handoff(t)
  <2>1. CASE UNCHANGED wf
    BY <1>0, <1>6, <2>1, StepKeepsTInv DEF Handoff, TInv, TypeOK
  <2>2. CASE wf' = [wf EXCEPT ![t].status = FinalStatus(wf[t])]
    <3> DEFINE s == [wf[t] EXCEPT !.status = FinalStatus(wf[t])]
    <3>1. FinalStatus(wf[t]) \in Statuses
      BY DEF FinalStatus, Statuses
    <3>2. s \in WorkflowState
      BY <1>w, <3>1 DEF WorkflowState
    <3>3. wf' = [wf EXCEPT ![t] = s]
      BY <2>2
    <3>4. PICK label \in PCs : pc' = [pc EXCEPT ![t] = label]
      BY <1>6 DEF Handoff
    <3> HIDE DEF s
    <3>5. QED
      BY <1>6, <3>2, <3>3, <3>4, MoveKeepsTInv DEF Handoff, TInv, TypeOK
  <2>3. QED
    BY <1>6, <2>1, <2>2 DEF Handoff
<1>7. QED
  BY <1>1, <1>2, <1>3, <1>4, <1>5, <1>6 DEF WriteStep

LEMMA TypeServe ==
  ASSUME TInv, NEW m \in Message, Serve(m)
  PROVE  TInv'
<1>1. m.thread \in Threads /\ m.kind \in Kinds /\ m.target \in Targets
  BY DEF Message
<1>2. rules' \in [Targets -> Nat]
  <2>1. CASE UNCHANGED rules
    BY <2>1 DEF TInv, TypeOK
  <2>2. CASE Effect(m)
    <3>1. rules[m.target] \in Nat
      BY <1>1 DEF TInv, TypeOK
    <3>2. (IF m.kind = "act" THEN rules[m.target] + 1
           ELSE IF UndoAll \/ rules[m.target] = 0 THEN 0
           ELSE rules[m.target] - 1) \in Nat
      BY <3>1
    <3>3. QED
      BY <1>1, <2>2, <3>2 DEF Effect, TInv, TypeOK
  <2>3. QED
    BY <2>1, <2>2 DEF Serve
<1>3. /\ call' \in [Threads -> [Kinds -> [Targets -> CallState]]]
      /\ inflight' \subseteq Message
  <2>1. PICK answer \in {"ok", "error", "lost"} : Reply(m, answer)
    BY DEF Serve
  <2>2. CASE answer = "ok" /\ Awaited(m)
    BY <1>1, <2>1, <2>2, SetResType DEF Reply, TInv, TypeOK
  <2>3. CASE answer = "error" /\ Awaited(m)
    <3>1. RetryOrRaise(m, {m})
      BY <2>1, <2>3 DEF Reply
    <3>2. QED
      BY <3>1, RetryOrRaiseType DEF TInv
  <2>4. CASE ~(answer = "ok" /\ Awaited(m)) /\ ~(answer = "error" /\ Awaited(m))
    BY <2>1, <2>4 DEF Reply, TInv, TypeOK
  <2>5. QED
    BY <2>2, <2>3, <2>4
<1>4. QED
  BY <1>2, <1>3 DEF Serve, TInv, TypeOK, CarriesState

LEMMA TypeTimeout ==
  ASSUME TInv, NEW m \in Message, Timeout(m)
  PROVE  TInv'
<1>1. /\ call' \in [Threads -> [Kinds -> [Targets -> CallState]]]
      /\ inflight' \subseteq Message
  BY RetryOrRaiseType DEF Timeout, TInv
<1>2. QED
  BY <1>1 DEF Timeout, TInv, TypeOK, CarriesState

LEMMA TypeRestart == TInv /\ Restart => TInv'
<1> SUFFICES ASSUME TInv, Restart PROVE TInv'
  OBVIOUS
<1>1. restarts' \in 0..MaxRestarts
  BY Phase3Assumption DEF Restart, TInv, TypeOK
<1>2. TypeOK'
  BY <1>1 DEF Restart, TInv, TypeOK, PCs, netVars
<1>3. CarriesState'
  BY DEF Restart, TInv, TypeOK, CarriesState, Ended
<1>4. QED
  BY <1>2, <1>3 DEF TInv

LEMMA TypeNext == TInv /\ [Next]_vars => TInv'
<1> SUFFICES ASSUME TInv, [Next]_vars PROVE TInv'
  OBVIOUS
<1>1. inflight \subseteq Message
  BY DEF TInv, TypeOK
<1>2. CASE Next
  BY <1>1, <1>2, TypeRunStep, TypeResume, TypeWriteStep, TypeServe,
     TypeTimeout, TypeRestart DEF Next
<1>3. CASE UNCHANGED vars
  BY <1>3 DEF vars, TInv, TypeOK, CarriesState
<1>4. QED
  BY <1>2, <1>3

LEMMA TypeInvariant == Spec => []TInv
BY TypeInit, TypeNext, PTL DEF Spec

\* Every variable keeps to its type, whatever is retried, lost or restarted.
THEOREM TypeCorrect == Spec => []TypeOK
BY TypeInvariant, PTL DEF TInv

-----------------------------------------------------------------------------
(* Writes stay behind the gate, and one coroutine executes a run.          *)

BeforeWrite == {"idle", "triage", "enrich", "propose", "approval", "pending",
                "notify", "paused", "notFound", "execute"}
WritePCs == {"execute", "executing", "verify", "rollback", "undoing"}

ProposedIsRisky ==
  \A t \in Threads : pc[t] \in {"propose", "approval", "pending"} =>
    wf[t].req.tier # "low"

StoredIsPending ==
  \A t \in Threads : pc[t] \in {"pending", "notify", "paused"} =>
    wf[t].decision = "pending"

WriterIsApproved ==
  \A t \in Threads : pc[t] \in WritePCs =>
    /\ wf[t].decision = "approved"
    /\ wf[t].req.tier # "low"
    /\ t \in Runs => wf[t].req.autoApprove

NoWriteBefore == \A t \in Threads : pc[t] \in BeforeWrite => ~Wrote(t)

UndecidedBefore ==
  \A t \in Threads : pc[t] \in {"triage", "enrich", "propose", "approval"} =>
    wf[t].decision = "none"

IdleHasNoState == \A t \in Threads : pc[t] = "idle" => wf[t] = NoState

OwnRun == \A r \in Runs : wf[r] # NoState => wf[r].run = r

\* What an incident has pending is a run that paused on that incident and
\* that no resume has taken.
PendingIsPaused ==
  \A i \in Incidents : pending[i] # NoState =>
    /\ pending[i].req.incident = i
    /\ pending[i].req.tier # "low"
    /\ pending[i] = wf[pending[i].run]
    /\ pc[pending[i].run] \in {"notify", "paused"}
    /\ \A h \in Resumes : ~Carries(h, pending[i].run)

\* What a resume has taken is a run whose own coroutine stopped at the pause.
TakenIsPaused ==
  \A h \in Resumes, r \in Runs : Carries(h, r) =>
    /\ wf[r] # NoState
    /\ wf[r].decision = "pending"
    /\ pc[r] \in {"notify", "paused", "crashed"}

GateInv ==
  /\ ProposedIsRisky /\ StoredIsPending /\ WriterIsApproved
  /\ NoWriteBefore /\ UndecidedBefore /\ IdleHasNoState /\ OwnRun
  /\ PendingIsPaused /\ TakenIsPaused
  /\ WritesAreApproved /\ OneDecisionPerPause

IInv == TInv /\ GateInv

\* An answer or a timeout continues a call: it never starts one, and never
\* reopens one that was answered; what it posts is the next attempt of a call.
LEMMA CallsContinue ==
  ASSUME TInv, NEW m \in Message, Serve(m) \/ Timeout(m)
  PROVE  /\ \A t \in Threads, k \in Kinds, g \in Targets :
              /\ Sent(t, k, g)' <=> Sent(t, k, g)
              /\ call[t][k][g].res = "ok" => call'[t][k][g].res = "ok"
         /\ \A p \in inflight' :
              \/ p \in inflight
              \/ /\ p.thread = m.thread /\ p.kind = m.kind /\ p.target = m.target
                 /\ Sent(m.thread, m.kind, m.target)
<1> DEFINE Continued ==
      \A t \in Threads, k \in Kinds, g \in Targets :
        /\ Sent(t, k, g)' <=> Sent(t, k, g)
        /\ call[t][k][g].res = "ok" => call'[t][k][g].res = "ok"
    Posted ==
      \A p \in inflight' :
        \/ p \in inflight
        \/ /\ p.thread = m.thread /\ p.kind = m.kind /\ p.target = m.target
           /\ Sent(m.thread, m.kind, m.target)
<1>0. SUFFICES Continued /\ Posted
  OBVIOUS
<1>1. m.thread \in Threads /\ m.kind \in Kinds /\ m.target \in Targets
      /\ m.n \in 1..MaxAttempts
  BY DEF Message
<1>2. ASSUME Awaited(m), NEW c \in CallState, c.n > 0,
             call' = [call EXCEPT ![m.thread][m.kind][m.target] = c]
      PROVE  Continued
  <2>1. /\ call[m.thread][m.kind][m.target].n > 0
        /\ call[m.thread][m.kind][m.target].res = "waiting"
    BY <1>1, <1>2, Phase3Assumption DEF Awaited, Waiting
  <2>2. QED
    BY <1>1, <1>2, <2>1 DEF Sent, TInv, TypeOK
<1>3. Awaited(m) => Sent(m.thread, m.kind, m.target)
  BY <1>1, Phase3Assumption DEF Awaited, Waiting, Sent
<1> HIDE DEF Posted
<1>4. ASSUME NEW served, Awaited(m), RetryOrRaise(m, served)
      PROVE  Continued /\ Posted
  <2>0. Posted
    BY <1>3, <1>4 DEF RetryOrRaise, Post, Posted
  <2>1. CASE AttemptsLeft(m.n)
    <3>1. m.n + 1 \in 0..MaxAttempts /\ m.n + 1 > 0
      BY <1>1, <2>1, Phase3Assumption DEF AttemptsLeft
    <3>2. Waiting(m.n + 1) \in CallState /\ Waiting(m.n + 1).n > 0
      BY <3>1 DEF Waiting, CallState
    <3>3. QED
      BY <1>2, <1>4, <2>0, <2>1, <3>2 DEF RetryOrRaise
  <2>2. CASE ~AttemptsLeft(m.n)
    <3> DEFINE c == [call[m.thread][m.kind][m.target] EXCEPT !.res = "error"]
    <3>1. c \in CallState /\ c.n > 0
      BY <1>1, <1>4, Phase3Assumption DEF Awaited, Waiting, CallState
    <3>2. call' = [call EXCEPT ![m.thread][m.kind][m.target] = c]
      BY <1>4, <2>2 DEF RetryOrRaise
    <3> HIDE DEF c, Continued
    <3>3. QED
      BY <1>2, <1>4, <2>0, <3>1, <3>2
  <2>3. QED
    BY <2>1, <2>2
<1>5. CASE Timeout(m)
  BY <1>4, <1>5 DEF Timeout
<1>6. CASE Serve(m)
  <2>1. PICK answer \in {"ok", "error", "lost"} : Reply(m, answer)
    BY <1>6 DEF Serve
  <2>2. CASE answer = "ok" /\ Awaited(m)
    <3> DEFINE c == [call[m.thread][m.kind][m.target] EXCEPT !.res = "ok"]
    <3>1. c \in CallState /\ c.n > 0
      BY <1>1, <2>2, Phase3Assumption DEF Awaited, Waiting, CallState
    <3>2. /\ call' = [call EXCEPT ![m.thread][m.kind][m.target] = c]
          /\ inflight' = inflight \ {m}
      BY <2>1, <2>2 DEF Reply
    <3> HIDE DEF c, Continued
    <3>3. Continued
      BY <1>2, <2>2, <3>1, <3>2
    <3>4. QED
      BY <3>2, <3>3 DEF Posted
  <2>3. CASE answer = "error" /\ Awaited(m)
    <3>1. RetryOrRaise(m, {m})
      BY <2>1, <2>3 DEF Reply
    <3>2. QED
      BY <1>4, <2>3, <3>1
  <2>4. CASE ~(answer = "ok" /\ Awaited(m)) /\ ~(answer = "error" /\ Awaited(m))
    BY <2>1, <2>4 DEF Reply, Sent, Posted
  <2>5. QED
    BY <2>2, <2>3, <2>4
<1>7. QED
  BY <1>5, <1>6

LEMMA GateServe ==
  ASSUME IInv, NEW m \in Message, Serve(m) \/ Timeout(m)
  PROVE  GateInv'
<1>1. \A t \in Threads : Wrote(t)' <=> Wrote(t)
  BY CallsContinue DEF IInv, Wrote, Kinds
<1>2. UNCHANGED <<pc, wf, pending>>
  BY DEF Serve, Timeout
<1>3. \A t \in Threads, r \in Runs : Carries(t, r)' <=> Carries(t, r)
  BY <1>2 DEF Carries
<1> QED
  BY <1>1, <1>2, <1>3, Phase3Assumption
     DEF IInv, TInv, TypeOK, WorkflowState, GateInv, ProposedIsRisky,
     StoredIsPending, WriterIsApproved, NoWriteBefore, UndecidedBefore, IdleHasNoState, OwnRun,
     PendingIsPaused, TakenIsPaused, WritesAreApproved, OneDecisionPerPause,
     Threads

LEMMA GateInit0 == Init => GateInv
<1> SUFFICES ASSUME Init PROVE GateInv
  OBVIOUS
<1>1. \A t \in Threads : ~Wrote(t)
  BY DEF Init, Wrote, Sent, NoCall, Kinds
<1>2. \A t \in Threads : wf[t] = NoState /\ pc[t] = "idle"
  BY DEF Init
<1> QED
  BY <1>1, <1>2 DEF Init, GateInv, ProposedIsRisky,
     StoredIsPending, WriterIsApproved, NoWriteBefore, UndecidedBefore, IdleHasNoState, OwnRun,
     PendingIsPaused, TakenIsPaused, WritesAreApproved, OneDecisionPerPause,
     Threads, Carries, BeforeWrite, WritePCs

LEMMA FreshState ==
  ASSUME NEW r \in Runs, NEW req \in Requests
  PROVE  /\ NewState(r, req) \in WorkflowState
         /\ NewState(r, req).run = r
         /\ NewState(r, req).decision = "none"
         /\ NewState(r, req) # NoState
<1>1. NewState(r, req) \in WorkflowState
  BY DEF NewState, WorkflowState, Decisions, Outcomes, Statuses
<1>2. NewState(r, req).run = r /\ NewState(r, req).decision = "none"
  BY DEF NewState
<1> QED
  BY <1>1, <1>2, Phase3Assumption

LEMMA GateRunStep ==
  ASSUME IInv, NEW r \in Runs, RunStep(r)
  PROVE  GateInv'
<1> USE DEF Goto, netVars, GateInv, ProposedIsRisky, StoredIsPending,
     WriterIsApproved, NoWriteBefore, UndecidedBefore, IdleHasNoState, OwnRun, PendingIsPaused,
     TakenIsPaused, WritesAreApproved, OneDecisionPerPause, Carries,
     BeforeWrite, WritePCs
<1>0. /\ r \in Threads /\ Runs \subseteq Threads /\ Resumes \subseteq Threads
      /\ Runs \cap Resumes = {} /\ Threads = Runs \cup Resumes
      /\ NoState \notin WorkflowState
  BY Phase3Assumption DEF Threads
<1>1. /\ pc \in [Threads -> PCs]
      /\ wf \in [Threads -> WorkflowState \cup {NoState}]
      /\ pending \in [Incidents -> WorkflowState \cup {NoState}]
      /\ CarriesState /\ GateInv
  BY DEF IInv, TInv, TypeOK
<1>2. /\ UNCHANGED call
      /\ \A t \in Threads : Wrote(t)' <=> Wrote(t)
  BY DEF RunStep, StartRun, Triage, Enrich, ProxyEnrich, ProposeAction,
     ApprovalGate, StorePending, Notify, Wrote, Sent
<1>3. \A i \in Incidents : pending[i] # NoState =>
        pending[i] \in WorkflowState /\ pending[i].run \in Runs
  BY <1>1 DEF WorkflowState
<1>4. CASE StartRun(r)
  <2>1. PICK req \in Requests : wf' = [wf EXCEPT ![r] = NewState(r, req)]
    BY <1>4 DEF StartRun
  <2>2. /\ NewState(r, req) \in WorkflowState
        /\ NewState(r, req).run = r
        /\ NewState(r, req).decision = "none"
        /\ NewState(r, req) # NoState
    BY FreshState
  <2>3. pc[r] = "idle" /\ pc' = [pc EXCEPT ![r] = "triage"] /\ UNCHANGED pending
    BY <1>4 DEF StartRun
  <2>4. /\ wf[r] = NoState /\ ~Wrote(r)
        /\ \A h \in Resumes : ~Carries(h, r)
        /\ \A i \in Incidents : pending[i] # NoState => pending[i].run # r
    BY <1>0, <1>1, <1>3, <2>3
  <2> DEFINE s == NewState(r, req)
  <2> HIDE DEF s
  <2>5. /\ wf' = [wf EXCEPT ![r] = s] /\ s.run = r /\ s.decision = "none"
        /\ s # NoState
    BY <2>1, <2>2 DEF s
  <2>6. /\ ProposedIsRisky' /\ StoredIsPending' /\ WriterIsApproved'
        /\ NoWriteBefore' /\ UndecidedBefore' /\ IdleHasNoState' /\ OwnRun' /\ WritesAreApproved'
    BY <1>0, <1>1, <1>2, <2>3, <2>4, <2>5
  <2>7. PendingIsPaused'
    BY <1>0, <1>1, <1>3, <2>3, <2>4, <2>5
  <2>8. TakenIsPaused' /\ OneDecisionPerPause'
    BY <1>0, <1>1, <2>3, <2>4, <2>5
  <2>9. QED
    BY <2>6, <2>7, <2>8
<1>5. CASE Triage(r) \/ Enrich(r) \/ ProxyEnrich(r) \/ ProposeAction(r) \/ Notify(r)
  <2>1. PICK label : /\ pc' = [pc EXCEPT ![r] = label]
                     /\ UNCHANGED <<wf, pending>>
                     /\ \/ /\ pc[r] \in {"triage", "enrich"}
                           /\ label \in {"enrich", "error", "handoff"}
                        \/ pc[r] = "enrich" /\ label = "propose" /\ wf[r].req.tier # "low"
                        \/ pc[r] = "propose" /\ label = "approval"
                        \/ pc[r] = "notify" /\ label = "paused"
    BY <1>5 DEF Triage, Enrich, ProxyEnrich, ProposeAction, Notify, RouteByRisk
  <2>2. QED
    BY <1>0, <1>1, <1>2, <1>3, <2>1
<1>6. CASE ApprovalGate(r)
  <2> DEFINE d == GateDecision(wf[r].req)
             s == [wf[r] EXCEPT !.decision = d,
                     !.status = IF d = "pending" THEN "pending_approval" ELSE @]
  <2>1. wf[r] \in WorkflowState
    BY <1>0, <1>6, CarriedState DEF ApprovalGate, IInv
  <2>2. /\ s.run = r /\ s.req = wf[r].req /\ s.decision = d /\ s # NoState
    <3>1. wf[r].run = r
      BY <1>0, <1>1, <2>1
    <3>2. s \in WorkflowState
      BY <2>1 DEF WorkflowState, Decisions, Statuses, GateDecision
    <3>3. QED
      BY <1>0, <2>1, <3>1, <3>2 DEF WorkflowState
  <2>3. /\ wf' = [wf EXCEPT ![r] = s]
        /\ pc' = [pc EXCEPT ![r] = IF d = "pending" THEN "pending" ELSE "execute"]
        /\ d \in {"pending", "approved"}
        /\ pc[r] = "approval"
        /\ UNCHANGED pending
    BY <1>6 DEF ApprovalGate, GateDecision, RouteAfterApproval
  <2>4. wf[r].req.tier # "low"
    BY <1>0, <1>1, <2>3
  <2>5. d = "approved" => wf[r].req.autoApprove
    <3>1. wf[r].req.tier \in Tiers
      BY <2>1, Phase3Assumption DEF WorkflowState, RequestType
    <3>2. QED
      BY <2>4, <3>1 DEF GateDecision, ApprovalRequired, Tiers
  <2>6. ~Wrote(r)
    BY <1>0, <1>1, <2>3
  <2> HIDE DEF s, d
  <2>7. /\ ProposedIsRisky' /\ StoredIsPending' /\ WriterIsApproved'
        /\ NoWriteBefore' /\ UndecidedBefore' /\ IdleHasNoState' /\ OwnRun' /\ WritesAreApproved'
    BY <1>0, <1>1, <1>2, <2>2, <2>3, <2>4, <2>5, <2>6
  <2>8. \A t \in Threads, q \in Runs : Carries(t, q)' <=> Carries(t, q)
    BY <1>0, <1>1, <2>1, <2>2, <2>3
  <2>9. PendingIsPaused'
    BY <1>0, <1>1, <1>3, <2>2, <2>3, <2>8
  <2>10. TakenIsPaused' /\ OneDecisionPerPause'
    BY <1>0, <1>1, <2>2, <2>3, <2>8
  <2>11. QED
    BY <2>7, <2>9, <2>10
<1>7. CASE StorePending(r)
  <2> DEFINE j == wf[r].req.incident
  <2>1. /\ wf[r] \in WorkflowState /\ wf[r].run = r /\ j \in Incidents
    BY <1>0, <1>1, <1>7, CarriedState, RequestFields DEF StorePending, IInv
  <2>2. /\ pc[r] = "pending" /\ pc' = [pc EXCEPT ![r] = "notify"]
        /\ pending' = [pending EXCEPT ![j] = wf[r]]
        /\ UNCHANGED wf
    BY <1>7 DEF StorePending
  <2>3. wf[r].decision = "pending" /\ wf[r].req.tier # "low"
    BY <1>0, <1>1, <2>2
  <2>4. \A h \in Resumes : ~Carries(h, r)
    BY <1>0, <1>1, <2>2
  <2>5. QED
    BY <1>0, <1>1, <1>2, <1>3, <2>1, <2>2, <2>3, <2>4
<1>8. QED
  BY <1>4, <1>5, <1>6, <1>7 DEF RunStep

LEMMA GateResume ==
  ASSUME IInv, NEW h \in Resumes, Resume(h)
  PROVE  GateInv'
<1> USE DEF Goto, netVars, GateInv, ProposedIsRisky, StoredIsPending,
     WriterIsApproved, NoWriteBefore, UndecidedBefore, IdleHasNoState, OwnRun, PendingIsPaused,
     TakenIsPaused, WritesAreApproved, OneDecisionPerPause, Carries,
     BeforeWrite, WritePCs
<1>0. /\ h \in Threads /\ h \notin Runs
      /\ Runs \subseteq Threads /\ Resumes \subseteq Threads
      /\ Threads = Runs \cup Resumes
      /\ NoState \notin WorkflowState
  BY Phase3Assumption DEF Threads
<1>1. /\ pc \in [Threads -> PCs]
      /\ wf \in [Threads -> WorkflowState \cup {NoState}]
      /\ pending \in [Incidents -> WorkflowState \cup {NoState}]
      /\ GateInv
  BY DEF IInv, TInv, TypeOK
<1>2. \A t \in Threads : Wrote(t)' <=> Wrote(t)
  BY DEF Resume, ResumeFound, ResumeMissing, Wrote, Sent
<1>3. \A i \in Incidents : pending[i] # NoState =>
        pending[i] \in WorkflowState /\ pending[i].run \in Runs
  BY <1>1 DEF WorkflowState
<1>4. ASSUME NEW i \in Incidents, NEW d \in {"approved", "rejected"},
             ResumeFound(h, i, d)
      PROVE  GateInv'
  <2> DEFINE s == [pending[i] EXCEPT !.decision = d]
             r == pending[i].run
  <2>1. /\ pc[h] = "idle"
        /\ pending[i] # NoState
        /\ wf' = [wf EXCEPT ![h] = s]
        /\ pending' = [pending EXCEPT ![i] = NoState]
        /\ pc' = [pc EXCEPT ![h] = IF d = "approved" THEN "execute" ELSE "handoff"]
    BY <1>4 DEF ResumeFound, PopPending, RouteAfterApproval
  <2>2. /\ r \in Runs /\ wf[r] = pending[i] /\ pending[i].req.incident = i
        /\ pending[i].req.tier # "low"
        /\ pc[r] \in {"notify", "paused"} /\ wf[r].decision = "pending"
        /\ \A k \in Resumes : ~Carries(k, r)
    BY <1>0, <1>1, <1>3, <2>1
  <2>3. /\ s \in WorkflowState
        /\ s.run = r /\ s.req = pending[i].req /\ s.decision = d
    BY <1>3, <2>1 DEF WorkflowState, Decisions
  <2>4. s # NoState
    BY <1>0, <2>3
  <2>5. wf[h] = NoState /\ ~Wrote(h)
    BY <1>0, <1>1, <2>1
  <2>6. \A j \in Incidents : pending[j] # NoState /\ j # i => pending[j].run # r
    BY <1>1, <2>2
  <2> HIDE DEF s, r
  <2>7. /\ ProposedIsRisky' /\ StoredIsPending' /\ WriterIsApproved'
        /\ NoWriteBefore' /\ UndecidedBefore' /\ IdleHasNoState' /\ OwnRun' /\ WritesAreApproved'
    BY <1>0, <1>1, <1>2, <2>1, <2>2, <2>3, <2>4, <2>5
  <2>8. PendingIsPaused'
    BY <1>0, <1>1, <1>3, <2>1, <2>2, <2>3, <2>4, <2>6
  <2>9. TakenIsPaused' /\ OneDecisionPerPause'
    BY <1>0, <1>1, <2>1, <2>2, <2>3, <2>4
  <2>10. QED
    BY <2>7, <2>8, <2>9
<1>5. ASSUME NEW i \in Incidents, ResumeMissing(h, i)
      PROVE  GateInv'
  <2>1. /\ pc[h] = "idle" /\ pc' = [pc EXCEPT ![h] = "notFound"]
        /\ UNCHANGED <<wf, pending>>
    BY <1>5 DEF ResumeMissing
  <2>2. QED
    BY <1>0, <1>1, <1>2, <1>3, <2>1
<1>6. QED
  BY <1>4, <1>5 DEF Resume

\* A coroutine past the gate that moves on, keeping the run, the request and
\* the decision it carries, disturbs nothing.
LEMMA PastTheGate ==
  ASSUME IInv, NEW t \in Threads, NEW s \in WorkflowState,
         NEW label \in (WritePCs \ {"execute"}) \cup {"handoff", "done", "error"},
         pc[t] \in WritePCs \cup {"handoff"},
         label \in WritePCs => pc[t] \in WritePCs,
         pc' = [pc EXCEPT ![t] = label],
         wf' = [wf EXCEPT ![t] = s],
         s.run = wf[t].run, s.req = wf[t].req, s.decision = wf[t].decision,
         UNCHANGED pending,
         \A u \in Threads : Wrote(u)' => Wrote(u) \/ (u = t /\ pc[t] \in WritePCs)
  PROVE  GateInv'
<1> USE DEF GateInv, ProposedIsRisky, StoredIsPending,
     WriterIsApproved, NoWriteBefore, UndecidedBefore, IdleHasNoState, OwnRun, PendingIsPaused,
     TakenIsPaused, WritesAreApproved, OneDecisionPerPause, Carries,
     BeforeWrite, WritePCs
<1>0. /\ Runs \subseteq Threads /\ Resumes \subseteq Threads
      /\ Threads = Runs \cup Resumes
      /\ s # NoState
  BY Phase3Assumption DEF Threads
<1>1. /\ pc \in [Threads -> PCs]
      /\ wf \in [Threads -> WorkflowState \cup {NoState}]
      /\ CarriesState /\ GateInv
  BY DEF IInv, TInv, TypeOK
<1>2. \A i \in Incidents : pending[i] # NoState => pending[i].run \in Runs
  BY Phase3Assumption DEF IInv, TInv, TypeOK, WorkflowState
<1>3. wf[t] # NoState
  BY <1>1 DEF CarriesState
<1>4. \A u \in Threads, r \in Runs : Carries(u, r)' <=> Carries(u, r)
  BY <1>0, <1>1, <1>3
<1>5. /\ ProposedIsRisky' /\ StoredIsPending' /\ WriterIsApproved'
      /\ NoWriteBefore' /\ UndecidedBefore' /\ IdleHasNoState' /\ OwnRun' /\ WritesAreApproved'
  BY <1>0, <1>1, <1>3
<1>6. PendingIsPaused'
  BY <1>0, <1>1, <1>2, <1>4
<1>7. TakenIsPaused' /\ OneDecisionPerPause'
  BY <1>0, <1>1, <1>4
<1>8. QED
  BY <1>5, <1>6, <1>7

LEMMA GateWriteStep ==
  ASSUME IInv, NEW t \in Threads, WriteStep(t)
  PROVE  GateInv'
<1> USE DEF Goto, netVars
<1>0. /\ pc[t] \in WritePCs \cup {"handoff"}
      /\ wf[t] \in WorkflowState
  <2>1. pc[t] \in WritePCs \cup {"handoff"}
    BY DEF WriteStep, StartExecute, FinishExecute, VerifyAction, StartRollback,
           FinishRollback, Handoff, WritePCs
  <2>2. QED
    BY <2>1, CarriedState DEF IInv, WritePCs
<1>1. wf = [wf EXCEPT ![t] = wf[t]]
  BY DEF IInv, TInv, TypeOK
<1>2. ASSUME UNCHANGED call
      PROVE  \A u \in Threads : Wrote(u)' <=> Wrote(u)
  BY <1>2 DEF Wrote, Sent
<1>3. CASE StartExecute(t)
  <2>1. \A u \in Threads : u # t => (Wrote(u)' <=> Wrote(u))
    BY <1>3 DEF StartExecute, BeginCalls, Wrote, Sent, IInv, TInv, TypeOK, Kinds
  <2>2. QED
    BY <1>0, <1>1, <1>3, <2>1, PastTheGate DEF StartExecute, WritePCs
<1>4. CASE FinishExecute(t)
  <2> DEFINE e == Outcome(AllPassed(t, "act", PlannedTargets(wf[t])))
             s == [wf[t] EXCEPT !.execution = e]
             label == RouteAfterExecute(e)
  <2>1. e \in {"passed", "failed"}
    BY DEF Outcome
  <2>2. /\ s \in WorkflowState
        /\ s.run = wf[t].run /\ s.req = wf[t].req /\ s.decision = wf[t].decision
    BY <1>0, <2>1 DEF WorkflowState, Outcomes
  <2>3. label \in {"handoff", "verify"}
    BY DEF RouteAfterExecute
  <2>4. /\ wf' = [wf EXCEPT ![t] = s] /\ pc' = [pc EXCEPT ![t] = label]
        /\ pc[t] = "executing" /\ UNCHANGED <<pending, call>>
    BY <1>4 DEF FinishExecute
  <2> HIDE DEF s, label, e
  <2>5. QED
    BY <1>0, <1>2, <2>2, <2>3, <2>4, PastTheGate DEF WritePCs
<1>5. CASE VerifyAction(t)
  <2>1. PICK v \in {"passed", "failed"}, seen \in BOOLEAN :
          /\ wf' = [wf EXCEPT ![t].verify = v, ![t].confirmed = seen]
          /\ pc' = [pc EXCEPT ![t] = RouteAfterVerify(v)]
    BY <1>5 DEF VerifyAction
  <2> DEFINE s == [wf[t] EXCEPT !.verify = v, !.confirmed = seen]
  <2>2. /\ s \in WorkflowState
        /\ s.run = wf[t].run /\ s.req = wf[t].req /\ s.decision = wf[t].decision
    BY <1>0 DEF WorkflowState, Outcomes
  <2>3. RouteAfterVerify(v) \in {"rollback", "handoff"}
    BY DEF RouteAfterVerify
  <2>4. /\ wf' = [wf EXCEPT ![t] = s]
        /\ pc[t] = "verify" /\ UNCHANGED <<pending, call>>
    BY <1>5, <2>1 DEF VerifyAction
  <2> HIDE DEF s
  <2>5. QED
    BY <1>0, <1>2, <2>1, <2>2, <2>3, <2>4, PastTheGate DEF WritePCs
<1>6. CASE StartRollback(t)
  <2>1. \A u \in Threads : Wrote(u)' <=> Wrote(u)
    BY <1>6 DEF StartRollback, BeginCalls, Wrote, Sent, IInv, TInv, TypeOK, Kinds
  <2>2. QED
    BY <1>0, <1>1, <1>6, <2>1, PastTheGate DEF StartRollback, WritePCs
<1>7. CASE FinishRollback(t)
  <2> DEFINE e == Outcome(AllPassed(t, "undo", {wf[t].req.target}))
             s == [wf[t] EXCEPT !.rollback = e]
  <2>1. e \in {"passed", "failed"}
    BY DEF Outcome
  <2>2. /\ s \in WorkflowState
        /\ s.run = wf[t].run /\ s.req = wf[t].req /\ s.decision = wf[t].decision
    BY <1>0, <2>1 DEF WorkflowState, Outcomes
  <2>3. /\ wf' = [wf EXCEPT ![t] = s] /\ pc' = [pc EXCEPT ![t] = "handoff"]
        /\ UNCHANGED <<pending, call>>
    BY <1>7 DEF FinishRollback
  <2> HIDE DEF s, e
  <2>4. QED
    BY <1>0, <1>2, <2>2, <2>3, PastTheGate DEF WritePCs
<1>8. CASE Handoff(t)
  <2>1. PICK label \in {"done", "error"} : pc' = [pc EXCEPT ![t] = label]
    BY <1>8 DEF Handoff
  <2>2. PICK status \in Statuses \cup {wf[t].status} :
          wf' = [wf EXCEPT ![t] = [wf[t] EXCEPT !.status = status]]
    <3>1. CASE UNCHANGED wf
      <4>1. wf[t] = [wf[t] EXCEPT !.status = wf[t].status]
        BY <1>0 DEF WorkflowState
      <4>2. QED
        BY <1>1, <3>1, <4>1
    <3>2. CASE wf' = [wf EXCEPT ![t].status = FinalStatus(wf[t])]
      BY <3>2 DEF FinalStatus, Statuses
    <3>3. QED
      BY <1>8, <3>1, <3>2 DEF Handoff
  <2> DEFINE s == [wf[t] EXCEPT !.status = status]
  <2>3. /\ s \in WorkflowState
        /\ s.run = wf[t].run /\ s.req = wf[t].req /\ s.decision = wf[t].decision
    BY <1>0, <2>2 DEF WorkflowState
  <2>4. wf' = [wf EXCEPT ![t] = s] /\ UNCHANGED <<pending, call>>
    BY <1>8, <2>2 DEF Handoff
  <2> HIDE DEF s
  <2>5. QED
    BY <1>0, <1>2, <2>1, <2>3, <2>4, PastTheGate DEF WritePCs
<1>9. QED
  BY <1>3, <1>4, <1>5, <1>6, <1>7, <1>8 DEF WriteStep

LEMMA GateRestart == IInv /\ Restart => GateInv'
<1> SUFFICES ASSUME IInv, Restart PROVE GateInv'
  OBVIOUS
<1>1. /\ \A i \in Incidents : pending'[i] = NoState
      /\ \A t \in Threads : pc'[t] = pc[t] \/ pc'[t] = "crashed"
      /\ \A t \in Threads : pc'[t] = pc[t] \/ pc[t] \notin Ended
      /\ UNCHANGED wf
      /\ \A t \in Threads : Wrote(t)' <=> Wrote(t)
  BY DEF Restart, netVars, Wrote, Sent
<1>2. Runs \subseteq Threads /\ Resumes \subseteq Threads
  BY DEF Threads
<1>3. QED
  BY <1>1, <1>2 DEF IInv, GateInv, ProposedIsRisky, StoredIsPending,
     WriterIsApproved, NoWriteBefore, UndecidedBefore, IdleHasNoState, OwnRun, PendingIsPaused,
     TakenIsPaused, WritesAreApproved, OneDecisionPerPause, Carries,
     BeforeWrite, WritePCs, Ended

LEMMA GatePreserved == IInv /\ [Next]_vars => IInv'
<1> SUFFICES ASSUME IInv, [Next]_vars PROVE IInv'
  OBVIOUS
<1>1. TInv'
  BY TypeNext DEF IInv
<1>2. inflight \subseteq Message
  BY DEF IInv, TInv, TypeOK
<1>3. CASE Next
  BY <1>1, <1>2, <1>3, GateRunStep, GateResume, GateWriteStep, GateServe,
     GateRestart DEF Next, IInv
<1>4. CASE UNCHANGED vars
  <2>1. \A t \in Threads : Wrote(t)' <=> Wrote(t)
    BY <1>4 DEF vars, Wrote, Sent
  <2>2. GateInv'
    BY <1>4, <2>1 DEF vars, IInv, GateInv, ProposedIsRisky, StoredIsPending,
       WriterIsApproved, NoWriteBefore, UndecidedBefore, IdleHasNoState, OwnRun,
       PendingIsPaused, TakenIsPaused, WritesAreApproved, OneDecisionPerPause,
       Carries
  <2>3. QED
    BY <1>1, <2>2 DEF IInv
<1>5. QED
  BY <1>3, <1>4

LEMMA GateInvariant == Spec => []IInv
<1>1. Init => IInv
  BY TypeInit, GateInit0 DEF IInv
<1>2. QED
  BY <1>1, GatePreserved, PTL DEF Spec

\* No write tool is called for a run before the approval gate let it through,
\* however requests interleave, calls are retried and the process restarts.
THEOREM WritesStayApproved == Spec => []WritesAreApproved
BY GateInvariant, PTL DEF IInv, GateInv

\* The decision on a paused run is taken by one resume request at most.
THEOREM DecisionTakenOnce == Spec => []OneDecisionPerPause
BY GateInvariant, PTL DEF IInv, GateInv

\* A run is executed by one coroutine at most: its own if it asked for
\* auto_approve, else the one resume that took it from the store.
THEOREM ExecutedOnce == Spec => []SingleExecutor
<1>1. IInv => SingleExecutor
  <2> SUFFICES ASSUME IInv, NEW t \in Threads, NEW u \in Threads, NEW r \in Runs,
                      Wrote(t), Wrote(u), Carries(t, r), Carries(u, r)
               PROVE  t = u
    BY DEF SingleExecutor
  <2>1. \A v \in Threads : Wrote(v) /\ Carries(v, r) => v = r \/ v \in Resumes
    BY DEF Threads, IInv, GateInv, OwnRun, Carries
  <2>2. \A v \in Resumes : Carries(v, r) => ~Wrote(r)
    BY DEF Threads, IInv, GateInv, TakenIsPaused, WritesAreApproved
  <2>3. \A v, w \in Resumes : Carries(v, r) /\ Carries(w, r) => v = w
    BY DEF IInv, GateInv, OneDecisionPerPause
  <2>4. QED
    BY <2>1, <2>2, <2>3
<1>2. QED
  BY <1>1, GateInvariant, PTL

\* A run is decided once and executed once, whoever resumes it.
THEOREM RunsDecidedOnce == Spec => []RunsAreDecidedOnce
BY DecisionTakenOnce, ExecutedOnce, PTL DEF RunsAreDecidedOnce

-----------------------------------------------------------------------------
(* A rollback is earned, and the status tells what ran.                    *)

\* Nothing is known of the execution before its calls are all answered.
UnexecutedBefore(t) ==
  wf[t] # NoState /\ pc[t] \in BeforeWrite \cup {"executing"} =>
    wf[t].execution = "none"

\* A passed execution had every planned call answered, and stays so: a call
\* that was answered is not posted again.
PassedIsAnswered(t) ==
  wf[t] # NoState /\ wf[t].execution = "passed" =>
    AllPassed(t, "act", PlannedTargets(wf[t]))

\* Verification and rollback follow a passed execution only.
VerifiedIsPassed(t) ==
  /\ pc[t] \in {"verify", "rollback", "undoing"} => wf[t].execution = "passed"
  /\ pc[t] \in {"rollback", "undoing"} => wf[t].verify = "failed"

UndoIsEarned(t) ==
  \A g \in Targets : Sent(t, "undo", g) =>
    /\ pc[t] \in {"undoing", "handoff", "done", "error", "crashed"}
    /\ wf[t] # NoState
    /\ wf[t].execution = "passed"
    /\ wf[t].verify = "failed"
    /\ g = wf[t].req.target

WritesArePlanned(t) ==
  \A g \in Targets : Sent(t, "act", g) =>
    wf[t] # NoState /\ g \in PlannedTargets(wf[t])

\* At the end the outcomes tell whether anything was sent.
OutcomesAreTold(t) ==
  pc[t] \in {"handoff", "done"} =>
    /\ Wrote(t) => wf[t].execution # "none"
    /\ (\E g \in Targets : Sent(t, "undo", g)) => wf[t].rollback # "none"

StatusIsFinal(t) ==
  pc[t] = "done" => wf[t].status = FinalStatus(wf[t])

StageOf(t) ==
  /\ UnexecutedBefore(t) /\ PassedIsAnswered(t) /\ VerifiedIsPassed(t)
  /\ UndoIsEarned(t) /\ WritesArePlanned(t) /\ OutcomesAreTold(t)
  /\ StatusIsFinal(t)

\* Whatever is still served belongs to a call its coroutine began.
InFlightIsSent == \A m \in inflight : Sent(m.thread, m.kind, m.target)

StageInv ==
  /\ \A t \in Threads : StageOf(t)
  /\ InFlightIsSent
  /\ OnlyNamedTargetsContained

\* What is known of a coroutine depends on its own state only.
LEMMA StageUntouched ==
  ASSUME NEW t \in Threads, StageOf(t),
         pc'[t] = pc[t], wf'[t] = wf[t], call'[t] = call[t]
  PROVE  StageOf(t)'
BY DEF StageOf, UnexecutedBefore, PassedIsAnswered, VerifiedIsPassed,
       UndoIsEarned, WritesArePlanned, OutcomesAreTold, StatusIsFinal,
       AllPassed, Sent, Wrote

\* An approved run stays approved, with the targets it named.
LEMMA ApprovedStays ==
  ASSUME IInv, [Next]_vars, NEW t \in Threads,
         wf[t] # NoState, wf[t].decision = "approved"
  PROVE  /\ wf'[t] # NoState
         /\ wf'[t].decision = "approved"
         /\ wf'[t].req = wf[t].req
<1>0. /\ wf \in [Threads -> WorkflowState \cup {NoState}]
      /\ wf[t] \in WorkflowState
      /\ NoState \notin WorkflowState
      /\ Runs \subseteq Threads /\ Resumes \subseteq Threads
      /\ inflight \subseteq Message
  BY Phase3Assumption DEF IInv, TInv, TypeOK, Threads
<1>1. CASE \E r \in Runs : RunStep(r)
  <2>1. PICK r \in Runs : RunStep(r)
    BY <1>1
  <2>2. CASE StartRun(r) \/ ApprovalGate(r)
    <3>1. r # t
      BY <1>0, <2>2 DEF StartRun, ApprovalGate, IInv, GateInv, IdleHasNoState,
                         UndecidedBefore
    <3>2. QED
      BY <1>0, <2>2, <3>1 DEF StartRun, ApprovalGate
  <2>3. QED
    BY <2>1, <2>2 DEF RunStep, Triage, Enrich, ProxyEnrich, ProposeAction,
                      StorePending, Notify
<1>2. CASE \E h \in Resumes : Resume(h)
  BY <1>0, <1>2 DEF Resume, ResumeFound, ResumeMissing, IInv, GateInv,
                     IdleHasNoState
<1>3. CASE \E u \in Threads : WriteStep(u)
  <2>1. PICK u \in Threads : WriteStep(u)
    BY <1>3
  <2>2. CASE u # t
    BY <1>0, <2>1, <2>2 DEF WriteStep, StartExecute, FinishExecute, VerifyAction,
                       StartRollback, FinishRollback, Handoff
  <2>3. CASE u = t
    <3> DEFINE Kept == wf'[t].decision = "approved" /\ wf'[t].req = wf[t].req
    <3>1. ASSUME StartExecute(t) \/ FinishExecute(t) \/ StartRollback(t)
               \/ FinishRollback(t) \/ Handoff(t)
          PROVE  Kept
      BY <1>0, <3>1 DEF StartExecute, FinishExecute, StartRollback, FinishRollback,
         Handoff, WorkflowState
    <3>2. ASSUME VerifyAction(t)
          PROVE  Kept
      BY <1>0, <3>2 DEF VerifyAction, WorkflowState
    <3>3. Kept
      BY <2>1, <2>3, <3>1, <3>2 DEF WriteStep
    <3>4. wf'[t] # NoState
      <4>1. TInv'
        BY TypeNext DEF IInv
      <4>2. pc'[t] \in PCs \ {"idle", "notFound"}
        BY <2>1, <2>3 DEF WriteStep, StartExecute, FinishExecute, VerifyAction,
           StartRollback, FinishRollback, Handoff, Goto, IInv, TInv, TypeOK, PCs,
           RouteAfterExecute, RouteAfterVerify
      <4>3. QED
        BY <4>1, <4>2 DEF TInv, CarriesState
    <3>5. QED
      BY <3>3, <3>4
  <2>4. QED
    BY <2>2, <2>3
<1>4. CASE \E m \in Message : Serve(m) \/ Timeout(m)
  BY <1>4 DEF Serve, Timeout
<1>5. CASE Restart \/ UNCHANGED vars
  BY <1>5 DEF Restart, vars
<1>6. QED
  BY <1>0, <1>1, <1>2, <1>3, <1>4, <1>5 DEF Next

LEMMA StageInit == Init => StageInv
<1> SUFFICES ASSUME Init PROVE StageInv
  OBVIOUS
<1>1. ASSUME NEW t \in Threads
      PROVE  /\ pc[t] = "idle" /\ wf[t] = NoState
             /\ \A k \in Kinds, g \in Targets : ~Sent(t, k, g)
  BY DEF Init, Sent, NoCall
<1>2. \A t \in Threads : StageOf(t)
  BY <1>1 DEF StageOf, UnexecutedBefore, PassedIsAnswered, VerifiedIsPassed,
     UndoIsEarned, WritesArePlanned, OutcomesAreTold, StatusIsFinal, Wrote, Kinds
<1>3. QED
  BY <1>2 DEF Init, StageInv, InFlightIsSent, OnlyNamedTargetsContained

\* The parts of StageInv about the network, for a step that posts nothing.
LEMMA NetworkUntouched ==
  ASSUME IInv, StageInv, [Next]_vars, UNCHANGED netVars
  PROVE  InFlightIsSent' /\ OnlyNamedTargetsContained'
<1>1. InFlightIsSent'
  BY DEF StageInv, InFlightIsSent, Sent, netVars
<1>2. OnlyNamedTargetsContained'
  BY ApprovedStays DEF StageInv, OnlyNamedTargetsContained, PlannedTargets, netVars
<1>3. QED
  BY <1>1, <1>2

LEMMA StageRunStep ==
  ASSUME IInv, StageInv, NEW r \in Runs, RunStep(r)
  PROVE  StageInv'
<1> USE DEF Goto, netVars
<1>0. /\ r \in Threads
      /\ pc \in [Threads -> PCs]
      /\ wf \in [Threads -> WorkflowState \cup {NoState}]
      /\ StageOf(r)
  BY DEF Threads, IInv, TInv, TypeOK, StageInv
<1>1. /\ UNCHANGED netVars
      /\ \A t \in Threads \ {r} : pc'[t] = pc[t] /\ wf'[t] = wf[t]
  BY <1>0 DEF RunStep, StartRun, Triage, Enrich, ProxyEnrich, ProposeAction,
     ApprovalGate, StorePending, Notify
<1>2. InFlightIsSent' /\ OnlyNamedTargetsContained'
  BY <1>0, <1>1, NetworkUntouched DEF Next
<1>3. \A t \in Threads \ {r} : StageOf(t)'
  BY <1>1, StageUntouched DEF StageInv
<1>4. /\ ~Wrote(r)
      /\ \A g \in Targets : ~Sent(r, "undo", g)
      /\ pc[r] \in BeforeWrite
  BY <1>0 DEF RunStep, StartRun, Triage, Enrich, ProxyEnrich, ProposeAction,
     ApprovalGate, StorePending, Notify, IInv, GateInv, NoWriteBefore, BeforeWrite,
     StageOf, UndoIsEarned
<1>5. /\ wf'[r] # NoState /\ wf'[r].execution = "none"
      /\ pc'[r] \in (BeforeWrite \cup {"handoff", "error"})
  <2>1. CASE StartRun(r)
    <3>1. PICK req \in Requests : wf' = [wf EXCEPT ![r] = NewState(r, req)]
      BY <2>1 DEF StartRun
    <3>2. NewState(r, req) # NoState /\ NewState(r, req).execution = "none"
      BY FreshState DEF NewState
    <3>3. QED
      BY <1>0, <2>1, <3>1, <3>2 DEF StartRun, BeforeWrite
  <2>2. ASSUME ~StartRun(r)
        PROVE  wf[r] \in WorkflowState /\ wf[r] # NoState /\ wf[r].execution = "none"
    <3>1. pc[r] \notin {"idle", "notFound"}
      BY <2>2 DEF RunStep, Triage, Enrich, ProxyEnrich, ProposeAction,
         ApprovalGate, StorePending, Notify
    <3>2. wf[r] \in WorkflowState /\ wf[r] # NoState
      BY <1>0, <3>1, CarriedState, Phase3Assumption DEF IInv
    <3>3. QED
      BY <1>0, <1>4, <3>2 DEF StageOf, UnexecutedBefore
  <2>3. CASE ApprovalGate(r)
    <3>1. ~StartRun(r)
      BY <2>3 DEF StartRun, ApprovalGate
    <3> DEFINE d == GateDecision(wf[r].req)
               s == [wf[r] EXCEPT !.decision = d,
                       !.status = IF d = "pending" THEN "pending_approval" ELSE @]
    <3>2. s \in WorkflowState /\ s.execution = "none"
      BY <2>2, <3>1 DEF WorkflowState, Decisions, Statuses, GateDecision
    <3>3. wf'[r] = s /\ pc'[r] \in {"pending", "execute"}
      BY <1>0, <2>3 DEF ApprovalGate, GateDecision, RouteAfterApproval
    <3>4. QED
      BY <3>2, <3>3, Phase3Assumption DEF BeforeWrite
  <2>4. CASE Triage(r) \/ Enrich(r) \/ ProxyEnrich(r) \/ ProposeAction(r)
             \/ StorePending(r) \/ Notify(r)
    <3>1. ~StartRun(r)
      BY <2>4 DEF StartRun, Triage, Enrich, ProxyEnrich, ProposeAction, StorePending,
                  Notify
    <3>2. /\ wf'[r] = wf[r]
          /\ pc'[r] \in {"enrich", "error", "handoff", "propose", "approval", "notify", "paused"}
      BY <1>0, <2>4 DEF Triage, Enrich, ProxyEnrich, ProposeAction, StorePending,
                        Notify, RouteByRisk
    <3>3. QED
      BY <2>2, <3>1, <3>2 DEF BeforeWrite
  <2>5. QED
    BY <2>1, <2>3, <2>4 DEF RunStep
<1>6. ~Wrote(r)' /\ \A g \in Targets : ~Sent(r, "act", g)' /\ ~Sent(r, "undo", g)'
  BY <1>1, <1>4 DEF Wrote, Sent
<1>7. StageOf(r)'
  BY <1>5, <1>6 DEF StageOf, UnexecutedBefore, PassedIsAnswered, VerifiedIsPassed,
     UndoIsEarned, WritesArePlanned, OutcomesAreTold, StatusIsFinal, BeforeWrite
<1>8. QED
  BY <1>2, <1>3, <1>7 DEF StageInv

LEMMA StageResume ==
  ASSUME IInv, StageInv, NEW h \in Resumes, Resume(h)
  PROVE  StageInv'
<1> USE DEF Goto, netVars
<1>0. /\ h \in Threads
      /\ pc \in [Threads -> PCs]
      /\ wf \in [Threads -> WorkflowState \cup {NoState}]
      /\ pending \in [Incidents -> WorkflowState \cup {NoState}]
      /\ Runs \subseteq Threads
      /\ StageOf(h)
  BY DEF Threads, IInv, TInv, TypeOK, StageInv
<1>1. /\ UNCHANGED netVars
      /\ pc[h] = "idle"
      /\ \A t \in Threads \ {h} : pc'[t] = pc[t] /\ wf'[t] = wf[t]
  BY <1>0 DEF Resume, ResumeFound, ResumeMissing
<1>2. InFlightIsSent' /\ OnlyNamedTargetsContained'
  BY <1>1, NetworkUntouched DEF Next
<1>3. \A t \in Threads \ {h} : StageOf(t)'
  BY <1>1, StageUntouched DEF StageInv
<1>4. \A k \in Kinds, g \in Targets : ~Sent(h, k, g)
  BY <1>0, <1>1 DEF IInv, GateInv, NoWriteBefore, BeforeWrite, Wrote, Kinds, StageOf,
     UndoIsEarned
<1>5. ~Wrote(h)' /\ \A g \in Targets : ~Sent(h, "act", g)' /\ ~Sent(h, "undo", g)'
  BY <1>1, <1>4 DEF Sent, Wrote, Kinds
<1>6. \/ wf'[h] # NoState /\ wf'[h].execution = "none" /\ pc'[h] \in {"execute", "handoff"}
      \/ wf'[h] = NoState /\ pc'[h] = "notFound"
  <2>1. CASE \E i \in Incidents : ResumeMissing(h, i)
    BY <1>0, <1>1, <2>1 DEF ResumeMissing, IInv, GateInv, IdleHasNoState
  <2>2. ASSUME NEW i \in Incidents, NEW d \in {"approved", "rejected"},
               ResumeFound(h, i, d)
        PROVE  /\ wf'[h] # NoState /\ wf'[h].execution = "none"
               /\ pc'[h] \in {"execute", "handoff"}
    <3> DEFINE s == [pending[i] EXCEPT !.decision = d]
    <3>1. pending[i] \in WorkflowState /\ pending[i] # NoState
      BY <1>0, <2>2 DEF ResumeFound
    <3>2. pending[i].run \in Threads /\ pending[i] = wf[pending[i].run]
          /\ pc[pending[i].run] \in {"notify", "paused"}
      BY <1>0, <3>1 DEF IInv, GateInv, PendingIsPaused, WorkflowState
    <3>3. pending[i].execution = "none"
      BY <3>1, <3>2 DEF StageInv, StageOf, UnexecutedBefore, BeforeWrite
    <3>4. s \in WorkflowState /\ s.execution = "none"
      BY <3>1, <3>3 DEF WorkflowState, Decisions
    <3>5. wf'[h] = s /\ pc'[h] \in {"execute", "handoff"}
      BY <1>0, <2>2 DEF ResumeFound, RouteAfterApproval
    <3>6. QED
      BY <3>4, <3>5, Phase3Assumption
  <2>3. QED
    BY <2>1, <2>2 DEF Resume
<1>7. StageOf(h)'
  BY <1>5, <1>6 DEF StageOf, UnexecutedBefore, PassedIsAnswered, VerifiedIsPassed,
     UndoIsEarned, WritesArePlanned, OutcomesAreTold, StatusIsFinal, BeforeWrite
<1>8. QED
  BY <1>2, <1>3, <1>7 DEF StageInv

\* A coroutine that moves on between its calls: the network is left alone, and
\* what it learned is in the state it carries.
LEMMA StageMove ==
  ASSUME IInv, StageInv, NEW t \in Threads, WriteStep(t), UNCHANGED netVars,
         StageOf(t)'
  PROVE  StageInv'
<1>1. InFlightIsSent' /\ OnlyNamedTargetsContained'
  BY NetworkUntouched DEF Next
<1>2. \A u \in Threads \ {t} : pc'[u] = pc[u] /\ wf'[u] = wf[u] /\ call'[u] = call[u]
  BY DEF WriteStep, StartExecute, FinishExecute, VerifyAction, StartRollback,
         FinishRollback, Handoff, Goto, netVars, IInv, TInv, TypeOK
<1>3. QED
  BY <1>1, <1>2, StageUntouched DEF StageInv

\* Beginning the calls of one kind posts each of them, and disturbs neither the
\* calls of the other kind nor those of other coroutines.
LEMMA CallsBegun ==
  ASSUME TInv, NEW t \in Threads, NEW k \in Kinds, NEW S \in SUBSET Targets,
         BeginCalls(t, k, S)
  PROVE  /\ \A g \in Targets : Sent(t, k, g)' <=> g \in S
         /\ \A j \in Kinds \ {k} : call'[t][j] = call[t][j]
         /\ \A u \in Threads \ {t} : call'[u] = call[u]
         /\ \A m \in inflight' :
              \/ m \in inflight
              \/ m.thread = t /\ m.kind = k /\ m.target \in S
<1> DEFINE F == [g \in Targets |-> IF g \in S THEN Waiting(1) ELSE NoCall]
<1>1. call' = [call EXCEPT ![t][k] = F]
  BY DEF BeginCalls
<1>2. \A g \in Targets : F[g].n > 0 <=> g \in S
  BY DEF Waiting, NoCall
<1> HIDE DEF F
<1>3. call'[t][k] = F
  BY <1>1 DEF TInv, TypeOK
<1>4. \A g \in Targets : Sent(t, k, g)' <=> g \in S
  BY <1>2, <1>3 DEF Sent
<1>5. /\ \A j \in Kinds \ {k} : call'[t][j] = call[t][j]
      /\ \A u \in Threads \ {t} : call'[u] = call[u]
  BY <1>1 DEF TInv, TypeOK
<1>6. QED
  BY <1>4, <1>5 DEF BeginCalls, Post

LEMMA StageWriteStep ==
  ASSUME IInv, StageInv, NEW t \in Threads, WriteStep(t)
  PROVE  StageInv'
<1> USE DEF Goto, netVars
<1>0. /\ pc \in [Threads -> PCs]
      /\ wf \in [Threads -> WorkflowState \cup {NoState}]
      /\ wf[t] \in WorkflowState /\ wf[t] # NoState
      /\ wf[t].req.target \in Targets /\ PlannedTargets(wf[t]) \subseteq Targets
      /\ TInv /\ StageOf(t)
  <2>1. pc[t] \notin {"idle", "notFound"}
    BY DEF WriteStep, StartExecute, FinishExecute, VerifyAction, StartRollback,
           FinishRollback, Handoff
  <2>2. wf[t] \in WorkflowState
    BY <2>1, CarriedState DEF IInv
  <2>3. QED
    BY <2>2, RequestFields, Phase3Assumption DEF IInv, TInv, TypeOK, StageInv
<1>s. ASSUME UNCHANGED call
      PROVE  /\ \A k \in Kinds, g \in Targets : Sent(t, k, g)' <=> Sent(t, k, g)
             /\ Wrote(t)' <=> Wrote(t)
             /\ \A S : AllPassed(t, "act", S)' <=> AllPassed(t, "act", S)
  BY <1>s DEF Sent, Wrote, AllPassed
<1>1. CASE StartExecute(t)
  <2> DEFINE S == PlannedTargets(wf[t])
  <2>1. /\ pc[t] = "execute" /\ pc' = [pc EXCEPT ![t] = "executing"]
        /\ BeginCalls(t, "act", S) /\ UNCHANGED <<wf, rules>>
    BY <1>1 DEF StartExecute
  <2>2. /\ \A g \in Targets : Sent(t, "act", g)' <=> g \in S
        /\ call'[t]["undo"] = call[t]["undo"]
        /\ \A u \in Threads \ {t} : call'[u] = call[u]
        /\ \A m \in inflight' :
             m \in inflight \/ (m.thread = t /\ m.kind = "act" /\ m.target \in S)
    BY <1>0, <2>1, CallsBegun DEF Kinds
  <2>3. wf[t].execution = "none" /\ \A g \in Targets : ~Sent(t, "undo", g)
    BY <1>0, <2>1 DEF StageOf, UnexecutedBefore, UndoIsEarned, BeforeWrite
  <2>4. /\ pc'[t] = "executing" /\ wf'[t] = wf[t]
        /\ \A g \in Targets : ~Sent(t, "undo", g)'
    BY <1>0, <2>1, <2>2, <2>3 DEF Sent
  <2>5. StageOf(t)'
    BY <1>0, <2>2, <2>3, <2>4 DEF StageOf, UnexecutedBefore, PassedIsAnswered,
       VerifiedIsPassed, UndoIsEarned, WritesArePlanned, OutcomesAreTold,
       StatusIsFinal, BeforeWrite, PlannedTargets
  <2>6. \A u \in Threads : StageOf(u)'
    BY <1>0, <2>1, <2>2, <2>5, StageUntouched DEF StageInv
  <2>7. InFlightIsSent'
    <3> SUFFICES ASSUME NEW m \in inflight' PROVE Sent(m.thread, m.kind, m.target)'
      BY DEF InFlightIsSent
    <3>1. CASE m \in inflight
      <4>1. Sent(m.thread, m.kind, m.target) /\ m \in Message
        BY <3>1 DEF StageInv, InFlightIsSent, IInv, TInv, TypeOK
      <4>2. CASE m.thread = t /\ m.kind = "act"
        BY <1>1, <2>1, <4>1, <4>2 DEF IInv, GateInv, NoWriteBefore, BeforeWrite,
                                      Wrote, Message
      <4>3. CASE m.thread = t /\ m.kind = "undo"
        BY <2>2, <4>1, <4>3 DEF Sent
      <4>4. CASE m.thread # t
        BY <2>2, <4>1, <4>4 DEF Sent, Message
      <4>5. QED
        BY <4>1, <4>2, <4>3, <4>4 DEF Message, Kinds
    <3>2. CASE m.thread = t /\ m.kind = "act" /\ m.target \in S
      BY <1>0, <2>2, <3>2
    <3>3. QED
      BY <2>2, <3>1, <3>2
  <2>8. OnlyNamedTargetsContained'
    BY <2>1 DEF StageInv, OnlyNamedTargetsContained, PlannedTargets
  <2>9. QED
    BY <2>6, <2>7, <2>8 DEF StageInv
<1>2. CASE FinishExecute(t)
  <2> DEFINE e == Outcome(AllPassed(t, "act", PlannedTargets(wf[t])))
             s == [wf[t] EXCEPT !.execution = e]
             label == RouteAfterExecute(e)
  <2>1. /\ e \in {"passed", "failed"}
        /\ e = "passed" => AllPassed(t, "act", PlannedTargets(wf[t]))
    BY DEF Outcome
  <2>2. /\ label \in {"handoff", "verify"}
        /\ label = "verify" => e = "passed"
    BY <2>1 DEF RouteAfterExecute
  <2>3. /\ s \in WorkflowState /\ s.execution = e /\ s.req = wf[t].req
        /\ PlannedTargets(s) = PlannedTargets(wf[t])
    BY <1>0, <2>1 DEF WorkflowState, Outcomes, PlannedTargets
  <2>4. /\ pc[t] = "executing" /\ pc'[t] = label /\ wf'[t] = s
        /\ UNCHANGED netVars
    BY <1>0, <1>2 DEF FinishExecute
  <2>5. \A g \in Targets : ~Sent(t, "undo", g)
    BY <1>0, <2>4 DEF StageOf, UndoIsEarned
  <2> HIDE DEF e, s, label
  <2>6. PlannedTargets(wf[t])' = PlannedTargets(wf[t])
    BY <2>3, <2>4 DEF PlannedTargets
  <2>7. StageOf(t)'
    BY <1>0, <1>s, <2>1, <2>2, <2>3, <2>4, <2>5, <2>6, Phase3Assumption
       DEF StageOf, UnexecutedBefore, PassedIsAnswered,
       VerifiedIsPassed, UndoIsEarned, WritesArePlanned, OutcomesAreTold,
       StatusIsFinal, BeforeWrite, Kinds
  <2>8. QED
    BY <2>4, <2>7, StageMove
<1>3. CASE VerifyAction(t)
  <2>1. PICK v \in {"passed", "failed"}, seen \in BOOLEAN :
          /\ wf' = [wf EXCEPT ![t].verify = v, ![t].confirmed = seen]
          /\ pc' = [pc EXCEPT ![t] = RouteAfterVerify(v)]
    BY <1>3 DEF VerifyAction
  <2> DEFINE s == [wf[t] EXCEPT !.verify = v, !.confirmed = seen]
  <2>2. /\ s \in WorkflowState /\ s.verify = v /\ s.req = wf[t].req
        /\ s.execution = wf[t].execution
    BY <1>0 DEF WorkflowState, Outcomes
  <2>3. /\ pc[t] = "verify" /\ wf'[t] = s
        /\ pc'[t] = IF v = "failed" THEN "rollback" ELSE "handoff"
        /\ UNCHANGED netVars
    BY <1>0, <1>3, <2>1 DEF VerifyAction, RouteAfterVerify
  <2>4. wf[t].execution = "passed" /\ \A g \in Targets : ~Sent(t, "undo", g)
    BY <1>0, <2>3 DEF StageOf, VerifiedIsPassed, UndoIsEarned
  <2> HIDE DEF s
  <2>5. PlannedTargets(wf[t])' = PlannedTargets(wf[t])
    BY <2>2, <2>3 DEF PlannedTargets
  <2>6. StageOf(t)'
    BY <1>0, <1>s, <2>2, <2>3, <2>4, <2>5, Phase3Assumption
       DEF StageOf, UnexecutedBefore, PassedIsAnswered,
       VerifiedIsPassed, UndoIsEarned, WritesArePlanned, OutcomesAreTold,
       StatusIsFinal, BeforeWrite, Kinds
  <2>7. QED
    BY <2>3, <2>6, StageMove
<1>4. CASE StartRollback(t)
  <2> DEFINE S == {wf[t].req.target}
  <2>1. /\ pc[t] = "rollback" /\ pc' = [pc EXCEPT ![t] = "undoing"]
        /\ BeginCalls(t, "undo", S) /\ UNCHANGED <<wf, rules>>
    BY <1>4 DEF StartRollback
  <2>2. /\ \A g \in Targets : Sent(t, "undo", g)' <=> g \in S
        /\ call'[t]["act"] = call[t]["act"]
        /\ \A u \in Threads \ {t} : call'[u] = call[u]
        /\ \A m \in inflight' :
             m \in inflight \/ (m.thread = t /\ m.kind = "undo" /\ m.target \in S)
    BY <1>0, <2>1, CallsBegun DEF Kinds
  <2>3. /\ wf[t].execution = "passed" /\ wf[t].verify = "failed"
        /\ \A g \in Targets : ~Sent(t, "undo", g)
    BY <1>0, <2>1 DEF StageOf, VerifiedIsPassed, UndoIsEarned
  <2>4. /\ pc'[t] = "undoing" /\ wf'[t] = wf[t]
        /\ \A g \in Targets : Sent(t, "act", g)' <=> Sent(t, "act", g)
        /\ AllPassed(t, "act", PlannedTargets(wf[t]))'
             <=> AllPassed(t, "act", PlannedTargets(wf[t]))
    BY <1>0, <2>1, <2>2 DEF Sent, AllPassed, PlannedTargets
  <2>5. StageOf(t)'
    BY <1>0, <2>2, <2>3, <2>4 DEF StageOf, UnexecutedBefore, PassedIsAnswered,
       VerifiedIsPassed, UndoIsEarned, WritesArePlanned, OutcomesAreTold,
       StatusIsFinal, BeforeWrite, PlannedTargets
  <2>6. \A u \in Threads : StageOf(u)'
    BY <1>0, <2>1, <2>2, <2>5, StageUntouched DEF StageInv
  <2>7. InFlightIsSent'
    <3> SUFFICES ASSUME NEW m \in inflight' PROVE Sent(m.thread, m.kind, m.target)'
      BY DEF InFlightIsSent
    <3>1. CASE m \in inflight
      <4>1. Sent(m.thread, m.kind, m.target) /\ m \in Message
        BY <3>1 DEF StageInv, InFlightIsSent, IInv, TInv, TypeOK
      <4>2. CASE m.thread = t /\ m.kind = "undo"
        BY <2>3, <4>1, <4>2 DEF Message
      <4>3. CASE m.thread = t /\ m.kind = "act"
        BY <2>2, <4>1, <4>3 DEF Sent
      <4>4. CASE m.thread # t
        BY <2>2, <4>1, <4>4 DEF Sent, Message
      <4>5. QED
        BY <4>1, <4>2, <4>3, <4>4 DEF Message, Kinds
    <3>2. CASE m.thread = t /\ m.kind = "undo" /\ m.target \in S
      BY <1>0, <2>2, <3>2
    <3>3. QED
      BY <2>2, <3>1, <3>2
  <2>8. OnlyNamedTargetsContained'
    BY <2>1 DEF StageInv, OnlyNamedTargetsContained, PlannedTargets
  <2>9. QED
    BY <2>6, <2>7, <2>8 DEF StageInv
<1>5. CASE FinishRollback(t)
  <2> DEFINE e == Outcome(AllPassed(t, "undo", {wf[t].req.target}))
             s == [wf[t] EXCEPT !.rollback = e]
  <2>1. e \in {"passed", "failed"}
    BY DEF Outcome
  <2>2. /\ s \in WorkflowState /\ s.rollback = e /\ s.req = wf[t].req
        /\ s.execution = wf[t].execution /\ s.verify = wf[t].verify
    BY <1>0, <2>1 DEF WorkflowState, Outcomes
  <2>3. /\ pc[t] = "undoing" /\ pc'[t] = "handoff" /\ wf'[t] = s
        /\ UNCHANGED netVars
    BY <1>0, <1>5 DEF FinishRollback
  <2>4. wf[t].execution = "passed" /\ wf[t].verify = "failed"
    BY <1>0, <2>3 DEF StageOf, VerifiedIsPassed
  <2> HIDE DEF e, s
  <2>5. PlannedTargets(wf[t])' = PlannedTargets(wf[t])
    BY <2>2, <2>3 DEF PlannedTargets
  <2>6. StageOf(t)'
    BY <1>0, <1>s, <2>1, <2>2, <2>3, <2>4, <2>5, Phase3Assumption
       DEF StageOf, UnexecutedBefore, PassedIsAnswered,
       VerifiedIsPassed, UndoIsEarned, WritesArePlanned, OutcomesAreTold,
       StatusIsFinal, BeforeWrite, Kinds
  <2>7. QED
    BY <2>3, <2>6, StageMove
<1>6. CASE Handoff(t)
  <2>1. pc[t] = "handoff" /\ UNCHANGED netVars
    BY <1>6 DEF Handoff
  <2>2. CASE pc'[t] = "error" /\ wf'[t] = wf[t]
    <3>1. StageOf(t)'
      BY <1>0, <1>s, <2>1, <2>2 DEF StageOf, UnexecutedBefore, PassedIsAnswered,
         VerifiedIsPassed, UndoIsEarned, WritesArePlanned, OutcomesAreTold,
         StatusIsFinal, BeforeWrite, Kinds, PlannedTargets
    <3>2. QED
      BY <2>1, <3>1, StageMove
  <2>3. CASE pc'[t] = "done" /\ wf'[t] = [wf[t] EXCEPT !.status = FinalStatus(wf[t])]
    <3> DEFINE s == [wf[t] EXCEPT !.status = FinalStatus(wf[t])]
    <3>1. FinalStatus(wf[t]) \in Statuses
      BY DEF FinalStatus, Statuses
    <3>2. /\ s \in WorkflowState /\ s.rollback = wf[t].rollback /\ s.req = wf[t].req
          /\ s.execution = wf[t].execution /\ s.verify = wf[t].verify
          /\ s.decision = wf[t].decision /\ s.status = FinalStatus(wf[t])
      BY <1>0, <3>1 DEF WorkflowState
    <3>3. wf'[t] = s
      BY <2>3
    <3> HIDE DEF s
    <3>4. /\ PlannedTargets(wf[t])' = PlannedTargets(wf[t])
          /\ FinalStatus(wf[t])' = FinalStatus(wf[t])
      BY <3>2, <3>3 DEF PlannedTargets, FinalStatus
    <3>5. StageOf(t)'
      BY <1>0, <1>s, <2>1, <2>3, <3>2, <3>3, <3>4, Phase3Assumption
         DEF StageOf, UnexecutedBefore, PassedIsAnswered,
         VerifiedIsPassed, UndoIsEarned, WritesArePlanned, OutcomesAreTold,
         StatusIsFinal, BeforeWrite, Kinds
    <3>6. QED
      BY <2>1, <3>5, StageMove
  <2>4. QED
    BY <1>0, <1>6, <2>2, <2>3 DEF Handoff
<1>7. QED
  BY <1>1, <1>2, <1>3, <1>4, <1>5, <1>6 DEF WriteStep

LEMMA StageNet ==
  ASSUME IInv, StageInv, NEW m \in Message, Serve(m) \/ Timeout(m)
  PROVE  StageInv'
<1>0. /\ UNCHANGED <<pc, wf>>
      /\ m.thread \in Threads /\ m.kind \in Kinds /\ m.target \in Targets
  BY DEF Serve, Timeout, Message
<1>1. /\ \A t \in Threads, k \in Kinds, g \in Targets :
           /\ Sent(t, k, g)' <=> Sent(t, k, g)
           /\ call[t][k][g].res = "ok" => call'[t][k][g].res = "ok"
      /\ \A p \in inflight' :
           \/ p \in inflight
           \/ /\ p.thread = m.thread /\ p.kind = m.kind /\ p.target = m.target
              /\ Sent(m.thread, m.kind, m.target)
  BY CallsContinue DEF IInv
<1>2. ASSUME NEW t \in Threads
      PROVE  StageOf(t)'
  <2>1. /\ StageOf(t)
        /\ wf[t] # NoState => PlannedTargets(wf[t]) \subseteq Targets
    BY RequestFields DEF StageInv, IInv, TInv, TypeOK
  <2>2. wf[t] # NoState =>
          (AllPassed(t, "act", PlannedTargets(wf[t])) =>
             AllPassed(t, "act", PlannedTargets(wf[t]))')
    BY <1>0, <1>1, <2>1 DEF AllPassed, Kinds, PlannedTargets
  <2>3. QED
    BY <1>0, <1>1, <2>1, <2>2 DEF StageOf, UnexecutedBefore, PassedIsAnswered,
       VerifiedIsPassed, UndoIsEarned, WritesArePlanned, OutcomesAreTold,
       StatusIsFinal, Wrote, Kinds
<1>3. InFlightIsSent'
  BY <1>0, <1>1 DEF StageInv, InFlightIsSent, IInv, TInv, TypeOK, Message
<1>4. OnlyNamedTargetsContained'
  <2> SUFFICES ASSUME NEW g \in Targets, rules'[g] > 0
               PROVE  \E t \in Threads : /\ wf[t] # NoState
                                         /\ wf[t].decision = "approved"
                                         /\ g \in PlannedTargets(wf[t])
    BY <1>0 DEF OnlyNamedTargetsContained, PlannedTargets
  <2>1. CASE rules[g] > 0
    BY <2>1 DEF StageInv, OnlyNamedTargetsContained
  <2>2. CASE ~(rules[g] > 0)
    <3>1. rules[g] = 0
      BY <2>2 DEF IInv, TInv, TypeOK
    <3>2. Serve(m) /\ m.kind = "act" /\ m.target = g
      BY <1>0, <3>1 DEF Serve, Timeout, Effect, IInv, TInv, TypeOK, Kinds
    <3>3. Sent(m.thread, "act", g)
      BY <3>2 DEF Serve, StageInv, InFlightIsSent
    <3>4. g \in PlannedTargets(wf[m.thread])
      BY <1>0, <3>3 DEF StageInv, StageOf, WritesArePlanned
    <3>5. wf[m.thread] # NoState /\ wf[m.thread].decision = "approved"
      BY <1>0, <3>3 DEF IInv, GateInv, WritesAreApproved, Wrote
    <3>6. QED
      BY <1>0, <3>4, <3>5
  <2>3. QED
    BY <2>1, <2>2
<1>5. QED
  BY <1>2, <1>3, <1>4 DEF StageInv

LEMMA StageRestart == IInv /\ StageInv /\ Restart => StageInv'
<1> SUFFICES ASSUME IInv, StageInv, Restart PROVE StageInv'
  OBVIOUS
<1>1. /\ UNCHANGED <<wf, call, inflight, rules>>
      /\ \A t \in Threads : pc'[t] = pc[t] \/ pc'[t] = "crashed"
  BY DEF Restart, netVars
<1>2. InFlightIsSent' /\ OnlyNamedTargetsContained'
  BY <1>1, NetworkUntouched DEF Next, netVars
<1>3. ASSUME NEW t \in Threads PROVE StageOf(t)'
  BY <1>1 DEF StageInv, StageOf, UnexecutedBefore, PassedIsAnswered,
       VerifiedIsPassed, UndoIsEarned, WritesArePlanned, OutcomesAreTold,
       StatusIsFinal, Wrote, Sent, AllPassed, PlannedTargets, BeforeWrite
<1>4. QED
  BY <1>2, <1>3 DEF StageInv

LEMMA StageNext == IInv /\ StageInv /\ [Next]_vars => StageInv'
<1> SUFFICES ASSUME IInv, StageInv, [Next]_vars PROVE StageInv'
  OBVIOUS
<1>1. inflight \subseteq Message
  BY DEF IInv, TInv, TypeOK
<1>2. CASE Next
  BY <1>1, <1>2, StageRunStep, StageResume, StageWriteStep, StageNet, StageRestart
     DEF Next
<1>3. CASE UNCHANGED vars
  <2>1. \A t \in Threads : StageOf(t)'
    BY <1>3, StageUntouched DEF vars, StageInv
  <2>2. QED
    BY <1>3, <2>1 DEF vars, StageInv, InFlightIsSent, OnlyNamedTargetsContained,
                      Sent, PlannedTargets
<1>4. QED
  BY <1>2, <1>3

LEMMA StageInvariant == Spec => [](IInv /\ StageInv)
<1>1. Init => IInv /\ StageInv
  BY TypeInit, GateInit0, StageInit DEF IInv
<1>2. IInv /\ StageInv /\ [Next]_vars => (IInv /\ StageInv)'
  BY GatePreserved, StageNext
<1>3. QED
  BY <1>1, <1>2, PTL DEF Spec

\* A rollback is sent only after every planned call was answered and the
\* verification failed, for the primary target; and a target is contained only
\* if an approved run named it.
THEOREM RollbacksStayEarned == Spec => []RollbacksAreEarned
<1>1. IInv /\ StageInv => RollbacksAreEarned
  BY DEF StageInv, StageOf, UndoIsEarned, PassedIsAnswered, RollbacksAreEarned,
         UndoAfterFailedVerify
<1>2. QED
  BY <1>1, StageInvariant, PTL

\* The status a request reports agrees with what was sent for its run, by any
\* coroutine that carries the run.
THEOREM StatusStaysTrue == Spec => []StatusTellsWhatRan
<1>1. ASSUME IInv, StageInv, NEW t \in Threads, pc[t] = "done"
      PROVE  /\ wf[t].status \in {"completed_rejected", "completed_read_only"} =>
                  \A u \in Threads : Carries(u, wf[t].run) => ~Wrote(u)
             /\ wf[t].status = "completed_actioned" =>
                  /\ AllPassed(t, "act", PlannedTargets(wf[t]))
                  /\ \A g \in Targets : ~Sent(t, "undo", g)
  <2>1. /\ wf[t] \in WorkflowState /\ wf[t] # NoState
        /\ wf[t].run \in Runs /\ StageOf(t)
    BY <1>1, CarriedState, Phase3Assumption DEF IInv, StageInv, WorkflowState
  <2>2. wf[t].status = FinalStatus(wf[t])
    BY <1>1, <2>1 DEF StageOf, StatusIsFinal
  <2>3. ASSUME wf[t].status \in {"completed_rejected", "completed_read_only"}
        PROVE  ~Wrote(t)
    <3>1. wf[t].execution = "none" \/ wf[t].decision = "rejected"
      BY <2>1, <2>2, <2>3 DEF FinalStatus, WorkflowState, Outcomes
    <3>2. QED
      BY <1>1, <2>1, <3>1 DEF StageOf, OutcomesAreTold, IInv, GateInv,
                              WritesAreApproved
  <2>4. ASSUME ~Wrote(t), NEW u \in Threads, Carries(u, wf[t].run)
        PROVE  ~Wrote(u)
    <3>1. CASE t \in Runs
      <4>1. wf[t].run = t /\ \A h \in Resumes : ~Carries(h, t)
        BY <1>1, <2>1, <3>1 DEF IInv, GateInv, OwnRun, TakenIsPaused
      <4>2. u = t
        BY <1>1, <2>4, <4>1 DEF Threads, IInv, GateInv, OwnRun, Carries
      <4>3. QED
        BY <1>1, <2>4, <4>2
    <3>2. CASE t \in Resumes
      <4>1. Carries(t, wf[t].run)
        BY <1>1, <2>1 DEF Carries
      <4>2. CASE u \in Resumes
        BY <1>1, <2>1, <2>4, <3>2, <4>1, <4>2 DEF IInv, GateInv, OneDecisionPerPause
      <4>3. CASE u \in Runs
        <5>1. u = wf[t].run
          BY <1>1, <2>4, <4>3 DEF IInv, GateInv, OwnRun, Carries
        <5>2. wf[u].decision = "pending"
          BY <1>1, <2>1, <3>2, <4>1, <5>1 DEF IInv, GateInv, TakenIsPaused
        <5>3. QED
          BY <1>1, <5>2 DEF IInv, GateInv, WritesAreApproved
      <4>4. QED
        BY <4>2, <4>3 DEF Threads
    <3>3. QED
      BY <3>1, <3>2 DEF Threads
  <2>5. ASSUME wf[t].status = "completed_actioned"
        PROVE  /\ AllPassed(t, "act", PlannedTargets(wf[t]))
               /\ \A g \in Targets : ~Sent(t, "undo", g)
    <3>1. wf[t].execution = "passed" /\ wf[t].rollback = "none"
      BY <2>1, <2>2, <2>5 DEF FinalStatus, WorkflowState, Outcomes
    <3>2. QED
      BY <1>1, <2>1, <3>1 DEF StageOf, PassedIsAnswered, OutcomesAreTold
  <2>6. QED
    BY <2>3, <2>4, <2>5
<1>2. IInv /\ StageInv => StatusTellsWhatRan
  BY <1>1 DEF StatusTellsWhatRan
<1>3. QED
  BY <1>2, StageInvariant, PTL
-----------------------------------------------------------------------------
(* The workflow implements the abstract guarded write: each step of the      *)
(* graph is a step of GuardedWrite or leaves its gates alone.                *)

\* Who has called the write tools of a run: the abstract `executors'.
Writers(r) == {t \in Threads : Carries(t, r) /\ Wrote(t)}

\* What the inductive invariant says of a run's gate before and at a pause.
LEMMA GateFacts ==
  ASSUME IInv, NEW r \in Runs
  PROVE  /\ pc[r] \in {"idle", "triage", "enrich", "propose", "approval", "pending"}
              => ~Released(r) /\ ~Held(r) /\ ~GivenUp(r)
         /\ Held(r) => ~Released(r) /\ GivenUp(r)
<1> USE DEF Carries
<1>0. /\ Runs \subseteq Threads /\ Threads = Runs \cup Resumes
      /\ NoState \notin WorkflowState
      /\ wf \in [Threads -> WorkflowState \cup {NoState}]
      /\ \A t \in Runs : wf[t] # NoState => wf[t].run = t
      /\ OwnRun /\ PendingIsPaused /\ TakenIsPaused /\ StoredIsPending
      /\ UndecidedBefore /\ IdleHasNoState
      /\ pending \in [Incidents -> WorkflowState \cup {NoState}]
  BY Phase3Assumption DEF Threads, IInv, TInv, TypeOK, GateInv, OwnRun
<1>1. ASSUME pc[r] \in {"idle", "triage", "enrich", "propose", "approval", "pending"}
      PROVE  ~Released(r) /\ ~Held(r) /\ ~GivenUp(r)
  <2>1. \A t \in Threads : Carries(t, r) => t = r
    BY <1>0, <1>1 DEF TakenIsPaused
  <2>2. wf[r] # NoState => wf[r].decision \in {"none", "pending"}
    BY <1>0, <1>1 DEF UndecidedBefore, StoredIsPending, IdleHasNoState
  <2>3. ~Released(r)
    BY <1>0, <2>1, <2>2 DEF Released
  <2>4. ~Held(r)
    BY <1>0, <1>1 DEF Held, PendingIsPaused
  <2>5. ~GivenUp(r)
    BY <1>0, <1>1 DEF GivenUp, UndecidedBefore, IdleHasNoState
  <2>6. QED
    BY <2>3, <2>4, <2>5
<1>2. ASSUME Held(r)
      PROVE  ~Released(r) /\ GivenUp(r)
  <2>1. PICK i \in Incidents : pending[i] # NoState /\ pending[i].run = r
    BY <1>2 DEF Held
  <2>2. /\ wf[r] = pending[i] /\ pc[r] \in {"notify", "paused"}
        /\ \A h \in Resumes : ~Carries(h, r)
    BY <1>0, <2>1 DEF PendingIsPaused
  <2>3. wf[r].decision = "pending"
    BY <1>0, <2>2 DEF StoredIsPending
  <2>4. \A t \in Threads : Carries(t, r) => t = r
    BY <1>0, <2>2
  <2>5. QED
    BY <1>0, <2>1, <2>2, <2>3, <2>4 DEF Released, GivenUp
<1>3. QED
  BY <1>1, <1>2

LEMMA SameGate ==
  ASSUME NEW r, Released(r)' <=> Released(r), Held(r)' <=> Held(r),
         GivenUp(r)' <=> GivenUp(r)
  PROVE  GateOf(r)' = GateOf(r)
BY DEF GateOf

\* A step of a run that leaves the store alone leaves the gates of the other
\* runs alone.
LEMMA OtherGates ==
  ASSUME IInv, IInv', NEW r \in Runs, NEW q \in Runs, q # r,
         \A t \in Threads : t # r => wf'[t] = wf[t] /\ pc'[t] = pc[t]
  PROVE  /\ Released(q)' <=> Released(q)
         /\ GivenUp(q)' <=> GivenUp(q)
         /\ \A t \in Threads : Carries(t, q)' <=> Carries(t, q)
<1>1. Runs \subseteq Threads
  BY DEF Threads
<1>2. OwnRun /\ OwnRun'
  BY DEF IInv, GateInv
<1>3. ~Carries(r, q) /\ ~Carries(r, q)'
  BY <1>2 DEF OwnRun, Carries
<1>4. \A t \in Threads : Carries(t, q)' <=> Carries(t, q)
  BY <1>3 DEF Carries
<1>5. Released(q)' <=> Released(q)
  BY <1>3, <1>4 DEF Released
<1>6. GivenUp(q)' <=> GivenUp(q)
  BY <1>1, <1>4 DEF GivenUp
<1>7. QED
  BY <1>4, <1>5, <1>6

LEMMA SameWriters ==
  ASSUME NEW r, \A t \in Threads : Carries(t, r)' <=> Carries(t, r),
         \A t \in Threads : Wrote(t)' <=> Wrote(t)
  PROVE  Writers(r)' = Writers(r)
<1>1. Threads' = Threads
  BY DEF Threads
<1>2. QED
  BY <1>1 DEF Writers

LEMMA StutterStep ==
  ASSUME \A r \in Runs : GateOf(r)' = GateOf(r) /\ Writers(r)' = Writers(r)
  PROVE  UNCHANGED Guarded!gvars
BY DEF Guarded!gvars, Writers

\* The steps of a run that neither decide nor store it.
LEMMA PlainRunStep ==
  ASSUME IInv, IInv', NEW r \in Runs,
         StartRun(r) \/ Triage(r) \/ Enrich(r) \/ ProxyEnrich(r)
           \/ ProposeAction(r) \/ Notify(r)
           \/ (ApprovalGate(r) /\ GateDecision(wf[r].req) = "pending")
  PROVE  UNCHANGED Guarded!gvars
<1> USE DEF Goto, netVars
<1>0. r \in Threads /\ pc \in [Threads -> PCs]
      /\ wf \in [Threads -> WorkflowState \cup {NoState}]
  BY DEF Threads, IInv, TInv, TypeOK
<1>1. /\ UNCHANGED <<call, pending>>
      /\ \A t \in Threads : t # r => wf'[t] = wf[t] /\ pc'[t] = pc[t]
  BY <1>0 DEF StartRun, Triage, Enrich, ProxyEnrich, ProposeAction, Notify, ApprovalGate
<1>2. \A t \in Threads : Wrote(t)' <=> Wrote(t)
  BY <1>1 DEF Wrote, Sent
<1>3. \A q \in Runs : Held(q)' <=> Held(q)
  BY <1>1 DEF Held
<1>4. ASSUME NEW q \in Runs, q # r
      PROVE  GateOf(q)' = GateOf(q) /\ Writers(q)' = Writers(q)
  BY <1>1, <1>2, <1>3, <1>4, OtherGates, SameGate, SameWriters
<1>5. GateOf(r)' = GateOf(r) /\ Writers(r)' = Writers(r)
  <2>1. CASE Notify(r)
    <3>1. /\ UNCHANGED wf /\ pc[r] = "notify" /\ pc'[r] = "paused"
      BY <1>0, <2>1 DEF Notify
    <3>2. \A t \in Threads : Carries(t, r)' <=> Carries(t, r)
      BY <3>1 DEF Carries
    <3>3. (Released(r)' <=> Released(r)) /\ (GivenUp(r)' <=> GivenUp(r))
      BY <1>0, <3>1, <3>2 DEF Released, GivenUp
    <3>4. QED
      BY <1>2, <1>3, <3>2, <3>3, SameGate, SameWriters
  <2>2. CASE ~Notify(r)
    <3>1. pc[r] \in {"idle", "triage", "enrich", "propose", "approval"}
      BY <2>2 DEF StartRun, Triage, Enrich, ProxyEnrich, ProposeAction, ApprovalGate
    <3>2. \A t \in Threads \ {r} : ~Carries(t, r) /\ ~Carries(t, r)'
      <4>1. OwnRun /\ TakenIsPaused
        BY DEF IInv, GateInv
      <4>2. \A t \in Threads \ {r} : ~Carries(t, r)
        BY <3>1, <4>1 DEF OwnRun, TakenIsPaused, Carries, Threads
      <4>3. QED
        BY <1>1, <4>2 DEF Carries
    <3>3. ~Wrote(r) /\ ~Wrote(r)'
      BY <1>0, <1>2, <3>1 DEF IInv, GateInv, NoWriteBefore, BeforeWrite
    <3>4. Writers(r) = {} /\ Writers(r)' = {}
      BY <1>0, <3>2, <3>3 DEF Writers, Threads
    <3>5. GateOf(r) = "closed"
      BY <3>1, GateFacts DEF GateOf
    <3>6. ~Released(r) /\ ~Held(r)
      BY <3>1, GateFacts
    <3>7. pc'[r] \in {"triage", "enrich", "propose", "approval", "pending", "error", "handoff"}
      BY <1>0, <2>2 DEF StartRun, Triage, Enrich, ProxyEnrich, ProposeAction,
         ApprovalGate, RouteByRisk, RouteAfterApproval
    <3>8. ~Released(r)'
      <4>1. wf'[r].decision # "approved"
        <5>1. CASE StartRun(r)
          BY <1>0, <5>1, FreshState DEF StartRun
        <5>2. CASE ApprovalGate(r)
          <6>0. GateDecision(wf[r].req) = "pending"
            BY <2>2, <5>2 DEF StartRun, Triage, Enrich, ProxyEnrich,
               ProposeAction, ApprovalGate
          <6>1. wf[r] \in WorkflowState
            BY <1>0, <5>2, CarriedState DEF ApprovalGate, IInv
          <6>2. QED
            BY <1>0, <5>2, <6>0, <6>1 DEF ApprovalGate, WorkflowState
        <5>3. CASE ~StartRun(r) /\ ~ApprovalGate(r)
          <6>1. UNCHANGED wf /\ pc[r] \in {"triage", "enrich", "propose"}
            BY <2>2, <5>3 DEF Triage, Enrich, ProxyEnrich, ProposeAction
          <6>2. QED
            BY <1>0, <6>1 DEF IInv, GateInv, UndecidedBefore
        <5>4. QED
          BY <5>1, <5>2, <5>3
      <4>2. QED
        BY <3>2, <4>1 DEF Released, Threads
    <3>9. ~GivenUp(r)'
      <4>1. CASE pc'[r] \in {"triage", "enrich", "propose", "approval", "pending"}
        BY <1>0, <4>1 DEF IInv, GateInv, UndecidedBefore, GivenUp
      <4>2. CASE pc'[r] \in {"error", "handoff"}
        <5>1. /\ UNCHANGED wf /\ pc[r] \in {"triage", "enrich"}
          BY <1>0, <2>2, <4>2 DEF StartRun, Triage, Enrich, ProxyEnrich,
             ProposeAction, ApprovalGate, RouteByRisk, RouteAfterApproval
        <5>2. wf'[r].decision # "pending"
          BY <1>0, <5>1 DEF IInv, GateInv, UndecidedBefore
        <5>3. QED
          BY <4>2, <5>2 DEF GivenUp
      <4>3. QED
        BY <3>7, <4>1, <4>2
    <3>10. QED
      BY <1>3, <3>4, <3>5, <3>6, <3>8, <3>9 DEF GateOf
  <2>3. QED
    BY <2>1, <2>2
<1>6. QED
  BY <1>4, <1>5, StutterStep

\* auto_approve opens the gate.
LEMMA AutoApproveOpens ==
  ASSUME IInv, IInv', NEW r \in Runs, ApprovalGate(r),
         GateDecision(wf[r].req) = "approved"
  PROVE  Guarded!Grant(r)
<1>0. r \in Threads /\ pc \in [Threads -> PCs]
      /\ wf \in [Threads -> WorkflowState \cup {NoState}]
      /\ wf[r] \in WorkflowState
  BY CarriedState DEF Threads, IInv, TInv, TypeOK, ApprovalGate
<1>1. /\ UNCHANGED <<call, pending>> /\ pc[r] = "approval"
      /\ \A t \in Threads : t # r => wf'[t] = wf[t] /\ pc'[t] = pc[t]
      /\ wf'[r].decision = "approved"
  BY <1>0 DEF ApprovalGate, Goto, netVars, WorkflowState
<1>2. \A t \in Threads : Wrote(t)' <=> Wrote(t)
  BY <1>1 DEF Wrote, Sent
<1>3. ASSUME NEW q \in Runs, q # r
      PROVE  GateOf(q)' = GateOf(q) /\ Writers(q)' = Writers(q)
  <2>1. Held(q)' <=> Held(q)
    BY <1>1 DEF Held
  <2>2. QED
    BY <1>1, <1>2, <1>3, <2>1, OtherGates, SameGate, SameWriters
<1>4. GateOf(r) = "closed"
  BY <1>1, GateFacts DEF GateOf
<1>5. Carries(r, r)' /\ Carries(r, r)
  <2>1. /\ pc'[r] = "execute" /\ pc'[r] \notin {"idle", "notFound"}
    BY <1>0 DEF ApprovalGate, Goto, RouteAfterApproval
  <2>2. wf'[r] # NoState /\ wf[r] # NoState
    BY <1>0, <2>1, Phase3Assumption DEF IInv, TInv, CarriesState
  <2>3. QED
    BY <2>2 DEF IInv, GateInv, OwnRun, Carries
<1>6. GateOf(r)' = "open"
  BY <1>0, <1>1, <1>5 DEF GateOf, Released
<1>7. \A t \in Threads : Carries(t, r)' <=> Carries(t, r)
  BY <1>1, <1>5 DEF Carries
<1>8. Writers(r)' = Writers(r)
  BY <1>2, <1>7, SameWriters
<1>9. QED
  BY <1>3, <1>4, <1>6, <1>8 DEF Guarded!Grant, Writers

\* Storing a paused run makes it wait, and shuts out the one it replaces.
LEMMA StorePauses ==
  ASSUME IInv, IInv', NEW r \in Runs, StorePending(r)
  PROVE  \E Lost \in SUBSET {q \in Runs : Guarded!Waits(q)} : Guarded!Pause(r, Lost)
<1> DEFINE j == wf[r].req.incident
<1>0. /\ r \in Threads /\ wf[r] \in WorkflowState /\ j \in Incidents
      /\ wf[r].run = r /\ wf[r] # NoState
      /\ pending \in [Incidents -> WorkflowState \cup {NoState}]
      /\ pc \in [Threads -> PCs]
  BY CarriedState, RequestFields DEF Threads, IInv, TInv, TypeOK, StorePending,
     GateInv, OwnRun, CarriesState
<1>1. /\ pc[r] = "pending" /\ pc' = [pc EXCEPT ![r] = "notify"]
      /\ pending' = [pending EXCEPT ![j] = wf[r]]
      /\ UNCHANGED <<wf, call>>
  BY DEF StorePending, Goto, netVars
<1> HIDE DEF j
<1>2. /\ \A t \in Threads : Wrote(t)' <=> Wrote(t)
      /\ \A t \in Threads, q \in Runs : Carries(t, q)' <=> Carries(t, q)
      /\ \A q \in Runs : Released(q)' <=> Released(q)
  BY <1>1 DEF Wrote, Sent, Carries, Released
<1>3. \A q \in Runs : Writers(q)' = Writers(q)
  BY <1>2, SameWriters
<1>4. GateOf(r) = "closed" /\ ~Released(r)
  BY <1>1, GateFacts DEF GateOf
<1>5. Held(r)'
  BY <1>0, <1>1 DEF Held
<1>6. GateOf(r)' = "waiting"
  BY <1>2, <1>4, <1>5 DEF GateOf
<1> DEFINE Lost == {q \in Runs : q # r /\ Held(q) /\ ~Held(q)'}
<1>7. ASSUME NEW q \in Lost
      PROVE  GateOf(q) = "waiting" /\ GateOf(q)' = "shut"
  <2>1. Held(q) /\ ~Held(q)' /\ ~Released(q) /\ GivenUp(q)
    BY GateFacts
  <2>2. GivenUp(q)'
    BY <1>1, <1>2, <2>1 DEF GivenUp, Threads
  <2>3. QED
    BY <1>2, <2>1, <2>2 DEF GateOf
<1>8. ASSUME NEW q \in Runs, q # r, q \notin Lost
      PROVE  GateOf(q)' = GateOf(q)
  <2>1. Held(q)' => Held(q)
    BY <1>0, <1>1, <1>8 DEF Held
  <2>2. GivenUp(q)' <=> GivenUp(q)
    BY <1>0, <1>1, <1>2, <1>8 DEF GivenUp, Threads
  <2>3. QED
    BY <1>2, <1>8, <2>1, <2>2, SameGate
<1>9. /\ Lost \in SUBSET {q \in Runs : Guarded!Waits(q)}
  BY <1>7 DEF Guarded!Waits
<1>10. Guarded!Pause(r, Lost)
  BY <1>3, <1>4, <1>6, <1>7, <1>8 DEF Guarded!Pause, Writers
<1>11. QED
  BY <1>9, <1>10

\* Taking a paused run opens its gate or shuts it.
LEMMA ResumeDecides ==
  ASSUME IInv, IInv', NEW h \in Resumes, NEW i \in Incidents,
         NEW d \in {"approved", "rejected"}, ResumeFound(h, i, d)
  PROVE  Guarded!GuardedWriteNext
<1> DEFINE s == [pending[i] EXCEPT !.decision = d]
<1>0. /\ h \in Threads /\ h \notin Runs /\ Runs \subseteq Threads
      /\ Threads = Runs \cup Resumes
      /\ wf \in [Threads -> WorkflowState \cup {NoState}]
      /\ pending \in [Incidents -> WorkflowState \cup {NoState}]
      /\ pc \in [Threads -> PCs]
      /\ NoState \notin WorkflowState
  BY Phase3Assumption DEF Threads, IInv, TInv, TypeOK
<1>1. /\ pc[h] = "idle" /\ wf[h] = NoState
      /\ pending[i] \in WorkflowState
      /\ wf' = [wf EXCEPT ![h] = s]
      /\ pending' = [pending EXCEPT ![i] = NoState]
      /\ \A t \in Threads : t # h => pc'[t] = pc[t]
      /\ UNCHANGED call
  BY <1>0 DEF ResumeFound, PopPending, Goto, netVars, IInv, GateInv, IdleHasNoState
<1>r. PICK r \in Runs : r = pending[i].run
  BY <1>1 DEF WorkflowState
<1>2. /\ s \in WorkflowState /\ s.run = r /\ s.decision = d /\ r \in Runs
  BY <1>1, <1>r DEF WorkflowState, Decisions
<1>3. /\ pending[i] # NoState /\ wf[r] = pending[i] /\ pending[i].req.incident = i
      /\ pc[r] \in {"notify", "paused"}
      /\ \A k \in Resumes : ~Carries(k, r)
  BY <1>0, <1>1, <1>r DEF IInv, GateInv, PendingIsPaused
<1>4. Held(r)
  BY <1>r, <1>3 DEF Held
<1> HIDE DEF s
<1>5. GateOf(r) = "waiting" /\ ~Released(r) /\ GivenUp(r)
  BY <1>2, <1>4, GateFacts DEF GateOf
<1>6. \A t \in Threads : Wrote(t)' <=> Wrote(t)
  BY <1>1 DEF Wrote, Sent
<1>7. /\ s # NoState
      /\ \A t \in Threads, q \in Runs :
           Carries(t, q)' <=> Carries(t, q) \/ (t = h /\ q = r)
  BY <1>0, <1>1, <1>2 DEF Carries
<1>8. ~Wrote(h) /\ ~Wrote(h)'
  BY <1>0, <1>1, <1>6 DEF IInv, GateInv, NoWriteBefore, BeforeWrite
<1>9. \A q \in Runs : Writers(q)' = Writers(q)
  BY <1>6, <1>7, <1>8 DEF Writers, Threads
<1>10. ASSUME NEW q \in Runs, q # r
       PROVE  GateOf(q)' = GateOf(q)
  <2>1. Held(q)' <=> Held(q)
    <3>1. \A k \in Incidents : pending[k] # NoState /\ pending[k].run = q
             <=> pending'[k] # NoState /\ pending'[k].run = q
      BY <1>0, <1>1, <1>r, <1>10
    <3>2. QED
      BY <3>1 DEF Held
  <2>2. \A t \in Threads : Carries(t, q)' => t # h
    BY <1>0, <1>1, <1>7, <1>10 DEF Carries
  <2>3. Released(q)' <=> Released(q)
    BY <1>0, <1>1, <1>7, <1>10, <2>2 DEF Released, Threads
  <2>4. GivenUp(q)' <=> GivenUp(q)
    BY <1>0, <1>1, <1>7, <1>10 DEF GivenUp
  <2>5. QED
    BY <2>1, <2>3, <2>4, SameGate
<1>11. CASE d = "approved"
  <2>1. Released(r)'
    BY <1>0, <1>1, <1>2, <1>7, <1>11 DEF Released
  <2>2. GateOf(r)' = "open"
    BY <2>1 DEF GateOf
  <2>3. Guarded!Grant(r)
    BY <1>2, <1>5, <1>9, <1>10, <2>2 DEF Guarded!Grant, Writers
  <2>4. QED
    BY <1>2, <2>3 DEF Guarded!GuardedWriteNext
<1>12. CASE d = "rejected"
  <2>1. ~Released(r)'
    <3>1. \A t \in Threads : t # h => ~(Carries(t, r)' /\ wf'[t].decision = "approved")
      BY <1>0, <1>1, <1>2, <1>5, <1>7 DEF Released
    <3>2. wf'[h].decision # "approved"
      BY <1>0, <1>1, <1>2, <1>12
    <3>3. QED
      BY <3>1, <3>2 DEF Released, Threads
  <2>2. ~Held(r)'
    <3>1. \A k \in Incidents : pending[k] # NoState /\ pending[k].run = r => k = i
      BY <1>0, <1>3, <1>r DEF IInv, GateInv, PendingIsPaused
    <3>2. QED
      BY <1>0, <1>1, <3>1 DEF Held
  <2>3. GivenUp(r)'
    BY <1>0, <1>1, <1>2, <1>5, <1>7 DEF GivenUp
  <2>4. GateOf(r)' = "shut"
    BY <2>1, <2>2, <2>3 DEF GateOf
  <2>5. Guarded!Shut({r})
    BY <1>2, <1>5, <1>9, <1>10, <2>4 DEF Guarded!Shut, Writers
  <2>6. QED
    BY <1>2, <2>5 DEF Guarded!GuardedWriteNext
<1>13. QED
  BY <1>11, <1>12

\* A step past the gate that keeps the runs, the decisions and the calls.
LEMMA QuietStep ==
  ASSUME IInv, NEW t \in Threads,
         UNCHANGED pending,
         \A u \in Threads : u # t => wf'[u] = wf[u] /\ pc'[u] = pc[u],
         pc[t] \in WritePCs \cup {"handoff"},
         pc'[t] \notin {"pending", "crashed"},
         wf[t] # NoState, wf'[t] # NoState,
         wf'[t].run = wf[t].run, wf'[t].decision = wf[t].decision
  PROVE  /\ \A q \in Runs : GateOf(q)' = GateOf(q)
         /\ \A u \in Threads, q \in Runs : Carries(u, q)' <=> Carries(u, q)
<1>1. \A u \in Threads, q \in Runs : Carries(u, q)' <=> Carries(u, q)
  BY DEF Carries
<1>2. ASSUME NEW q \in Runs PROVE GateOf(q)' = GateOf(q)
  <2>1. Held(q)' <=> Held(q)
    BY DEF Held
  <2>2. Released(q)' <=> Released(q)
    BY <1>1 DEF Released, Threads
  <2>3. GivenUp(q)' <=> GivenUp(q)
    BY <1>1 DEF GivenUp, Threads, WritePCs
  <2>4. QED
    BY <2>1, <2>2, <2>3, SameGate
<1>3. QED
  BY <1>1, <1>2

\* The first write calls of a run are its one execution.
LEMMA StartExecutes ==
  ASSUME IInv, NEW t \in Threads, StartExecute(t)
  PROVE  \E r \in Runs : Guarded!Execute(r, t)
<1>0. /\ pc[t] = "execute" /\ wf[t] \in WorkflowState /\ wf[t] # NoState
      /\ wf[t].run \in Runs /\ wf[t].decision = "approved" /\ ~Wrote(t)
      /\ pc \in [Threads -> PCs] /\ Runs \subseteq Threads
      /\ Threads = Runs \cup Resumes
  <2>1. pc[t] = "execute"
    BY DEF StartExecute
  <2>2. wf[t] \in WorkflowState
    BY <2>1, CarriedState DEF IInv
  <2>3. QED
    BY <2>1, <2>2, Phase3Assumption DEF IInv, TInv, TypeOK, GateInv,
       WriterIsApproved, NoWriteBefore, WritePCs, BeforeWrite, WorkflowState, Threads
<1>r. PICK r \in Runs : r = wf[t].run
  BY <1>0
<1>1. Carries(t, r)
  BY <1>0, <1>r DEF Carries
<1>2. GateOf(r) = "open"
  BY <1>0, <1>1 DEF GateOf, Released
<1>3. \A u \in Threads : Carries(u, r) => ~Wrote(u)
  <2>1. CASE t \in Runs
    <3>1. t = r
      BY <1>0, <1>1, <2>1 DEF IInv, GateInv, OwnRun, Carries
    <3>2. \A u \in Resumes : ~Carries(u, r)
      BY <1>0, <3>1 DEF IInv, GateInv, TakenIsPaused
    <3>3. \A u \in Runs : Carries(u, r) => u = t
      BY <1>0, <3>1 DEF IInv, GateInv, OwnRun, Carries
    <3>4. QED
      BY <1>0, <3>2, <3>3
  <2>2. CASE t \in Resumes
    <3>1. \A u \in Resumes : Carries(u, r) => u = t
      BY <1>0, <1>1, <2>2 DEF IInv, GateInv, OneDecisionPerPause
    <3>2. wf[r].decision = "pending"
      BY <1>0, <1>1, <2>2 DEF IInv, GateInv, TakenIsPaused
    <3>3. \A u \in Runs : Carries(u, r) => u = r
      BY <1>0 DEF IInv, GateInv, OwnRun, Carries
    <3>4. ~Wrote(r)
      BY <1>0, <3>2 DEF IInv, GateInv, WritesAreApproved
    <3>5. QED
      BY <1>0, <3>1, <3>3, <3>4
  <2>3. QED
    BY <1>0, <2>1, <2>2
<1>4. /\ \A u \in Threads : u # t => (Wrote(u)' <=> Wrote(u))
      /\ Wrote(t)'
  <2>1. /\ call \in [Threads -> [Kinds -> [Targets -> CallState]]]
        /\ call' = [call EXCEPT ![t]["act"] =
             [g \in Targets |-> IF g \in PlannedTargets(wf[t]) THEN Waiting(1) ELSE NoCall]]
    BY DEF StartExecute, BeginCalls, IInv, TInv, TypeOK
  <2>2. PICK g \in Targets : g \in PlannedTargets(wf[t])
    BY <1>0, RequestFields DEF PlannedTargets
  <2>3. call'[t]["act"][g] = Waiting(1)
    BY <2>1, <2>2 DEF Kinds
  <2>4. Wrote(t)'
    BY <2>2, <2>3 DEF Wrote, Sent, Waiting
  <2>5. \A u \in Threads : u # t => call'[u] = call[u]
    BY <2>1
  <2>6. QED
    BY <2>4, <2>5 DEF Wrote, Sent
<1>5. /\ UNCHANGED <<wf, pending>>
      /\ pc' = [pc EXCEPT ![t] = "executing"]
  BY DEF StartExecute, Goto
<1>6. /\ \A q \in Runs : GateOf(q)' = GateOf(q)
      /\ \A u \in Threads, q \in Runs : Carries(u, q)' <=> Carries(u, q)
  BY <1>0, <1>5, QuietStep DEF WritePCs
<1>7. Writers(r) = {}
  BY <1>3 DEF Writers
<1>8. Writers(r)' = {t}
  BY <1>0, <1>1, <1>3, <1>4, <1>6 DEF Writers, Threads
<1>9. \A q \in Runs : q # r => Writers(q)' = Writers(q)
  <2>1. \A q \in Runs : q # r => ~Carries(t, q)
    BY <1>r DEF Carries
  <2>2. QED
    BY <1>4, <1>6, <2>1 DEF Writers, Threads
<1>10. Guarded!Execute(r, t)
  <2> DEFINE gates == [q \in Runs |-> GateOf(q)]
             writers == [q \in Runs |-> Writers(q)]
  <2>1. gates[r] = "open" /\ writers[r] = {}
    BY <1>2, <1>7
  <2>2. UNCHANGED gates
    BY <1>6
  <2>3. writers' = [writers EXCEPT ![r] = {t}]
    BY <1>8, <1>9
  <2>4. QED
    BY <2>1, <2>2, <2>3 DEF Guarded!Execute, Writers
<1>11. QED
  BY <1>10

\* The other steps past the gate are silent.
LEMMA WriteStepRefines ==
  ASSUME IInv, IInv', NEW t \in Threads, WriteStep(t)
  PROVE  UNCHANGED Guarded!gvars \/ \E r \in Runs : Guarded!Execute(r, t)
<1>1. CASE StartExecute(t)
  BY <1>1, StartExecutes
<1>2. CASE StartRollback(t) \/ FinishExecute(t) \/ VerifyAction(t)
             \/ FinishRollback(t) \/ Handoff(t)
  <2>1. pc[t] \in WritePCs \cup {"handoff"}
    BY <1>2 DEF StartRollback, FinishExecute, VerifyAction, FinishRollback,
       Handoff, WritePCs
  <2>2. /\ wf[t] \in WorkflowState /\ wf[t] # NoState
        /\ pc \in [Threads -> PCs]
        /\ wf \in [Threads -> WorkflowState \cup {NoState}]
        /\ call \in [Threads -> [Kinds -> [Targets -> CallState]]]
    BY <2>1, CarriedState, Phase3Assumption DEF WritePCs, IInv, TInv, TypeOK
  <2>3. pc'[t] \in {"undoing", "verify", "handoff", "rollback", "done", "error"}
    BY <1>2, <2>2 DEF StartRollback, FinishExecute, VerifyAction,
       FinishRollback, Handoff, Goto, RouteAfterExecute, RouteAfterVerify
  <2>4. /\ UNCHANGED pending
        /\ \A u \in Threads : u # t => wf'[u] = wf[u] /\ pc'[u] = pc[u]
    BY <1>2, <2>2 DEF StartRollback, FinishExecute, VerifyAction,
       FinishRollback, Handoff, Goto
  <2>5. wf'[t].run = wf[t].run /\ wf'[t].decision = wf[t].decision
    <3>1. CASE StartRollback(t) \/ UNCHANGED wf
      BY <3>1 DEF StartRollback
    <3>2. CASE FinishExecute(t)
      BY <2>2, <3>2 DEF FinishExecute, WorkflowState
    <3>3. CASE VerifyAction(t)
      BY <2>2, <3>3 DEF VerifyAction, WorkflowState
    <3>4. CASE FinishRollback(t)
      BY <2>2, <3>4 DEF FinishRollback, WorkflowState
    <3>5. CASE Handoff(t) /\ wf' = [wf EXCEPT ![t].status = FinalStatus(wf[t])]
      BY <2>2, <3>5 DEF WorkflowState
    <3>6. QED
      BY <1>2, <3>1, <3>2, <3>3, <3>4, <3>5 DEF Handoff
  <2>6. wf'[t] # NoState
    BY <2>3 DEF IInv, TInv, CarriesState
  <2>7. \A u \in Threads : Wrote(u)' <=> Wrote(u)
    <3>1. CASE StartRollback(t)
      BY <2>2, <3>1 DEF StartRollback, BeginCalls, Wrote, Sent, Kinds
    <3>2. CASE UNCHANGED call
      BY <3>2 DEF Wrote, Sent
    <3>3. QED
      BY <1>2, <3>1, <3>2 DEF FinishExecute, VerifyAction, FinishRollback,
         Handoff, netVars
  <2>8. /\ \A q \in Runs : GateOf(q)' = GateOf(q)
        /\ \A u \in Threads, q \in Runs : Carries(u, q)' <=> Carries(u, q)
    BY <2>1, <2>2, <2>3, <2>4, <2>5, <2>6, QuietStep
  <2>9. QED
    BY <2>7, <2>8, SameWriters, StutterStep
<1>3. QED
  BY <1>1, <1>2 DEF WriteStep

\* A restart shuts what was waiting or running, and leaves open gates open.
LEMMA RestartShuts ==
  ASSUME IInv, IInv', Restart
  PROVE  \E Lost \in SUBSET Runs : Guarded!Shut(Lost)
<1>0. /\ UNCHANGED <<wf, call>>
      /\ \A i \in Incidents : pending'[i] = NoState
      /\ \A t \in Threads : pc'[t] = pc[t] \/ (pc'[t] = "crashed" /\ pc[t] \notin Ended)
      /\ Runs \subseteq Threads
  BY DEF Restart, netVars, Threads
<1>1. /\ \A t \in Threads, q \in Runs : Carries(t, q)' <=> Carries(t, q)
      /\ \A q \in Runs : Released(q)' <=> Released(q)
      /\ \A t \in Threads : Wrote(t)' <=> Wrote(t)
      /\ \A q \in Runs : ~Held(q)'
  BY <1>0 DEF Carries, Released, Wrote, Sent, Held
<1>2. \A q \in Runs : Writers(q)' = Writers(q)
  BY <1>1, SameWriters
<1>3. \A q \in Runs : GivenUp(q) => GivenUp(q)'
  BY <1>0, <1>1 DEF GivenUp, Ended
<1> DEFINE Lost == {q \in Runs : GateOf(q) # "shut" /\ GateOf(q)' = "shut"}
<1>4. ASSUME NEW q \in Runs
      PROVE  /\ GateOf(q) \in {"closed", "waiting", "open", "shut"}
             /\ GateOf(q) = "open" => GateOf(q)' = "open"
             /\ GateOf(q) = "shut" => GateOf(q)' = "shut"
             /\ GateOf(q) = "waiting" => GateOf(q)' = "shut"
             /\ GateOf(q) = "closed" => GateOf(q)' \in {"closed", "shut"}
  BY <1>1, <1>3, GateFacts DEF GateOf
<1>5. \A q \in Lost : GateOf(q) \in {"closed", "waiting"}
  BY <1>4
<1>6. \A q \in Runs : GateOf(q)' = IF q \in Lost THEN "shut" ELSE GateOf(q)
  BY <1>4
<1> HIDE DEF Lost
<1>7. Lost \in SUBSET Runs
  BY DEF Lost
<1>8. Guarded!Shut(Lost)
  BY <1>2, <1>5, <1>6, <1>7 DEF Guarded!Shut, Writers
<1>9. QED
  BY <1>7, <1>8

LEMMA RefinementInit == Init => Guarded!GuardedWriteInit
<1> SUFFICES ASSUME Init PROVE Guarded!GuardedWriteInit
  OBVIOUS
<1>1. \A t \in Threads : pc[t] = "idle" /\ wf[t] = NoState
  BY DEF Init
<1>2. \A i \in Incidents : pending[i] = NoState
  BY DEF Init
<1>3. \A r \in Runs : GateOf(r) = "closed"
  BY <1>1, <1>2 DEF GateOf, Released, Held, GivenUp, Carries, Threads
<1>4. \A r \in Runs : Writers(r) = {}
  BY <1>1 DEF Writers, Carries
<1>5. QED
  BY <1>3, <1>4 DEF Guarded!GuardedWriteInit, Writers

LEMMA RefinementStep ==
  IInv /\ IInv' /\ [Next]_vars => [Guarded!GuardedWriteNext]_(Guarded!gvars)
<1> SUFFICES ASSUME IInv, IInv', [Next]_vars
             PROVE  Guarded!GuardedWriteNext \/ UNCHANGED Guarded!gvars
  OBVIOUS
<1> USE DEF Guarded!GuardedWriteNext
<1>1. ASSUME NEW r \in Runs, RunStep(r)
      PROVE  Guarded!GuardedWriteNext \/ UNCHANGED Guarded!gvars
  <2>1. GateDecision(wf[r].req) \in {"pending", "approved"}
    BY DEF GateDecision
  <2>2. QED
    BY <1>1, <2>1, PlainRunStep, AutoApproveOpens, StorePauses DEF RunStep
<1>2. ASSUME NEW h \in Resumes, Resume(h)
      PROVE  Guarded!GuardedWriteNext \/ UNCHANGED Guarded!gvars
  <2>1. ASSUME NEW i \in Incidents, ResumeMissing(h, i)
        PROVE  UNCHANGED Guarded!gvars
    <3>1. /\ UNCHANGED <<wf, pending, call>>
          /\ \A r \in Runs : pc'[r] = pc[r]
      BY <2>1, Phase3Assumption DEF ResumeMissing, Goto, netVars, Threads,
         IInv, TInv, TypeOK
    <3>2. \A r \in Runs : GateOf(r)' = GateOf(r) /\ Writers(r)' = Writers(r)
      BY <3>1 DEF GateOf, Released, Held, GivenUp, Carries, Writers, Wrote, Sent
    <3>3. QED
      BY <3>2, StutterStep
  <2>2. QED
    BY <1>2, <2>1, ResumeDecides DEF Resume
<1>3. ASSUME NEW t \in Threads, WriteStep(t)
      PROVE  Guarded!GuardedWriteNext \/ UNCHANGED Guarded!gvars
  BY <1>3, WriteStepRefines
<1>4. ASSUME NEW m \in Message, Serve(m) \/ Timeout(m)
      PROVE  UNCHANGED Guarded!gvars
  <2>1. \A t \in Threads : Wrote(t)' <=> Wrote(t)
    BY <1>4, CallsContinue DEF IInv, Wrote, Kinds
  <2>2. UNCHANGED <<pc, wf, pending>>
    BY <1>4 DEF Serve, Timeout
  <2>3. \A r \in Runs : GateOf(r)' = GateOf(r) /\ Writers(r)' = Writers(r)
    BY <2>1, <2>2 DEF GateOf, Released, Held, GivenUp, Carries, Writers
  <2>4. QED
    BY <2>3, StutterStep
<1>5. CASE Restart
  BY <1>5, RestartShuts
<1>6. CASE UNCHANGED vars
  <2>1. \A r \in Runs : GateOf(r)' = GateOf(r) /\ Writers(r)' = Writers(r)
    BY <1>6 DEF vars, GateOf, Released, Held, GivenUp, Carries, Writers, Wrote, Sent
  <2>2. QED
    BY <2>1, StutterStep
<1>7. inflight \subseteq Message
  BY DEF IInv, TInv, TypeOK
<1>8. QED
  BY <1>1, <1>2, <1>3, <1>4, <1>5, <1>6, <1>7 DEF Next

\* Whatever races, retries, overwrites and restarts happen, the workflow does
\* nothing that the abstract guarded write does not allow: one executor, only
\* behind an open gate, and no gate reopens once shut.
THEOREM WorkflowIsGuarded == Spec => ImplementsGuardedWrite
<1>1. IInv /\ [Next]_vars => IInv'
  BY GatePreserved
<1>2. QED
  BY <1>1, GateInvariant, RefinementInit, RefinementStep, PTL
     DEF Spec, ImplementsGuardedWrite, Guarded!GuardedWriteSpec
=============================================================================
