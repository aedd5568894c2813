--------------------------- MODULE HumanGateProofs ---------------------------
(***************************************************************************)
(* Proofs about the human in the loop, for every set of runs, resumes and  *)
(* approval rows, whether or not Phase 3 can also be resumed without       *)
(* Phase 4.  What Phase3WorkflowProofs proves of the workflow alone is     *)
(* used here: every step of the two services is a step of the workflow or  *)
(* leaves it alone.                                                        *)
(*                                                                         *)
(* Then about the grouping of the alerts of an incident and the analyst's  *)
(* confirmation of it (IncidentGrouping), for any alerts in any order.     *)
(***************************************************************************)
EXTENDS HumanGate, Phase3WorkflowProofs, IncidentGrouping, SelectionLemmas,
        SequenceTheorems, WellFoundedInduction

-----------------------------------------------------------------------------
(* The inductive invariant.                                                *)

\* A row is about a run that exists, so that a resume finds its incident.
RowsAreAboutRuns ==
  /\ \A r \in notices : wf[r] # NoState
  /\ \A a \in Rows : Exists(a) => wf[approvals[a].subject] # NoState

\* A row is approved by its quorum, and is open only while it lacks one: the
\* count of approvals never passes what was needed.
ApprovedHasQuorum ==
  \A a \in Rows : Exists(a) /\ approvals[a].status = "approved" =>
    approvals[a].received >= approvals[a].needed

OpenHasNoOutcome ==
  \A a \in Rows : Decidable(a) =>
    /\ approvals[a].completion = "none"
    /\ approvals[a].received < approvals[a].needed

\* The decide handler waits for a row it has decided, and stores its outcome
\* once.
WaitsForDecided ==
  deciding # NoRow =>
    /\ Exists(deciding)
    /\ Final(approvals[deciding].status)
    /\ approvals[deciding].completion = "none"

\* A post carries a decision nobody was resumed with yet.
PostsAreUnused ==
  \A a \in resumePosts :
    /\ Exists(a)
    /\ Final(approvals[a].status)
    /\ \A h \in Resumes : origin[h] # a

OriginIsDecided ==
  \A h \in Resumes : origin[h] # NoRow =>
    /\ pc[h] # "idle"
    /\ Exists(origin[h])
    /\ Final(approvals[origin[h]].status)
    /\ wf[h] # NoState => wf[h].decision = approvals[origin[h]].status

StartedByPost ==
  ~DirectResume => \A h \in Resumes : pc[h] # "idle" => origin[h] # NoRow

LinkInv ==
  /\ RowsAreAboutRuns /\ ApprovedHasQuorum /\ OpenHasNoOutcome
  /\ WaitsForDecided /\ PostsAreUnused /\ OriginIsDecided /\ StartedByPost
  /\ OneResumePerRow /\ CompletionIsOwnOutcome

GateIInv == IInv /\ GateTypeOK /\ LinkInv

-----------------------------------------------------------------------------
(* What a step of the workflow leaves of the coroutines.                   *)

\* A coroutine that is not being started keeps its decision, and one that is
\* done stays so with its outcome.
CoroutineKept(h) ==
  /\ pc'[h] = "idle" <=> pc[h] = "idle"
  /\ wf'[h] = NoState <=> wf[h] = NoState
  /\ wf[h] # NoState => wf'[h].decision = wf[h].decision
  /\ pc[h] = "done" => pc'[h] = "done" /\ wf'[h] = wf[h]

StatesKept == \A r \in Runs : wf[r] # NoState => wf'[r] # NoState

LEMMA Types ==
  ASSUME IInv
  PROVE  /\ pc \in [Threads -> PCs]
         /\ wf \in [Threads -> WorkflowState \cup {NoState}]
         /\ NoState \notin WorkflowState
         /\ Runs \subseteq Threads /\ Resumes \subseteq Threads
         /\ Runs \cap Resumes = {}
BY Phase3Assumption DEF IInv, TInv, TypeOK, Threads

LEMMA OthersKept ==
  ASSUME IInv, NEW t \in Threads, NEW h \in Threads, h # t,
         NEW label, pc' = [pc EXCEPT ![t] = label],
         wf'[h] = wf[h]
  PROVE  CoroutineKept(h)
BY Types DEF CoroutineKept

\* A write step never leaves the state it works on, nor its decision.
LEMMA WriteStepKeeps ==
  ASSUME IInv, NEW t \in Threads, WriteStep(t)
  PROVE  /\ \A h \in Threads : CoroutineKept(h)
         /\ StatesKept
<1>1. /\ pc[t] \in {"execute", "executing", "verify", "rollback", "undoing", "handoff"}
      /\ pc'[t] \in PCs \ {"idle", "notFound"}
      /\ \A h \in Threads : h # t => pc'[h] = pc[h] /\ wf'[h] = wf[h]
  BY Types DEF WriteStep, StartExecute, FinishExecute, VerifyAction,
     StartRollback, FinishRollback, Handoff, Goto, PCs,
     RouteAfterExecute, RouteAfterVerify
<1>2. wf[t] # NoState /\ wf[t] \in WorkflowState
  BY <1>1, CarriedState, Types DEF IInv
<1>3. wf'[t] # NoState
  <2>1. TInv'
    BY TypeNext DEF IInv, Next
  <2>2. QED
    BY <1>1, <2>1 DEF TInv, CarriesState
<1>4. wf'[t].decision = wf[t].decision
  <2>1. CASE VerifyAction(t)
    BY <1>2, <2>1, Types DEF VerifyAction, WorkflowState
  <2>2. CASE FinishExecute(t) \/ FinishRollback(t) \/ Handoff(t)
    BY <1>2, <2>2, Types DEF FinishExecute, FinishRollback, Handoff, WorkflowState
  <2>3. CASE StartExecute(t) \/ StartRollback(t)
    BY <2>3 DEF StartExecute, StartRollback
  <2>4. QED
    BY <2>1, <2>2, <2>3 DEF WriteStep
<1>5. CoroutineKept(t)
  BY <1>1, <1>2, <1>3, <1>4 DEF CoroutineKept
<1>6. \A h \in Threads : h # t => CoroutineKept(h)
  BY <1>1 DEF CoroutineKept
<1>7. QED
  BY <1>1, <1>3, <1>5, <1>6, Types DEF StatesKept

LEMMA RunStepKeeps ==
  ASSUME IInv, NEW r \in Runs, RunStep(r)
  PROVE  /\ \A h \in Resumes : CoroutineKept(h)
         /\ StatesKept
<1>1. \A h \in Threads : h # r => pc'[h] = pc[h] /\ wf'[h] = wf[h]
  BY Types DEF RunStep, StartRun, Triage, Enrich, ProxyEnrich, ProposeAction,
     ApprovalGate, StorePending, Notify, Goto
<1>2. wf[r] # NoState => wf'[r] # NoState
  <2>1. CASE StartRun(r)
    BY <2>1, Types DEF StartRun, IInv, GateInv, IdleHasNoState
  <2>2. CASE ApprovalGate(r)
    <3>1. wf[r] \in WorkflowState
      BY <2>2, CarriedState, Types DEF ApprovalGate, IInv
    <3>2. TInv' /\ pc'[r] \in {"pending", "execute"}
      <4>1. TInv'
        BY TypeNext DEF IInv, Next
      <4>2. QED
        BY <2>2, <4>1, Types DEF ApprovalGate, Goto, GateDecision, RouteAfterApproval
    <3>3. QED
      BY <3>2, Types DEF TInv, CarriesState
  <2>3. CASE UNCHANGED wf
    BY <2>3
  <2>4. QED
    BY <2>1, <2>2, <2>3 DEF RunStep, Triage, Enrich, ProxyEnrich, ProposeAction,
       StorePending, Notify
<1>3. QED
  BY <1>1, <1>2, Types DEF CoroutineKept, StatesKept

\* Serving a post, timing one out and a restart change no workflow state.
LEMMA NetKeeps ==
  ASSUME IInv, \/ \E m \in inflight : Serve(m)
               \/ \E m \in Message : Timeout(m)
               \/ Restart
               \/ UNCHANGED vars
  PROVE  /\ \A h \in Resumes : CoroutineKept(h)
         /\ StatesKept
<1>1. UNCHANGED wf
  BY DEF Serve, Timeout, Restart, vars
<1>2. \A h \in Threads : /\ pc'[h] = "idle" <=> pc[h] = "idle"
                         /\ pc[h] = "done" => pc'[h] = "done"
  BY Types DEF Serve, Timeout, Restart, vars, Ended
<1>3. QED
  BY <1>1, <1>2, Types DEF CoroutineKept, StatesKept

\* A resume starts its own coroutine, with the decision it was given, and
\* touches no other.
LEMMA ResumeStarts ==
  ASSUME IInv, NEW h \in Resumes, NEW i, NEW d \in {"approved", "rejected"},
         ResumeFound(h, i, d) \/ ResumeMissing(h, i), i \in Incidents
  PROVE  /\ pc[h] = "idle" /\ pc'[h] # "idle" /\ pc'[h] # "done"
         /\ wf'[h] # NoState => wf'[h].decision = d
         /\ \A k \in Resumes : k # h => CoroutineKept(k)
         /\ StatesKept
<1>1. pc[h] = "idle" /\ wf[h] = NoState
  BY Types DEF ResumeFound, ResumeMissing, IInv, GateInv, IdleHasNoState
<1>2. \A t \in Threads : t # h => pc'[t] = pc[t] /\ wf'[t] = wf[t]
  BY Types DEF ResumeFound, ResumeMissing, Goto
<1>3. pc'[h] \in {"execute", "handoff", "notFound"}
  BY Types DEF ResumeFound, ResumeMissing, Goto, RouteAfterApproval
<1>4. wf'[h] # NoState => wf'[h].decision = d
  <2>1. CASE ResumeFound(h, i, d)
    <3>1. pending[i] \in WorkflowState
      BY <2>1 DEF ResumeFound, IInv, TInv, TypeOK
    <3>2. QED
      BY <2>1, <3>1, Types DEF ResumeFound, WorkflowState
  <2>2. CASE ResumeMissing(h, i)
    BY <1>1, <2>2 DEF ResumeMissing
  <2>3. QED
    BY <2>1, <2>2
<1>5. QED
  BY <1>1, <1>2, <1>3, <1>4, Types DEF CoroutineKept, StatesKept

-----------------------------------------------------------------------------
(* Every step of the two services is a step of the workflow.               *)

\* The decision a resume post carries is final, and names an incident.
LEMMA PostNamesIncident ==
  ASSUME GateIInv, NEW a \in resumePosts
  PROVE  /\ a \in Rows /\ approvals[a] \in RowType
         /\ approvals[a].status \in {"approved", "rejected"}
         /\ IncidentOf(a) \in Incidents
<1>1. a \in Rows /\ approvals[a] \in RowType
  BY DEF GateIInv, GateTypeOK, StoreTypeOK, LinkInv, PostsAreUnused, Exists
<1>2. approvals[a].status \in {"approved", "rejected"} /\ Exists(a)
  BY DEF GateIInv, LinkInv, PostsAreUnused, Final
<1>3. approvals[a].subject \in Runs /\ wf[approvals[a].subject] # NoState
  BY <1>1, <1>2, GateAssumption DEF GateIInv, LinkInv, RowsAreAboutRuns, RowType
<1>4. wf[approvals[a].subject] \in WorkflowState
  BY <1>3, Types DEF GateIInv
<1>5. IncidentOf(a) \in Incidents
  BY <1>4, RequestFields DEF IncidentOf
<1>6. QED
  BY <1>1, <1>2, <1>5

LEMMA GateStepIsWorkflowStep ==
  GateIInv /\ [GateNext]_gateVars => [Next]_vars
<1> SUFFICES ASSUME GateIInv, [GateNext]_gateVars PROVE [Next]_vars
  OBVIOUS
<1>1. CASE Phase4Step \/ (\E a \in Rows : LosePost(a)) \/ UNCHANGED gateVars
  <2>1. UNCHANGED vars
    BY <1>1 DEF Phase4Step, HandleNotice, AnalystDecides, AnswerResume,
       GiveUpResume, LosePost, gateVars
  <2>2. QED
    BY <2>1
<1>2. CASE \E r \in Runs : PostNotice(r) \/ RunStep(r)
  BY <1>2 DEF PostNotice, RunStep, Next
<1>3. CASE \E h \in Resumes : Resume(h)
  BY <1>3 DEF Next
<1>4. ASSUME NEW h \in Resumes, NEW a \in Rows, HandleResume(h, a)
      PROVE  Next
  <2>1. a \in resumePosts
    BY <1>4 DEF HandleResume
  <2>2. Resume(h)
    BY <1>4, <2>1, PostNamesIncident DEF HandleResume, Resume
  <2>3. QED
    BY <2>2 DEF Next
<1>5. CASE \/ \E t \in Threads : WriteStep(t)
           \/ \E m \in inflight : Serve(m)
           \/ \E m \in Message : Timeout(m)
           \/ Restart
  BY <1>5 DEF Next
<1>6. QED
  BY <1>1, <1>2, <1>3, <1>4, <1>5 DEF GateNext, Phase3Step, ResumeDirectly

-----------------------------------------------------------------------------
(* The invariant holds at the start and is kept by every step.             *)

LEMMA LinksHoldAtStart == GateInit => GateIInv
<1> SUFFICES ASSUME GateInit PROVE GateIInv
  OBVIOUS
<1>1. IInv
  BY TypeInit, GateInit0 DEF GateInit, IInv
<1>2. GateTypeOK
  BY <1>1 DEF GateInit, StoreInit, GateTypeOK, StoreTypeOK, IInv, TInv
<1>3. \A h \in Resumes : pc[h] = "idle" /\ origin[h] = NoRow
  BY DEF GateInit, Init, Threads
<1>4. LinkInv
  BY <1>3 DEF GateInit, StoreInit, LinkInv, RowsAreAboutRuns, ApprovedHasQuorum,
     OpenHasNoOutcome, WaitsForDecided, PostsAreUnused, OriginIsDecided,
     StartedByPost, OneResumePerRow, CompletionIsOwnOutcome, Exists, Decidable
<1>5. QED
  BY <1>1, <1>2, <1>4 DEF GateIInv

LEMMA GateTypes ==
  ASSUME GateIInv
  PROVE  /\ approvals \in [Rows -> RowType \cup {NoRow}]
         /\ deciding \in Rows \cup {NoRow}
         /\ overdue \subseteq Rows
         /\ resumePosts \subseteq Rows
         /\ notices \subseteq Runs
         /\ origin \in [Resumes -> Rows \cup {NoRow}]
         /\ NoRow \notin RowType /\ NoRow \notin Rows
         /\ \A a \in Rows : Exists(a) => approvals[a] \in RowType
BY ApprovalAssumption DEF GateIInv, GateTypeOK, StoreTypeOK, Exists

\* Steps of the workflow that start no resume.
LEMMA WorkflowMoves ==
  ASSUME GateIInv, IInv', \A h \in Resumes : CoroutineKept(h), StatesKept,
         UNCHANGED <<storeVars, resumePosts, origin>>,
         notices' \subseteq Runs,
         \A r \in notices' : r \in notices \/ wf'[r] # NoState
  PROVE  GateIInv'
<1>1. GateTypeOK'
  BY DEF GateIInv, GateTypeOK, StoreTypeOK, storeVars, IInv, TInv
<1>2. RowsAreAboutRuns'
  BY GateTypes, GateAssumption DEF GateIInv, LinkInv, RowsAreAboutRuns, StatesKept, storeVars,
     Exists, RowType
<1>3. ApprovedHasQuorum' /\ OpenHasNoOutcome' /\ WaitsForDecided' /\ PostsAreUnused'
  BY DEF GateIInv, LinkInv, ApprovedHasQuorum, OpenHasNoOutcome, WaitsForDecided,
     PostsAreUnused, Exists, Decidable, storeVars
<1>4. OriginIsDecided' /\ StartedByPost' /\ OneResumePerRow'
  BY DEF GateIInv, LinkInv, OriginIsDecided, StartedByPost, OneResumePerRow,
     CoroutineKept, Exists, storeVars
<1>5. CompletionIsOwnOutcome'
  BY DEF GateIInv, LinkInv, CompletionIsOwnOutcome, CoroutineKept, Exists, storeVars
<1>6. QED
  BY <1>1, <1>2, <1>3, <1>4, <1>5 DEF GateIInv, LinkInv

\* A post is handled: its row resumes the one coroutine started here.
LEMMA ResumePostHandled ==
  ASSUME GateIInv, IInv', NEW h \in Resumes, NEW a \in Rows, HandleResume(h, a)
  PROVE  GateIInv'
<1>1. a \in resumePosts /\ Exists(a) /\ \A k \in Resumes : origin[k] # a
  BY DEF HandleResume, GateIInv, LinkInv, PostsAreUnused
<1>2. approvals[a].status \in {"approved", "rejected"}
  BY <1>1, PostNamesIncident
<1>3. /\ pc[h] = "idle" /\ pc'[h] # "idle" /\ pc'[h] # "done"
      /\ wf'[h] # NoState => wf'[h].decision = approvals[a].status
      /\ \A k \in Resumes : k # h => CoroutineKept(k)
      /\ StatesKept
  <2>1. /\ IInv /\ IncidentOf(a) \in Incidents
        /\ \/ ResumeFound(h, IncidentOf(a), approvals[a].status)
           \/ ResumeMissing(h, IncidentOf(a))
    BY <1>1, PostNamesIncident DEF HandleResume, GateIInv
  <2>2. QED
    BY <1>2, <2>1, ResumeStarts
<1>4. /\ origin'[h] = a
      /\ \A k \in Resumes : k # h => origin'[k] = origin[k]
      /\ resumePosts' = resumePosts \ {a}
      /\ UNCHANGED <<approvals, overdue, deciding, notices>>
  BY GateTypes DEF HandleResume, storeVars
<1>5. GateTypeOK'
  <2>1. origin' \in [Resumes -> Rows \cup {NoRow}]
    BY GateTypes DEF HandleResume
  <2>2. QED
    BY <1>4, <2>1 DEF GateIInv, GateTypeOK, StoreTypeOK, IInv, TInv
<1>6. RowsAreAboutRuns'
  BY <1>3, <1>4, GateTypes, GateAssumption
     DEF GateIInv, LinkInv, RowsAreAboutRuns, StatesKept, Exists, RowType
<1>7. ApprovedHasQuorum' /\ OpenHasNoOutcome' /\ WaitsForDecided'
  BY <1>4 DEF GateIInv, LinkInv, ApprovedHasQuorum, OpenHasNoOutcome, WaitsForDecided,
     Exists, Decidable
<1>8. PostsAreUnused'
  BY <1>4 DEF GateIInv, LinkInv, PostsAreUnused, Exists
<1>9. OriginIsDecided'
  BY <1>1, <1>2, <1>3, <1>4 DEF GateIInv, LinkInv, OriginIsDecided, CoroutineKept,
     Exists, Final
<1>10. StartedByPost'
  BY <1>3, <1>4, GateTypes DEF GateIInv, LinkInv, StartedByPost, CoroutineKept
<1>11. OneResumePerRow'
  BY <1>1, <1>4 DEF GateIInv, LinkInv, OneResumePerRow
<1>12. CompletionIsOwnOutcome'
  BY <1>3, <1>4 DEF GateIInv, LinkInv, CompletionIsOwnOutcome, CoroutineKept, Exists
<1>13. QED
  BY <1>5, <1>6, <1>7, <1>8, <1>9, <1>10, <1>11, <1>12 DEF GateIInv, LinkInv

LEMMA DirectResumeHandled ==
  ASSUME GateIInv, IInv', NEW h \in Resumes, ResumeDirectly(h)
  PROVE  GateIInv'
<1>1. PICK i \in Incidents, d \in {"approved", "rejected"} :
        ResumeFound(h, i, d) \/ ResumeMissing(h, i)
  BY DEF ResumeDirectly, Resume
<1>2. /\ pc[h] = "idle" /\ pc'[h] # "idle"
      /\ \A k \in Resumes : k # h => CoroutineKept(k)
      /\ StatesKept
  BY <1>1, ResumeStarts DEF GateIInv
<1>3. origin[h] = NoRow
  BY <1>2, GateTypes DEF GateIInv, LinkInv, OriginIsDecided
<1>4. UNCHANGED <<approvals, overdue, deciding, notices, resumePosts, origin>>
  BY DEF ResumeDirectly, storeVars, linkVars
<1>5. GateTypeOK'
  BY <1>4 DEF GateIInv, GateTypeOK, StoreTypeOK, IInv, TInv
<1>6. RowsAreAboutRuns'
  BY <1>2, <1>4, GateTypes, GateAssumption
     DEF GateIInv, LinkInv, RowsAreAboutRuns, StatesKept, Exists, RowType
<1>7. /\ ApprovedHasQuorum' /\ OpenHasNoOutcome' /\ WaitsForDecided'
      /\ PostsAreUnused' /\ OneResumePerRow'
  BY <1>4 DEF GateIInv, LinkInv, ApprovedHasQuorum, OpenHasNoOutcome, WaitsForDecided,
     PostsAreUnused, OneResumePerRow, Exists, Decidable
<1>8. OriginIsDecided' /\ StartedByPost'
  BY <1>2, <1>3, <1>4 DEF GateIInv, LinkInv, OriginIsDecided, StartedByPost,
     CoroutineKept, Exists, ResumeDirectly
<1>9. CompletionIsOwnOutcome'
  BY <1>2, <1>3, <1>4, GateTypes DEF GateIInv, LinkInv, CompletionIsOwnOutcome,
     CoroutineKept, Exists
<1>10. QED
  BY <1>5, <1>6, <1>7, <1>8, <1>9 DEF GateIInv, LinkInv

-----------------------------------------------------------------------------
(* Phase 4's own steps: the workflow and the origins stay.                 *)

\* One row is set, keeping what it is about, by a step that leaves the decided
\* rows alone; the rest of the store follows.
LEMMA RowIsSet ==
  ASSUME GateIInv, NEW a \in Rows, NEW row \in RowType,
         approvals' = [approvals EXCEPT ![a] = row],
         UNCHANGED <<vars, overdue, origin>>,
         wf[row.subject] # NoState,
         row.status = "approved" => row.received >= row.needed,
         Exists(a) /\ Final(approvals[a].status) => row.status = approvals[a].status,
         row.status = "pending" =>
           row.completion = "none" /\ row.received < row.needed,
         row.completion = "none" \/
           \E h \in Resumes : /\ origin[h] = a
                             /\ pc[h] = "done"
                             /\ wf[h].status = row.completion,
         notices' \subseteq notices,
         deciding' \in {a, NoRow},
         deciding' = a => Final(row.status) /\ row.completion = "none",
         resumePosts' \subseteq resumePosts \cup {a},
         a \in resumePosts' => Final(row.status) /\ \A h \in Resumes : origin[h] # a
  PROVE  GateIInv'
<1>1. /\ approvals'[a] = row /\ row # NoRow
      /\ \A b \in Rows : b # a => approvals'[b] = approvals[b]
      /\ approvals' \in [Rows -> RowType \cup {NoRow}]
  BY GateTypes
<1>2. IInv'
  <2>1. [Next]_vars
    OBVIOUS
  <2>2. QED
    BY <2>1, GatePreserved DEF GateIInv
<1>3. /\ UNCHANGED <<pc, wf, overdue, origin>>
  BY DEF vars
<1>4. GateTypeOK'
  BY <1>1, <1>2, <1>3 DEF GateIInv, GateTypeOK, StoreTypeOK, IInv, TInv
<1>5. RowsAreAboutRuns' /\ ApprovedHasQuorum' /\ OpenHasNoOutcome'
  BY <1>1, <1>3 DEF GateIInv, LinkInv, RowsAreAboutRuns, ApprovedHasQuorum,
     OpenHasNoOutcome, Exists, Decidable
<1>6. WaitsForDecided'
  BY <1>1, <1>3 DEF WaitsForDecided, Exists
<1>7. PostsAreUnused'
  BY <1>1, <1>3, GateTypes DEF GateIInv, LinkInv, PostsAreUnused, Exists
<1>8. OriginIsDecided' /\ StartedByPost' /\ OneResumePerRow'
  BY <1>1, <1>3, GateTypes DEF GateIInv, LinkInv, OriginIsDecided, StartedByPost,
     OneResumePerRow, Exists
<1>9. CompletionIsOwnOutcome'
  BY <1>1, <1>3 DEF GateIInv, LinkInv, CompletionIsOwnOutcome, Exists
<1>10. QED
  BY <1>2, <1>4, <1>5, <1>6, <1>7, <1>8, <1>9 DEF GateIInv, LinkInv

LEMMA NoticeHandled ==
  ASSUME GateIInv, NEW r \in Runs, NEW a \in Rows, HandleNotice(r, a)
  PROVE  GateIInv'
<1> DEFINE row == [subject |-> r, needed |-> ApprovalsNeeded(wf[r].req),
                   received |-> 0, status |-> "pending", completion |-> "none"]
<1>1. row \in RowType
  BY GateAssumption DEF RowType, ApprovalsNeeded, MaxNeeded, RowStatuses
<1>2. /\ approvals' = [approvals EXCEPT ![a] = row]
      /\ UNCHANGED <<vars, overdue, origin, resumePosts>>
      /\ deciding' = NoRow
      /\ notices' \subseteq notices
      /\ ~Exists(a)
      /\ wf[r] # NoState
  BY DEF HandleNotice, CreateApproval, LoopFree, GateIInv, LinkInv, RowsAreAboutRuns
<1>3. a \notin resumePosts'
  BY <1>2 DEF GateIInv, LinkInv, PostsAreUnused
<1>4. NoRow # a
  BY GateTypes
<1>5. /\ row.subject = r /\ row.status = "pending" /\ row.completion = "none"
      /\ row.received < row.needed
  BY DEF ApprovalsNeeded
<1> HIDE DEF row
<1>6. QED
  BY <1>1, <1>2, <1>3, <1>4, <1>5, RowIsSet

\* The decision of a pending row: nobody was resumed with it yet.
LEMMA DecisionTaken ==
  ASSUME GateIInv, NEW a \in Rows, NEW v \in Verdicts, AnalystDecides(a, v)
  PROVE  GateIInv'
<1> DEFINE old == approvals[a]
           row == Decided(old, v)
<1>1. /\ old \in RowType /\ old.status = "pending" /\ old.completion = "none"
      /\ Exists(a)
  BY GateTypes DEF AnalystDecides, Decide, Decidable, GateIInv, LinkInv, OpenHasNoOutcome
<1>2. wf[old.subject] # NoState
  BY <1>1 DEF GateIInv, LinkInv, RowsAreAboutRuns
<1>3. \A h \in Resumes : origin[h] # a
  BY <1>1, GateTypes DEF GateIInv, LinkInv, OriginIsDecided, Final
<1>4. a \notin resumePosts
  BY <1>1 DEF GateIInv, LinkInv, PostsAreUnused, Final
<1>5. /\ row.subject = old.subject
      /\ row.completion = "none"
      /\ row.status = "approved" => row.received >= row.needed
  BY <1>1 DEF Decided, RowType, QuorumAfter, Verdicts
<1>6. /\ row.status = "pending" => row.received < row.needed
      /\ row \in RowType
  <2>1. CASE v = "rejected"
    BY <1>1, <2>1 DEF Decided, RowType, RowStatuses
  <2>2. CASE v # "rejected"
    <3>1. old.received + 1 \in 0..MaxNeeded
      BY <1>1 DEF AnalystDecides, Decide, GateIInv, LinkInv, OpenHasNoOutcome, RowType,
         MaxNeeded
    <3>2. row = [old EXCEPT !.received = @ + 1,
                            !.status = IF QuorumAfter(old) THEN "approved" ELSE @]
      BY <2>2 DEF Decided
    <3>3. /\ row.received = old.received + 1 /\ row.needed = old.needed
          /\ row.status = IF QuorumAfter(old) THEN "approved" ELSE "pending"
      BY <1>1, <3>2 DEF RowType
    <3>4. row \in RowType
      BY <1>1, <3>1, <3>2, <3>3 DEF RowType, RowStatuses
    <3>5. old.received \in Nat /\ old.needed \in Nat
      BY <1>1 DEF RowType, MaxNeeded
    <3>6. QED
      BY <3>3, <3>4, <3>5 DEF QuorumAfter
  <2>3. QED
    BY <2>1, <2>2
<1>7. /\ approvals' = [approvals EXCEPT ![a] = row]
      /\ UNCHANGED <<vars, overdue, origin>>
      /\ notices' \subseteq notices
      /\ deciding' = IF Final(row.status) THEN a ELSE NoRow
      /\ resumePosts' = IF deciding' = a THEN resumePosts \cup {a} ELSE resumePosts
  BY DEF AnalystDecides, Decide
<1>8. ~Final(old.status)
  BY <1>1 DEF Final
<1> HIDE DEF row
<1>9. QED
  BY <1>2, <1>3, <1>4, <1>5, <1>6, <1>7, <1>8, GateTypes, RowIsSet

\* The outcome stored is the one of the coroutine the row resumed.
LEMMA OutcomeStored ==
  ASSUME GateIInv, NEW h \in Resumes, AnswerResume(h)
  PROVE  GateIInv'
<1> DEFINE a == deciding
           row == [approvals[a] EXCEPT !.completion = wf[h].status]
<1>1. /\ a \in Rows /\ approvals[a] \in RowType /\ Final(approvals[a].status)
      /\ Exists(a)
      /\ origin[h] = a /\ pc[h] = "done"
  BY GateTypes DEF AnswerResume, Answering, LoopFree, GateIInv, LinkInv, WaitsForDecided
<1>2. wf[h].status \in Statuses
  <2>1. wf[h] \in WorkflowState
    BY <1>1, CarriedState, Types DEF GateIInv, IInv
  <2>2. QED
    BY <2>1 DEF WorkflowState
<1>3. /\ row \in RowType
      /\ row.subject = approvals[a].subject
      /\ row.status = approvals[a].status
      /\ row.received = approvals[a].received
      /\ row.needed = approvals[a].needed
      /\ row.completion = wf[h].status
  BY <1>1, <1>2, GateAssumption DEF RowType
<1>4. /\ approvals' = [approvals EXCEPT ![a] = row]
      /\ UNCHANGED <<vars, overdue, origin, notices, resumePosts>>
      /\ deciding' = NoRow
  BY DEF AnswerResume, ResumeAnswered, linkVars
<1>5. /\ wf[row.subject] # NoState
      /\ row.status = "approved" => row.received >= row.needed
      /\ row.status # "pending"
  BY <1>1, <1>3 DEF GateIInv, LinkInv, RowsAreAboutRuns, ApprovedHasQuorum, Final
<1>6. a \notin resumePosts'
  BY <1>1, <1>4 DEF GateIInv, LinkInv, PostsAreUnused
<1>7. /\ notices' \subseteq notices /\ resumePosts' \subseteq resumePosts \cup {a}
      /\ deciding' \in {a, NoRow} /\ deciding' # a
  BY <1>1, <1>4, GateTypes
<1> HIDE DEF row, a
<1>8. QED
  BY <1>1, <1>3, <1>4, <1>5, <1>6, <1>7, RowIsSet

\* The call was given up, a post was lost, or a deadline passed: no row changes.
LEMMA RowsStay ==
  ASSUME GateIInv, UNCHANGED <<vars, approvals, origin, notices>>,
         overdue' \subseteq Rows,
         deciding' \in {deciding, NoRow},
         resumePosts' \subseteq resumePosts
  PROVE  GateIInv'
<1>1. IInv'
  BY GatePreserved DEF GateIInv
<1>2. UNCHANGED <<pc, wf>>
  BY DEF vars
<1>3. GateTypeOK'
  BY <1>1, GateTypes DEF GateIInv, GateTypeOK, StoreTypeOK, IInv, TInv
<1>4. WaitsForDecided' /\ PostsAreUnused'
  BY DEF GateIInv, LinkInv, WaitsForDecided, PostsAreUnused, Exists
<1>5. QED
  BY <1>1, <1>2, <1>3, <1>4 DEF GateIInv, LinkInv, RowsAreAboutRuns, ApprovedHasQuorum,
     OpenHasNoOutcome, OriginIsDecided, StartedByPost, OneResumePerRow,
     CompletionIsOwnOutcome, Exists, Decidable

LEMMA RowCancelled ==
  ASSUME GateIInv, NEW a \in Rows, CancelApproval(a), UNCHANGED <<vars, linkVars>>
  PROVE  GateIInv'
<1> DEFINE row == [approvals[a] EXCEPT !.status = "cancelled"]
<1>1. /\ approvals[a] \in RowType /\ approvals[a].status = "pending"
      /\ approvals[a].completion = "none"
      /\ Exists(a)
  BY GateTypes DEF CancelApproval, Decidable, GateIInv, LinkInv, OpenHasNoOutcome
<1>2. /\ row \in RowType /\ row.subject = approvals[a].subject
      /\ row.status = "cancelled" /\ row.completion = "none"
  BY <1>1 DEF RowType, RowStatuses
<1>3. wf[row.subject] # NoState
  BY <1>1, <1>2 DEF GateIInv, LinkInv, RowsAreAboutRuns
<1>4. a \notin resumePosts /\ ~Final(approvals[a].status)
  BY <1>1 DEF GateIInv, LinkInv, PostsAreUnused, Final
<1>5. /\ approvals' = [approvals EXCEPT ![a] = row]
      /\ UNCHANGED <<vars, overdue, origin, notices, resumePosts>>
      /\ deciding' = NoRow
  BY DEF CancelApproval, LoopFree, linkVars
<1> HIDE DEF row
<1>6. QED
  BY <1>2, <1>3, <1>4, <1>5, GateTypes, RowIsSet

\* Only open rows expire, and nobody was resumed with those.
LEMMA RowsExpired ==
  ASSUME GateIInv, ExpireStale, UNCHANGED <<vars, linkVars>>
  PROVE  GateIInv'
<1>1. IInv'
  BY GatePreserved DEF GateIInv
<1>2. UNCHANGED <<pc, wf, overdue, deciding, notices, resumePosts, origin>>
  BY DEF vars, linkVars, ExpireStale
<1>3. \A a \in Stale : /\ a \in Rows /\ approvals[a] \in RowType /\ Exists(a)
                      /\ approvals[a].status = "pending"
                      /\ approvals[a].completion = "none"
  BY GateTypes DEF Stale, Decidable, GateIInv, LinkInv, OpenHasNoOutcome
<1>4. \A a \in Rows : a \notin Stale => approvals'[a] = approvals[a]
  BY DEF ExpireStale
<1>5. \A a \in Stale : /\ approvals'[a] \in RowType
                      /\ approvals'[a].subject = approvals[a].subject
                      /\ approvals'[a].status = "expired"
                      /\ approvals'[a].completion = "none"
  BY <1>3 DEF ExpireStale, RowType, RowStatuses
<1>6. approvals' \in [Rows -> RowType \cup {NoRow}]
  BY <1>4, <1>5, GateTypes DEF ExpireStale
<1>7. GateTypeOK'
  BY <1>1, <1>2, <1>6 DEF GateIInv, GateTypeOK, StoreTypeOK, IInv, TInv
<1>8. \A a \in Rows : approvals'[a] # NoRow <=> approvals[a] # NoRow
  BY <1>3, <1>4, <1>5, GateTypes DEF Exists
<1>9. \A a \in Rows :
        Exists(a) /\ Final(approvals[a].status) => approvals'[a] = approvals[a]
  BY <1>3, <1>4 DEF Final
<1>10. RowsAreAboutRuns' /\ ApprovedHasQuorum' /\ OpenHasNoOutcome'
  BY <1>2, <1>3, <1>4, <1>5, <1>8 DEF GateIInv, LinkInv, RowsAreAboutRuns,
     ApprovedHasQuorum, OpenHasNoOutcome, Decidable, Exists
<1>11. WaitsForDecided' /\ PostsAreUnused'
  BY <1>2, <1>9, GateTypes DEF GateIInv, LinkInv, WaitsForDecided, PostsAreUnused,
     Exists
<1>12. OriginIsDecided' /\ StartedByPost' /\ OneResumePerRow'
  BY <1>2, <1>9, GateTypes DEF GateIInv, LinkInv, OriginIsDecided, StartedByPost,
     OneResumePerRow, Exists
<1>13. CompletionIsOwnOutcome'
  BY <1>2, <1>4, <1>5, <1>8 DEF GateIInv, LinkInv, CompletionIsOwnOutcome, Exists
<1>14. QED
  BY <1>1, <1>7, <1>10, <1>11, <1>12, <1>13 DEF GateIInv, LinkInv

LEMMA Phase4StepKeeps == GateIInv /\ Phase4Step => GateIInv'
<1> SUFFICES ASSUME GateIInv, Phase4Step PROVE GateIInv'
  OBVIOUS
<1>1. CASE \E r \in Runs, a \in Rows : HandleNotice(r, a)
  BY <1>1, NoticeHandled
<1>2. CASE \E a \in Rows, v \in Verdicts : AnalystDecides(a, v)
  BY <1>2, DecisionTaken
<1>3. CASE \E h \in Resumes : AnswerResume(h)
  BY <1>3, OutcomeStored
<1>4. CASE GiveUpResume
  BY <1>4, RowsStay, GateTypes DEF GiveUpResume, ResumeFailed, linkVars
<1>5. ASSUME NEW a \in Rows, CancelApproval(a), UNCHANGED <<vars, linkVars>>
      PROVE  GateIInv'
  BY <1>5, RowCancelled
<1>6. ASSUME NEW a \in Rows, PassDeadline(a), UNCHANGED <<vars, linkVars>>
      PROVE  GateIInv'
  BY <1>6, RowsStay, GateTypes DEF PassDeadline, linkVars
<1>7. CASE ExpireStale /\ UNCHANGED <<vars, linkVars>>
  BY <1>7, RowsExpired
<1>8. QED
  BY <1>1, <1>2, <1>3, <1>4, <1>5, <1>6, <1>7 DEF Phase4Step

LEMMA Phase3StepKeeps == GateIInv /\ IInv' /\ Phase3Step => GateIInv'
<1> SUFFICES ASSUME GateIInv, IInv', Phase3Step PROVE GateIInv'
  OBVIOUS
<1>1. ASSUME NEW r \in Runs, PostNotice(r)
      PROVE  GateIInv'
  <2>1. RunStep(r) /\ wf[r] # NoState
    BY <1>1, CarriedState, Types DEF PostNotice, Notify, RunStep, GateIInv, IInv
  <2>2. (\A h \in Resumes : CoroutineKept(h)) /\ StatesKept
    BY <2>1, RunStepKeeps DEF GateIInv
  <2>3. /\ UNCHANGED <<storeVars, resumePosts, origin>>
        /\ notices' \subseteq Runs
        /\ \A q \in notices' : q \in notices \/ wf'[q] # NoState
    BY <1>1, <2>1, <2>2, GateTypes DEF PostNotice, StatesKept
  <2>4. QED
    BY <2>2, <2>3, WorkflowMoves
<1>2. ASSUME NEW r \in Runs, RunStep(r), UNCHANGED <<storeVars, linkVars>>
      PROVE  GateIInv'
  BY <1>2, RunStepKeeps, WorkflowMoves, GateTypes DEF linkVars, GateIInv
<1>3. ASSUME NEW h \in Resumes, ResumeDirectly(h)
      PROVE  GateIInv'
  BY <1>3, DirectResumeHandled
<1>4. ASSUME NEW h \in Resumes, NEW a \in Rows, HandleResume(h, a)
      PROVE  GateIInv'
  BY <1>4, ResumePostHandled
<1>5. ASSUME NEW t \in Threads, WriteStep(t), UNCHANGED <<storeVars, linkVars>>
      PROVE  GateIInv'
  <2>1. (\A h \in Resumes : CoroutineKept(h)) /\ StatesKept
    BY <1>5, WriteStepKeeps, Types DEF GateIInv
  <2>2. QED
    BY <1>5, <2>1, WorkflowMoves, GateTypes DEF linkVars
<1>6. ASSUME \/ \E m \in inflight : Serve(m)
             \/ \E m \in Message : Timeout(m)
             \/ Restart,
             UNCHANGED <<storeVars, linkVars>>
      PROVE  GateIInv'
  <2>1. (\A h \in Resumes : CoroutineKept(h)) /\ StatesKept
    BY <1>6, NetKeeps DEF GateIInv
  <2>2. QED
    BY <1>6, <2>1, WorkflowMoves, GateTypes DEF linkVars
<1>7. QED
  BY <1>1, <1>2, <1>3, <1>4, <1>5, <1>6 DEF Phase3Step

LEMMA LinksHold == GateIInv /\ [GateNext]_gateVars => GateIInv'
<1> SUFFICES ASSUME GateIInv, [GateNext]_gateVars PROVE GateIInv'
  OBVIOUS
<1>1. IInv'
  BY GateStepIsWorkflowStep, GatePreserved DEF GateIInv
<1>2. CASE Phase3Step
  BY <1>1, <1>2, Phase3StepKeeps
<1>3. CASE Phase4Step
  BY <1>3, Phase4StepKeeps
<1>4. CASE \E a \in Rows : LosePost(a)
  BY <1>4, RowsStay, GateTypes DEF LosePost, storeVars
<1>5. CASE UNCHANGED gateVars
  BY <1>5, RowsStay, GateTypes DEF gateVars, storeVars, linkVars
<1>6. QED
  BY <1>2, <1>3, <1>4, <1>5 DEF GateNext

LEMMA GateInvariantHolds == GateSpec => []GateIInv
BY LinksHoldAtStart, LinksHold, PTL DEF GateSpec

-----------------------------------------------------------------------------
(* The theorems.                                                           *)

\* Together with Phase 4 the workflow still is the workflow: what is proved of
\* Spec holds of the two services.
THEOREM GateImplementsWorkflow == GateSpec => Spec
<1>1. GateInit => Init
  BY DEF GateInit
<1>2. QED
  BY <1>1, GateStepIsWorkflowStep, GateInvariantHolds, PTL DEF GateSpec, Spec

\* A write of a paused run has an approved row, a row resumes once and with
\* the decision it ended with, and the outcome it stores is that resume's own.
THEOREM RowsStayInCharge == GateSpec => []RowsGovernWrites
<1>1. ASSUME GateIInv
      PROVE  ResumeCarriesDecision
  BY <1>1 DEF GateIInv, LinkInv, OriginIsDecided, ApprovedHasQuorum, GateTypeOK,
     ResumeCarriesDecision
<1>2. ASSUME GateIInv
      PROVE  WritesHaveApprovedRow
  <2>1. ASSUME ~DirectResume, NEW h \in Resumes, Wrote(h)
        PROVE  origin[h] # NoRow /\ approvals[origin[h]].status = "approved"
    <3>1. wf[h] # NoState /\ wf[h].decision = "approved"
      BY <1>2, <2>1, Types DEF GateIInv, IInv, GateInv, WritesAreApproved
    <3>2. pc[h] # "idle"
      BY <1>2, <3>1, Types DEF GateIInv, IInv, GateInv, IdleHasNoState
    <3>3. QED
      BY <1>2, <2>1, <3>1, <3>2 DEF GateIInv, LinkInv, StartedByPost, OriginIsDecided
  <2>2. QED
    BY <2>1 DEF WritesHaveApprovedRow
<1>3. GateIInv => RowsGovernWrites
  BY <1>1, <1>2 DEF GateIInv, LinkInv, RowsGovernWrites
<1>4. QED
  BY <1>3, GateInvariantHolds, PTL

\* A row that was decided, cancelled or expired keeps that, and its outcome is
\* stored once.
THEOREM DecidedRowsStayFinal == GateSpec => DecidedRowsAreFinal
<1> DEFINE DecisionStays(a) ==
      Exists(a) /\ ~Decidable(a) =>
        /\ approvals'[a] = [approvals[a] EXCEPT !.completion = approvals'[a].completion]
        /\ approvals[a].completion # "none" => approvals'[a] = approvals[a]
<1>1. ASSUME GateIInv, [GateNext]_gateVars, NEW a \in Rows, Exists(a), ~Decidable(a)
      PROVE  /\ approvals'[a] = [approvals[a] EXCEPT !.completion = approvals'[a].completion]
             /\ approvals[a].completion # "none" => approvals'[a] = approvals[a]
  <2>1. approvals[a] \in RowType
    BY <1>1, GateTypes
  <2>2. CASE approvals'[a] = approvals[a]
    BY <2>1, <2>2 DEF RowType
  <2>3. CASE \E h \in Resumes : AnswerResume(h)
    <3>1. PICK h \in Resumes : AnswerResume(h)
      BY <2>3
    <3>2. CASE a = deciding
      <4>1. approvals[a].completion = "none"
        BY <1>1, <3>1, <3>2 DEF AnswerResume, ResumeAnswered, LoopFree, GateIInv,
           LinkInv, WaitsForDecided
      <4>2. approvals'[a] = [approvals[a] EXCEPT !.completion = wf[h].status]
        BY <1>1, <3>1, <3>2, GateTypes DEF AnswerResume, ResumeAnswered
      <4>3. QED
        BY <2>1, <4>1, <4>2 DEF RowType
    <3>3. CASE a # deciding
      BY <1>1, <2>2, <3>1, <3>3, GateTypes DEF AnswerResume, ResumeAnswered
    <3>4. QED
      BY <3>2, <3>3
  <2>4. CASE \E r \in Runs, b \in Rows : HandleNotice(r, b)
    BY <1>1, <2>2, <2>4, GateTypes DEF HandleNotice, CreateApproval
  <2>5. CASE \E b \in Rows, v \in Verdicts : AnalystDecides(b, v)
    BY <1>1, <2>2, <2>5, GateTypes DEF AnalystDecides, Decide
  <2>6. CASE (\E b \in Rows : CancelApproval(b)) \/ ExpireStale
    BY <1>1, <2>2, <2>6, GateTypes DEF CancelApproval, ExpireStale, Stale
  <2>7. CASE UNCHANGED approvals
    BY <2>2, <2>7
  <2>8. CASE Phase3Step \/ (\E b \in Rows : LosePost(b)) \/ UNCHANGED gateVars
    <3>1. UNCHANGED approvals
      BY <2>8 DEF Phase3Step, PostNotice, ResumeDirectly, HandleResume, LosePost,
         gateVars, storeVars
    <3>2. QED
      BY <2>7, <3>1
  <2>9. CASE GiveUpResume \/ \E b \in Rows : PassDeadline(b)
    BY <2>7, <2>9 DEF GiveUpResume, ResumeFailed, PassDeadline
  <2>10. QED
    BY <1>1, <2>3, <2>4, <2>5, <2>6, <2>8, <2>9 DEF GateNext, Phase4Step
<1>2. GateIInv /\ [GateNext]_gateVars => [\A a \in Rows : DecisionStays(a)]_gateVars
  BY <1>1
<1>3. QED
  BY <1>2, GateInvariantHolds, PTL DEF GateSpec, DecidedRowsAreFinal

-----------------------------------------------------------------------------
(* The grouping of alerts: the order they are taken in.                    *)

\* The alerts sent are a sequence, each of them sent once.
LEMMA SentOnce ==
    ASSUME NEW alerts \in AlertLists
    PROVE  /\ alerts \in Seq(Alerts) /\ Len(alerts) \in Nat /\ DOMAIN alerts = 1 .. Len(alerts)
           /\ \A i \in 1 .. Len(alerts) : alerts[i] \in Alerts /\ alerts[i].ts \in Nat
           /\ \A i, j \in 1 .. Len(alerts) : alerts[i] = alerts[j] => i = j
<1>1. PICK n \in Nat : alerts \in [1 .. n -> Alerts] /\ IsInjective(alerts)
  BY GroupingAssumption DEF AlertLists
<1>2. alerts \in Seq(Alerts) /\ Len(alerts) = n /\ DOMAIN alerts = 1 .. n
  BY <1>1, FunctionIsSeq
<1>3. \A i \in 1 .. n : alerts[i] \in Alerts /\ alerts[i].ts \in Nat
  BY <1>1, GroupingAssumption
<1>4. \A i, j \in 1 .. n : alerts[i] = alerts[j] => i = j
  BY <1>1 DEF IsInjective
<1> QED BY <1>1, <1>2, <1>3, <1>4

\* Where an alert is taken: after those sooner than it.
SoonerThan(alerts) ==
    [i \in DOMAIN alerts |-> {j \in DOMAIN alerts : Sooner(alerts, j, i)}]
TakenAt(alerts, k) ==
    CHOOSE i \in DOMAIN alerts : Cardinality(SoonerThan(alerts)[i]) = k - 1

LEMMA PlacesInTime ==
    ASSUME NEW alerts \in AlertLists
    PROVE  /\ ByTime(alerts) = [k \in DOMAIN alerts |-> alerts[TakenAt(alerts, k)]]
           /\ \A k \in DOMAIN alerts :
                /\ TakenAt(alerts, k) \in DOMAIN alerts
                /\ Cardinality(SoonerThan(alerts)[TakenAt(alerts, k)]) = k - 1
           /\ \A i \in DOMAIN alerts : \E k \in DOMAIN alerts : TakenAt(alerts, k) = i
           /\ \A i, j \in DOMAIN alerts :
                Cardinality(SoonerThan(alerts)[i]) < Cardinality(SoonerThan(alerts)[j])
                  => Sooner(alerts, i, j)
<1> DEFINE D == DOMAIN alerts
           before == SoonerThan(alerts)
           n == Len(alerts)
<1>1. D = 1 .. n /\ n \in Nat /\ \A i \in D : alerts[i].ts \in Nat
  BY SentOnce
<1>2. IsFiniteSet(D) /\ Cardinality(D) = n
  BY <1>1, FS_Interval
<1>3. \A i, j \in D : j \in before[i] <=> Sooner(alerts, j, i)
  BY DEF SoonerThan
<1>4. before \in [D -> SUBSET D]
  BY DEF SoonerThan
<1>5. \A i \in D : before[i] = {j \in D : Sooner(alerts, j, i)}
  BY DEF SoonerThan
<1> HIDE DEF D, before, n
<1> DEFINE ts(i) == alerts[i].ts
<1>6. \A i, j \in D : Sooner(alerts, j, i) <=> ts(j) < ts(i) \/ (ts(j) = ts(i) /\ j < i)
  BY DEF Sooner
<1>7. \A i \in D : ts(i) \in Nat /\ i \in Nat
  BY <1>1
<1> HIDE DEF ts
<1>8. \A i \in D : i \notin before[i]
  BY <1>3, <1>6, <1>7
<1>9. \A i, j \in D : i \in before[j] => before[i] \subseteq before[j]
  <2> SUFFICES ASSUME NEW i \in D, NEW j \in D, i \in before[j], NEW k \in before[i]
               PROVE  k \in before[j]
    OBVIOUS
  <2>1. k \in D
    BY <1>4
  <2>2. Sooner(alerts, i, j) /\ Sooner(alerts, k, i)
    BY <1>3, <2>1
  <2> QED BY <1>3, <1>6, <1>7, <2>1, <2>2
<1>10. \A i, j \in D : i # j => i \in before[j] \/ j \in before[i]
  BY <1>3, <1>6, <1>7
<1>11. /\ \A i \in D : Cardinality(before[i]) \in 0 .. n - 1
       /\ \A k \in 0 .. n - 1 : \E i \in D : Cardinality(before[i]) = k
       /\ \A i, j \in D : i \in before[j] <=> Cardinality(before[i]) < Cardinality(before[j])
       /\ \A i, j \in D : Cardinality(before[i]) = Cardinality(before[j]) => i = j
  BY <1>2, <1>4, <1>8, <1>9, <1>10, PlacesAreTaken
<1>12. \A k \in D : TakenAt(alerts, k) \in D /\ Cardinality(before[TakenAt(alerts, k)]) = k - 1
  <2> SUFFICES ASSUME NEW k \in D
               PROVE  TakenAt(alerts, k) \in D /\ Cardinality(before[TakenAt(alerts, k)]) = k - 1
    OBVIOUS
  <2>1. k - 1 \in 0 .. n - 1
    BY <1>1
  <2>2. \E i \in D : Cardinality(before[i]) = k - 1
    BY <1>11, <2>1
  <2>3. TakenAt(alerts, k) = CHOOSE i \in D : Cardinality(before[i]) = k - 1
    BY DEF TakenAt, D, before
  <2> QED BY <2>2, <2>3
<1>13. \A i \in D : \E k \in D : TakenAt(alerts, k) = i
  <2> SUFFICES ASSUME NEW i \in D PROVE \E k \in D : TakenAt(alerts, k) = i
    OBVIOUS
  <2> DEFINE c == Cardinality(before[i])
  <2>1. c \in 0 .. n - 1
    BY <1>11
  <2> HIDE DEF c
  <2>2. c + 1 \in D /\ (c + 1) - 1 = c
    BY <1>1, <2>1
  <2>3. TakenAt(alerts, c + 1) \in D /\ Cardinality(before[TakenAt(alerts, c + 1)]) = c
    BY <1>12, <2>2
  <2>4. TakenAt(alerts, c + 1) = i
    BY <1>11, <2>3 DEF c
  <2> QED BY <2>2, <2>4
<1>14. ByTime(alerts) = [k \in D |-> alerts[TakenAt(alerts, k)]]
  <2>1. \A k : (CHOOSE i \in D : Cardinality({j \in D : Sooner(alerts, j, i)}) = k - 1)
               = TakenAt(alerts, k)
    <3>1. \A k : TakenAt(alerts, k) = CHOOSE i \in D : Cardinality(before[i]) = k - 1
      BY DEF TakenAt, D, before
    <3> QED BY <1>5, <3>1
  <2>2. ByTime(alerts) = [k \in D |-> alerts[CHOOSE i \in D :
                              Cardinality({j \in D : Sooner(alerts, j, i)}) = k - 1]]
    BY DEF ByTime, D
  <2> QED BY <2>1, <2>2
<1> QED BY <1>3, <1>11, <1>12, <1>13, <1>14 DEF D, before

\* Taken by time the alerts are those sent, each of them once.
LEMMA TakenInOrder ==
    ASSUME NEW alerts \in AlertLists
    PROVE  LET t == ByTime(alerts)  n == Len(alerts)
           IN  /\ t \in Seq(Alerts) /\ Len(t) = n /\ n \in Nat
               /\ \A k \in 1 .. n : t[k] \in Alerts /\ t[k].ts \in Nat
               /\ \A i, j \in 1 .. n : i < j => t[i].ts <= t[j].ts
               /\ \A i, j \in 1 .. n : t[i] = t[j] => i = j
               /\ \A i \in 1 .. n : \E k \in 1 .. n : t[k] = alerts[i]
               /\ \A k \in 1 .. n : \E i \in 1 .. n : t[k] = alerts[i]
<1> DEFINE t == ByTime(alerts)
           n == Len(alerts)
           c(k) == TakenAt(alerts, k)
           card(i) == Cardinality(SoonerThan(alerts)[i])
<1>1. /\ n \in Nat /\ DOMAIN alerts = 1 .. n
      /\ \A i \in 1 .. n : alerts[i] \in Alerts /\ alerts[i].ts \in Nat
      /\ \A i, j \in 1 .. n : alerts[i] = alerts[j] => i = j
  BY SentOnce
<1>2. /\ t = [k \in 1 .. n |-> alerts[c(k)]]
      /\ \A k \in 1 .. n : c(k) \in 1 .. n /\ card(c(k)) = k - 1
      /\ \A i \in 1 .. n : \E k \in 1 .. n : c(k) = i
      /\ \A i, j \in 1 .. n : card(i) < card(j) => Sooner(alerts, i, j)
  BY <1>1, PlacesInTime
<1> HIDE DEF t, n, c, card
<1>3. \A k \in 1 .. n : t[k] = alerts[c(k)] /\ t[k] \in Alerts /\ t[k].ts \in Nat
  BY <1>1, <1>2
<1>4. t \in [1 .. n -> Alerts]
  BY <1>2, <1>3
<1>5. t \in Seq(Alerts) /\ Len(t) = n
  BY <1>1, <1>4, FunctionIsSeq
<1>6. ASSUME NEW i \in 1 .. n, NEW j \in 1 .. n, i < j PROVE t[i].ts <= t[j].ts
  <2>1. c(i) \in 1 .. n /\ c(j) \in 1 .. n /\ card(c(i)) = i - 1 /\ card(c(j)) = j - 1
    BY <1>2
  <2>2. i - 1 < j - 1
    BY <1>1, <1>6
  <2>3. Sooner(alerts, c(i), c(j))
    BY <1>2, <2>1, <2>2
  <2> DEFINE x == alerts[c(i)].ts
             y == alerts[c(j)].ts
  <2>4. x \in Nat /\ y \in Nat /\ (x < y \/ x = y)
    BY <1>1, <2>1, <2>3 DEF Sooner
  <2>5. t[i].ts = x /\ t[j].ts = y
    BY <1>3
  <2> HIDE DEF x, y
  <2> QED BY <2>4, <2>5
<1>7. ASSUME NEW i \in 1 .. n, NEW j \in 1 .. n, t[i] = t[j] PROVE i = j
  <2>1. c(i) \in 1 .. n /\ c(j) \in 1 .. n /\ card(c(i)) = i - 1 /\ card(c(j)) = j - 1
    BY <1>2
  <2>2. c(i) = c(j)
    BY <1>1, <1>3, <1>7, <2>1
  <2>3. i - 1 = j - 1
    BY <2>1, <2>2
  <2> QED BY <1>1, <2>3
<1>8. \A i \in 1 .. n : \E k \in 1 .. n : t[k] = alerts[i]
  BY <1>2, <1>3
<1>9. \A k \in 1 .. n : \E i \in 1 .. n : t[k] = alerts[i]
  BY <1>2, <1>3
<1> QED BY <1>1, <1>3, <1>5, <1>6, <1>7, <1>8, <1>9 DEF t, n

-----------------------------------------------------------------------------
(* What there is after each of the alerts.                                 *)

LEMMA StagesOfGroups ==
    ASSUME NEW t, Len(t) \in Nat
    PROVE  /\ Grouped(t)[0] = <<>>
           /\ \A i \in 1 .. Len(t) : Grouped(t)[i] = Placed(Grouped(t)[i - 1], t[i])
<1> DEFINE n == Len(t)
           Step(f, i) == IF i = 0 THEN <<>> ELSE Placed(f[i - 1], t[i])
           Upto(k, f) == f = [i \in 0 .. k |-> Step(f, i)]
           Bad == {k \in 0 .. n : ~ \E f : Upto(k, f)}
<1>1. Bad = {}
  <2>1. SUFFICES ASSUME Bad # {} PROVE FALSE
    OBVIOUS
  <2>2. PICK k \in Bad : \A m \in Bad : ~(m < k)
    <3>1. Bad \subseteq Nat
      OBVIOUS
    <3> HIDE DEF Bad
    <3> QED BY <2>1, <3>1, LeastOf
  <2>3. k \in 0 .. n /\ \A f : ~Upto(k, f)
    BY <2>2
  <2>4. CASE k = 0
    <3> DEFINE f == [i \in 0 .. 0 |-> <<>>]
    <3>1. \A i \in 0 .. 0 : Step(f, i) = <<>>
      OBVIOUS
    <3>2. Upto(0, f)
      BY <3>1
    <3> QED BY <2>3, <2>4, <3>2
  <2>5. CASE k # 0
    <3>1. k - 1 \in 0 .. n /\ k - 1 < k /\ k \in Nat
      BY <2>3, <2>5
    <3>2. k - 1 \notin Bad
      BY <2>2, <3>1
    <3>3. \E f : Upto(k - 1, f)
      BY <3>1, <3>2
    <3>4. PICK f : Upto(k - 1, f)
      BY <3>3
    <3> DEFINE g == [i \in 0 .. k |-> IF i = k THEN Placed(f[k - 1], t[k]) ELSE f[i]]
    <3>5. g[k] = Placed(f[k - 1], t[k]) /\ \A i \in 0 .. k : i # k => g[i] = f[i]
      BY <3>1
    <3>6. ASSUME NEW i \in 0 .. k PROVE g[i] = Step(g, i)
      <4>1. CASE i = k
        <5>1. g[k - 1] = f[k - 1]
          BY <3>1, <3>5
        <5> HIDE DEF g
        <5> QED BY <2>5, <3>5, <4>1, <5>1
      <4>2. CASE i # k
        <5>1. i \in 0 .. k - 1 /\ i \in Int /\ k \in Int
          BY <3>1, <4>2
        <5>2. f[i] = Step(f, i)
          BY <3>4, <5>1
        <5>3. i # 0 => i - 1 \in 0 .. k /\ i - 1 # k
          BY <5>1
        <5>4. i # 0 => g[i - 1] = f[i - 1]
          BY <3>5, <5>3
        <5>5. g[i] = f[i]
          BY <3>5, <4>2
        <5> HIDE DEF g
        <5> QED BY <5>2, <5>4, <5>5
      <4> QED BY <4>1, <4>2
    <3>7. DOMAIN g = 0 .. k /\ g = [i \in 0 .. k |-> g[i]]
      OBVIOUS
    <3>8. Upto(k, g)
      <4> HIDE DEF g, Step
      <4> QED BY <3>6, <3>7
    <3> QED BY <2>3, <3>8
  <2> QED BY <2>4, <2>5
<1>2. n \in 0 .. n
  OBVIOUS
<1>3. \E f : Upto(n, f)
  BY <1>1, <1>2
<1> DEFINE stage == Grouped(t)
<1>4. stage = CHOOSE f : Upto(n, f)
  BY DEF Grouped
<1>5. Upto(n, CHOOSE f : Upto(n, f))
  <2> HIDE DEF Upto
  <2> QED BY <1>3, Zenon
<1>6. Upto(n, stage)
  <2> HIDE DEF Upto, stage
  <2> QED BY <1>4, <1>5, Zenon
<1> HIDE DEF stage
<1>7. \A i \in 0 .. n : stage[i] = Step(stage, i)
  BY <1>6
<1>8. 0 \in 0 .. n /\ \A i \in 1 .. n : i \in 0 .. n /\ i # 0
  OBVIOUS
<1> QED BY <1>7, <1>8 DEF stage

-----------------------------------------------------------------------------
(* A group: its alerts follow each other within the window.                *)

GroupRec == [alerts : Seq(Alerts), first : Nat, last : Nat]
IsGroup(g) ==
    /\ g \in GroupRec /\ Len(g.alerts) # 0
    /\ \A m, n \in 1 .. Len(g.alerts) : m < n => g.alerts[m].ts <= g.alerts[n].ts
    /\ g.last = g.alerts[Len(g.alerts)].ts
    /\ (g.first = 0 <=> g.last = 0) /\ g.first <= g.last
    /\ \A m \in 2 .. Len(g.alerts) :
         g.alerts[m - 1].ts # 0 => g.alerts[m].ts - g.alerts[m - 1].ts <= WindowSize
OpenedBy(a) == [alerts |-> <<a>>, first |-> a.ts, last |-> a.ts]

LEMMA OpenedIsGroup == ASSUME NEW a \in Alerts PROVE IsGroup(OpenedBy(a))
<1> DEFINE g == OpenedBy(a)
           s == <<a>>
<1>1. a.ts \in Nat
  BY GroupingAssumption
<1>2. s \in Seq(Alerts) /\ Len(s) = 1 /\ s[1] = a
  OBVIOUS
<1> HIDE DEF s
<1>3. g = [alerts |-> s, first |-> a.ts, last |-> a.ts]
  BY DEF OpenedBy, s
<1>4. g \in GroupRec /\ g.alerts = s /\ g.first = a.ts /\ g.last = a.ts
  BY <1>1, <1>2, <1>3 DEF GroupRec
<1> HIDE DEF g
<1>5. \A m \in 1 .. 1 : \A n \in 1 .. 1 : ~(m < n)
  OBVIOUS
<1>6. 2 .. 1 = {}
  OBVIOUS
<1>7. a.ts <= a.ts
  BY <1>1
<1>8. IsGroup(g)
  <2>1. Len(g.alerts) = 1 /\ g.last = g.alerts[Len(g.alerts)].ts
    BY <1>2, <1>4
  <2>2. \A m, n \in 1 .. Len(g.alerts) : ~(m < n)
    BY <1>5, <2>1
  <2>3. \A m \in 2 .. Len(g.alerts) : FALSE
    BY <1>6, <2>1
  <2>4. (g.first = 0 <=> g.last = 0) /\ g.first <= g.last
    BY <1>4, <1>7
  <2> QED BY <1>4, <2>1, <2>2, <2>3, <2>4 DEF IsGroup
<1> QED BY <1>8 DEF g

\* An alert that comes after those of a group and within its window leaves it a
\* group, with that alert at its end.
LEMMA GroupTakes ==
    ASSUME NEW g, IsGroup(g), NEW a \in Alerts, g.last <= a.ts, WithinWindow(a, g)
    PROVE  /\ IsGroup(Joined(g, a)) /\ Joined(g, a).alerts = Append(g.alerts, a)
           /\ Joined(g, a).last = a.ts
           /\ g.first # 0 => Joined(g, a).first = g.first
<1> DEFINE j == Joined(g, a)
           s == g.alerts
           r == Append(s, a)
           n == Len(s)
           x == g.first
           y == g.last
           z == a.ts
           fst == Earlier(x, z)
           lst == Later(y, z)
<1>1. z \in Nat /\ WindowSize \in Nat
  BY GroupingAssumption
<1>2. /\ s \in Seq(Alerts) /\ n \in Nat /\ n # 0 /\ x \in Nat /\ y \in Nat
      /\ y = s[n].ts /\ (x = 0 <=> y = 0) /\ x <= y /\ y <= z
  <2>1. s \in Seq(Alerts) /\ x \in Nat /\ y \in Nat
    BY DEF IsGroup, GroupRec
  <2>2. n \in Nat
    BY <2>1, LenProperties
  <2> QED BY <2>1, <2>2 DEF IsGroup
<1>3. /\ \A m, k \in 1 .. n : m < k => s[m].ts <= s[k].ts
      /\ \A m \in 2 .. n : s[m - 1].ts # 0 => s[m].ts - s[m - 1].ts <= WindowSize
  BY DEF IsGroup
<1>4. z = 0 \/ x = 0 \/ y = 0 \/ Distance(z, x) <= WindowSize \/ Distance(z, y) <= WindowSize
  BY DEF WithinWindow
<1>5. j = [alerts |-> r, first |-> fst, last |-> lst]
  <2>1. g = [alerts |-> g.alerts, first |-> g.first, last |-> g.last]
    BY DEF IsGroup, GroupRec
  <2>2. j = [g EXCEPT !.alerts = r, !.first = fst, !.last = lst]
    BY DEF Joined
  <2> HIDE DEF j, r, fst, lst
  <2> QED BY <2>1, <2>2
<1> HIDE DEF x, y, z
<1>6. fst \in Nat /\ fst = (IF x = 0 THEN z ELSE x) /\ lst = z
  BY <1>1, <1>2 DEF Earlier, Later
<1>7. y # 0 => z - y <= WindowSize
  BY <1>1, <1>2, <1>4 DEF Distance
<1> HIDE DEF s, fst, lst
<1>8. /\ r \in Seq(Alerts) /\ Len(r) = n + 1 /\ r[n + 1] = a
      /\ \A m \in 1 .. n : r[m] = s[m]
  BY <1>2, AppendProperties
<1> HIDE DEF r, n
<1>9. j \in GroupRec /\ j.alerts = r /\ j.first = fst /\ j.last = z
  BY <1>1, <1>5, <1>6, <1>8 DEF GroupRec
<1> HIDE DEF j
<1>10. \A m \in 1 .. n : s[m].ts \in Nat /\ s[m].ts <= y
  <2> SUFFICES ASSUME NEW m \in 1 .. n PROVE s[m].ts \in Nat /\ s[m].ts <= y
    OBVIOUS
  <2>1. s[m] \in Alerts
    BY <1>2, ElementOfSeq DEF n
  <2>2. s[m].ts \in Nat
    BY <2>1, GroupingAssumption
  <2>3. m = n \/ m < n
    BY <1>2
  <2>4. CASE m = n
    BY <1>2, <2>2, <2>4
  <2>5. CASE m < n
    <3>1. n \in 1 .. n
      BY <1>2
    <3> QED BY <1>2, <1>3, <2>2, <2>5, <3>1
  <2> QED BY <2>2, <2>3, <2>4, <2>5
<1>11. ASSUME NEW m \in 1 .. n + 1, NEW k \in 1 .. n + 1, m < k PROVE r[m].ts <= r[k].ts
  <2>1. m \in 1 .. n /\ (k = n + 1 \/ k \in 1 .. n)
    BY <1>2, <1>11
  <2>2. CASE k \in 1 .. n
    BY <1>3, <1>8, <1>11, <2>1, <2>2
  <2>3. CASE k = n + 1
    <3>1. r[k].ts = z /\ r[m].ts = s[m].ts
      BY <1>8, <2>1, <2>3 DEF z
    <3>2. s[m].ts \in Nat /\ s[m].ts <= y
      BY <1>10, <2>1
    <3> DEFINE w == s[m].ts
    <3> HIDE DEF w
    <3>3. w <= z
      BY <1>1, <1>2, <3>2 DEF w
    <3> QED BY <3>1, <3>3 DEF w
  <2> QED BY <2>1, <2>2, <2>3
<1>12. ASSUME NEW m \in 2 .. n + 1, r[m - 1].ts # 0
       PROVE  r[m].ts - r[m - 1].ts <= WindowSize
  <2>1. m - 1 \in 1 .. n /\ (m = n + 1 \/ m \in 2 .. n) /\ (m \in 2 .. n => m \in 1 .. n)
    BY <1>2
  <2>2. r[m - 1] = s[m - 1]
    BY <1>8, <2>1
  <2>3. CASE m \in 2 .. n
    BY <1>3, <1>8, <1>12, <2>1, <2>2, <2>3
  <2>4. CASE m = n + 1
    <3>1. r[m].ts = z
      BY <1>8, <2>4 DEF z
    <3>2. m - 1 = n
      BY <1>2, <2>4
    <3>3. r[m - 1].ts = y
      BY <1>2, <2>2, <3>2
    <3>4. y # 0
      BY <1>12, <3>3
    <3> QED BY <1>7, <3>1, <3>3, <3>4
  <2> QED BY <2>1, <2>3, <2>4
<1>13. r[n + 1].ts = z /\ n + 1 # 0
  BY <1>2, <1>8 DEF z
<1>14. (fst = 0 <=> z = 0) /\ fst <= z
  BY <1>1, <1>2, <1>6
<1>15. IsGroup(j)
  BY <1>8, <1>9, <1>11, <1>12, <1>13, <1>14 DEF IsGroup
<1>16. x # 0 => fst = x
  BY <1>6
<1> QED BY <1>9, <1>15, <1>16 DEF j, r, s, x, z

-----------------------------------------------------------------------------
(* Where an alert is placed.                                               *)

LEMMA SimilarityInRange ==
    ASSUME NEW l \in Alerts, NEW r \in Alerts
    PROVE  /\ Similarity(l, r) \in 0 .. 100
           /\ Fingerprint(l) = Fingerprint(r) => Similarity(l, r) = 100
<1> DEFINE v == IF Same(l, r, "rule") THEN 45 ELSE 0
           w == IF Same(l, r, "ip") THEN 35 ELSE 0
           x == IF Same(l, r, "agent") THEN 15 ELSE 0
           y == IF Distance(l.level, r.level) <= 1 THEN 5 ELSE 0
<1>1. v \in {0, 45} /\ w \in {0, 35} /\ x \in {0, 15} /\ y \in {0, 5}
  OBVIOUS
<1>2. Similarity(l, r) = IF Fingerprint(l) = Fingerprint(r) THEN 100 ELSE v + w + x + y
  BY DEF Similarity
<1> HIDE DEF v, w, x, y
<1>3. v + w + x + y \in 0 .. 100
  BY <1>1
<1> QED BY <1>2, <1>3

AreGroups(groups) ==
    groups \in Seq(GroupRec) /\ \A n \in 1 .. Len(groups) : IsGroup(groups[n])

\* A group that is chosen is in the window of the alert; when none is chosen, no
\* group in its window begins with an alert like it.
LEMMA ChosenIsNear ==
    ASSUME NEW groups, AreGroups(groups), NEW a \in Alerts
    PROVE  LET n == Chosen(groups, a)
           IN  /\ n = 0 \/ (n \in 1 .. Len(groups) /\ WithinWindow(a, groups[n]))
               /\ n = 0 => \A p \in 1 .. Len(groups) :
                    Fingerprint(a) = Fingerprint(groups[p].alerts[1])
                      => ~WithinWindow(a, groups[p])
<1> DEFINE len == Len(groups)
           near == [n \in DOMAIN groups |-> Similarity(a, groups[n].alerts[1])]
           open == {n \in DOMAIN groups : WithinWindow(a, groups[n]) /\ near[n] >= Threshold}
           best == {n \in open : \A m \in open : near[m] <= near[n]}
<1>1. DOMAIN groups = 1 .. len /\ len \in Nat
  BY LenProperties DEF AreGroups
<1>2. \A n \in 1 .. len : groups[n].alerts[1] \in Alerts
  <2> SUFFICES ASSUME NEW n \in 1 .. len PROVE groups[n].alerts[1] \in Alerts
    OBVIOUS
  <2> DEFINE s == groups[n].alerts
  <2>1. s \in Seq(Alerts) /\ Len(s) # 0
    BY DEF AreGroups, IsGroup, GroupRec
  <2> HIDE DEF s
  <2>2. Len(s) \in Nat /\ 1 \in 1 .. Len(s)
    BY <2>1, LenProperties
  <2>3. s[1] \in Alerts
    BY <2>1, <2>2, ElementOfSeq
  <2> QED BY <2>3 DEF s
<1>3. \A n \in 1 .. len :
         /\ near[n] = Similarity(a, groups[n].alerts[1]) /\ near[n] \in 0 .. 100
         /\ Fingerprint(a) = Fingerprint(groups[n].alerts[1]) => near[n] = 100
  BY <1>1, <1>2, SimilarityInRange
<1> HIDE DEF near
<1>4. open \in SUBSET (1 .. len) /\ \A n \in open : WithinWindow(a, groups[n])
  BY <1>1
<1>5. \A n \in 1 .. len : WithinWindow(a, groups[n]) /\ near[n] = 100 => n \in open
  BY <1>1, GroupingAssumption
<1> HIDE DEF open, len
<1>6. open # {} => best # {}
  <2> SUFFICES ASSUME open # {} PROVE best # {}
    OBVIOUS
  <2> DEFINE T == {100 - near[n] : n \in open}
  <2>1. \A n \in open : near[n] \in 0 .. 100
    BY <1>3, <1>4
  <2>2. T \in SUBSET Nat /\ T # {}
    BY <2>1
  <2>3. \E x \in T : \A y \in T : ~(y < x)
    <3> HIDE DEF T
    <3> QED BY <2>2, LeastOf
  <2>4. PICK n \in open : \A m \in open : ~(100 - near[m] < 100 - near[n])
    BY <2>3
  <2>5. ASSUME NEW m \in open PROVE near[m] <= near[n]
    <3> DEFINE x == near[m]
               y == near[n]
    <3>1. x \in Int /\ y \in Int /\ ~(100 - x < 100 - y)
      BY <2>1, <2>4
    <3> HIDE DEF x, y
    <3>2. x <= y
      BY <3>1
    <3> QED BY <3>2 DEF x, y
  <2> QED BY <2>5
<1>7. best \subseteq open
  OBVIOUS
<1>8. Chosen(groups, a) = IF best = {} THEN 0 ELSE Min(best)
  BY DEF Chosen, open, near
<1> HIDE DEF best
<1>9. best # {} => Min(best) \in best
  <2> SUFFICES ASSUME best # {} PROVE Min(best) \in best
    OBVIOUS
  <2>1. best \in SUBSET Nat
    BY <1>1, <1>4, <1>7 DEF len
  <2>2. PICK n \in best : \A m \in best : ~(m < n)
    BY <2>1, LeastOf
  <2>3. \A m \in best : n <= m
    BY <2>1, <2>2
  <2> QED BY <2>3 DEF Min
<1>10. CASE best = {}
  <2>1. open = {} /\ Chosen(groups, a) = 0
    BY <1>6, <1>8, <1>10
  <2>2. \A p \in 1 .. len : Fingerprint(a) = Fingerprint(groups[p].alerts[1])
                              => ~WithinWindow(a, groups[p])
    BY <1>3, <1>5, <2>1
  <2> QED BY <2>1, <2>2 DEF len
<1>11. CASE best # {}
  <2> DEFINE n == Chosen(groups, a)
  <2>1. n \in open
    BY <1>7, <1>8, <1>9, <1>11
  <2> HIDE DEF n
  <2>2. n \in 1 .. len /\ WithinWindow(a, groups[n]) /\ n # 0
    BY <1>4, <2>1
  <2> QED BY <2>2 DEF n, len
<1> QED BY <1>10, <1>11

JoinedIn(groups, more, a, n) ==
    /\ n \in 1 .. Len(groups) /\ WithinWindow(a, groups[n]) /\ Len(more) = Len(groups)
    /\ more[n] = Joined(groups[n], a)
    /\ \A p \in 1 .. Len(groups) : p # n => more[p] = groups[p]
OpenedIn(groups, more, a) ==
    /\ Len(more) = Len(groups) + 1 /\ more[Len(groups) + 1] = OpenedBy(a)
    /\ \A p \in 1 .. Len(groups) :
         /\ more[p] = groups[p]
         /\ Fingerprint(a) = Fingerprint(groups[p].alerts[1]) => ~WithinWindow(a, groups[p])

LEMMA PlacedSomewhere ==
    ASSUME NEW groups, AreGroups(groups), NEW a \in Alerts,
           \A n \in 1 .. Len(groups) : groups[n].last <= a.ts
    PROVE  /\ AreGroups(Placed(groups, a))
           /\ \/ \E n \in 1 .. Len(groups) : JoinedIn(groups, Placed(groups, a), a, n)
              \/ OpenedIn(groups, Placed(groups, a), a)
<1> DEFINE len == Len(groups)
           n == Chosen(groups, a)
           more == Placed(groups, a)
<1>1. /\ groups \in Seq(GroupRec) /\ len \in Nat /\ DOMAIN groups = 1 .. len
      /\ \A p \in 1 .. len : IsGroup(groups[p]) /\ groups[p] \in GroupRec
  BY LenProperties DEF AreGroups, IsGroup
<1>2. /\ n = 0 \/ (n \in 1 .. len /\ WithinWindow(a, groups[n]))
      /\ n = 0 => \A p \in 1 .. len : Fingerprint(a) = Fingerprint(groups[p].alerts[1])
                                       => ~WithinWindow(a, groups[p])
  BY ChosenIsNear
<1>3. more = IF n = 0 THEN Append(groups, OpenedBy(a))
             ELSE [groups EXCEPT ![n] = Joined(groups[n], a)]
  BY DEF Placed, OpenedBy
<1> HIDE DEF n, more
<1>4. CASE n = 0
  <2> DEFINE g == OpenedBy(a)
  <2>1. IsGroup(g) /\ g \in GroupRec
    BY OpenedIsGroup DEF IsGroup
  <2>2. more = Append(groups, g)
    BY <1>3, <1>4
  <2> HIDE DEF g
  <2>3. /\ more \in Seq(GroupRec) /\ Len(more) = len + 1 /\ more[len + 1] = g
        /\ \A p \in 1 .. len : more[p] = groups[p]
    BY <1>1, <2>1, <2>2, AppendProperties
  <2>4. \A p \in 1 .. len + 1 : p \in 1 .. len \/ p = len + 1
    BY <1>1
  <2>5. AreGroups(more)
    <3>1. \A p \in 1 .. Len(more) : IsGroup(more[p])
      BY <1>1, <2>1, <2>3, <2>4
    <3> QED BY <2>3, <3>1 DEF AreGroups
  <2>6. OpenedIn(groups, more, a)
    BY <1>2, <1>4, <2>3 DEF OpenedIn, g
  <2> QED BY <2>5, <2>6 DEF more
<1>5. CASE n # 0
  <2> DEFINE g == Joined(groups[n], a)
  <2>1. n \in 1 .. len /\ WithinWindow(a, groups[n])
    BY <1>2, <1>5
  <2>2. IsGroup(g) /\ g \in GroupRec
    <3>1. IsGroup(groups[n]) /\ groups[n].last <= a.ts
      BY <1>1, <2>1
    <3>2. IsGroup(g)
      BY <2>1, <3>1, GroupTakes
    <3> QED BY <3>2 DEF IsGroup
  <2>3. more = [groups EXCEPT ![n] = g]
    BY <1>3, <1>5
  <2> HIDE DEF g
  <2>4. /\ DOMAIN more = 1 .. len /\ more = [p \in 1 .. len |-> more[p]] /\ more[n] = g
        /\ \A p \in 1 .. len : p # n => more[p] = groups[p]
    BY <1>1, <2>1, <2>3
  <2>5. \A p \in 1 .. len : more[p] \in GroupRec /\ IsGroup(more[p])
    BY <1>1, <2>2, <2>4
  <2>6. more \in [1 .. len -> GroupRec]
    BY <2>4, <2>5
  <2>7. more \in Seq(GroupRec) /\ Len(more) = len
    BY <1>1, <2>6, FunctionIsSeq
  <2>8. AreGroups(more)
    BY <2>5, <2>7 DEF AreGroups
  <2>9. JoinedIn(groups, more, a, n)
    BY <2>1, <2>4, <2>7 DEF JoinedIn, g
  <2> QED BY <2>1, <2>8, <2>9 DEF more
<1> QED BY <1>4, <1>5

-----------------------------------------------------------------------------
(* Groups of alerts that are alike are a window apart.                     *)

Apart(g, h) ==
    Fingerprint(g.alerts[1]) = Fingerprint(h.alerts[1]) =>
        /\ h.first > 0 /\ g.first > 0
        /\ \A n \in 1 .. Len(g.alerts) :
             \/ Distance(h.first, g.alerts[n].ts) > WindowSize
             \/ g.alerts[n].ts > h.first

\* A group's first and last alert, and those between.
LEMMA GroupTimes ==
    ASSUME NEW g, IsGroup(g)
    PROVE  /\ g.alerts \in Seq(Alerts) /\ Len(g.alerts) \in Nat /\ Len(g.alerts) # 0
           /\ g.first \in Nat /\ g.last \in Nat /\ g.first <= g.last
           /\ g.first = 0 <=> g.last = 0
           /\ g.last = g.alerts[Len(g.alerts)].ts
           /\ \A n \in 1 .. Len(g.alerts) :
                g.alerts[n] \in Alerts /\ g.alerts[n].ts \in Nat /\ g.alerts[n].ts <= g.last
<1> DEFINE s == g.alerts
           len == Len(s)
<1>1. /\ s \in Seq(Alerts) /\ len # 0 /\ g.first \in Nat /\ g.last \in Nat
      /\ g.first <= g.last /\ (g.first = 0 <=> g.last = 0) /\ g.last = s[len].ts
      /\ \A m, n \in 1 .. len : m < n => s[m].ts <= s[n].ts
  BY DEF IsGroup, GroupRec
<1> HIDE DEF s
<1>2. len \in Nat /\ \A n \in 1 .. len : s[n] \in Alerts
  BY <1>1, LenProperties, ElementOfSeq
<1>3. \A n \in 1 .. len : s[n].ts \in Nat
  BY <1>2, GroupingAssumption
<1> HIDE DEF len
<1>4. ASSUME NEW n \in 1 .. len PROVE s[n].ts <= g.last
  <2>1. n = len \/ n < len
    BY <1>2
  <2>2. len \in 1 .. len
    BY <1>1, <1>2
  <2>3. CASE n = len
    BY <1>1, <1>3, <2>3
  <2>4. CASE n < len
    BY <1>1, <2>2, <2>4
  <2> QED BY <2>1, <2>3, <2>4
<1> QED BY <1>1, <1>2, <1>3, <1>4 DEF s, len

\* The earlier of two takes an alert: it is not at the time the later began.
LEMMA EarlierTakes ==
    ASSUME NEW g, IsGroup(g), NEW h, IsGroup(h), Apart(g, h), NEW a \in Alerts,
           g.last <= a.ts, h.last <= a.ts, WithinWindow(a, g)
    PROVE  Apart(Joined(g, a), h)
<1> DEFINE j == Joined(g, a)
           s == g.alerts
           r == j.alerts
           len == Len(s)
           z == a.ts
           x == g.first
           y == g.last
           b == h.first
<1>1. /\ s \in Seq(Alerts) /\ len \in Nat /\ len # 0 /\ x \in Nat /\ y \in Nat /\ x <= y
      /\ (x = 0 <=> y = 0) /\ y = s[len].ts /\ y <= z
  BY GroupTimes
<1>2. b \in Nat /\ h.last \in Nat /\ b <= h.last /\ z \in Nat
  BY GroupTimes, GroupingAssumption
<1>3. b <= z
  BY <1>2
<1>4. /\ r = Append(s, a) /\ (x # 0 => j.first = x)
  BY GroupTakes
<1>5. z = 0 \/ x = 0 \/ y = 0 \/ Distance(z, x) <= WindowSize \/ Distance(z, y) <= WindowSize
  BY DEF WithinWindow
<1> HIDE DEF s, r
<1>6. Len(r) = len + 1 /\ r[len + 1] = a /\ \A n \in 1 .. len : r[n] = s[n]
  BY <1>1, <1>4, AppendProperties
<1> HIDE DEF len, x, y, z, b, j
<1>7. r[1] = s[1]
  <2>1. 1 \in 1 .. len
    BY <1>1
  <2> QED BY <1>6, <2>1
<1>8. SUFFICES ASSUME Fingerprint(s[1]) = Fingerprint(h.alerts[1])
               PROVE  /\ b > 0 /\ j.first > 0
                      /\ \A n \in 1 .. Len(r) : Distance(b, r[n].ts) > WindowSize \/ r[n].ts > b
  BY <1>7 DEF Apart, b, r, j
<1>9. /\ b > 0 /\ x > 0
      /\ \A n \in 1 .. len : Distance(b, s[n].ts) > WindowSize \/ s[n].ts > b
  BY <1>8 DEF Apart, s, x, b, len
<1>10. j.first > 0
  BY <1>1, <1>4, <1>9
<1>11. z > b
  <2>1. SUFFICES ASSUME z = b PROVE FALSE
    BY <1>2, <1>3
  <2>2. Distance(b, y) > WindowSize \/ y > b
    <3>1. len \in 1 .. len
      BY <1>1
    <3> QED BY <1>1, <1>9, <3>1
  <2>3. ~(y > b)
    BY <1>1, <1>2, <2>1
  <2>4. WindowSize \in Nat
    BY GroupingAssumption
  <2>5. Distance(b, y) = b - y /\ Distance(b, x) = b - x /\ b - x >= b - y
    BY <1>1, <1>2, <1>3, <2>1 DEF Distance
  <2>6. y # 0 /\ x # 0 /\ b # 0
    BY <1>1, <1>9
  <2> QED BY <1>1, <1>2, <1>5, <2>1, <2>2, <2>3, <2>4, <2>5, <2>6
<1>12. ASSUME NEW n \in 1 .. Len(r)
       PROVE  Distance(b, r[n].ts) > WindowSize \/ r[n].ts > b
  <2>1. n \in 1 .. len \/ n = len + 1
    BY <1>1, <1>6
  <2>2. CASE n \in 1 .. len
    BY <1>6, <1>9, <2>2
  <2>3. CASE n = len + 1
    BY <1>6, <1>11, <2>3 DEF z
  <2> QED BY <2>1, <2>2, <2>3
<1> QED BY <1>9, <1>10, <1>12

\* The later takes an alert: it began as before.
LEMMA LaterTakes ==
    ASSUME NEW g, NEW h, IsGroup(h), Apart(g, h), NEW a \in Alerts,
           h.last <= a.ts, WithinWindow(a, h)
    PROVE  Apart(g, Joined(h, a))
<1> DEFINE j == Joined(h, a)
           s == h.alerts
           r == j.alerts
<1>1. s \in Seq(Alerts) /\ Len(s) \in Nat /\ Len(s) # 0 /\ h.first \in Nat
  BY GroupTimes
<1>2. r = Append(s, a) /\ (h.first # 0 => j.first = h.first)
  BY GroupTakes
<1> HIDE DEF s, r
<1>3. r[1] = s[1]
  <2>1. 1 \in 1 .. Len(s)
    BY <1>1
  <2> QED BY <1>1, <1>2, <2>1, AppendProperties
<1> HIDE DEF j
<1>4. CASE Fingerprint(g.alerts[1]) # Fingerprint(s[1])
  BY <1>3, <1>4 DEF Apart, r, s, j
<1>5. CASE Fingerprint(g.alerts[1]) = Fingerprint(s[1])
  <2>1. h.first > 0
    BY <1>5 DEF Apart, s
  <2>2. j.first = h.first
    BY <1>1, <1>2, <2>1
  <2>3. Apart(g, j)
    BY <1>5, <2>2 DEF Apart, s
  <2> QED BY <2>3 DEF j
<1> QED BY <1>4, <1>5

\* A group that is opened is apart from those like it.
LEMMA OpenedApart ==
    ASSUME NEW g, IsGroup(g), NEW a \in Alerts, g.last <= a.ts,
           Fingerprint(a) = Fingerprint(g.alerts[1]) => ~WithinWindow(a, g)
    PROVE  Apart(g, OpenedBy(a))
<1> DEFINE o == OpenedBy(a)
           s == g.alerts
           z == a.ts
           x == g.first
           y == g.last
<1>1. z \in Nat /\ WindowSize \in Nat /\ x \in Nat /\ y \in Nat /\ y <= z
      /\ \A n \in 1 .. Len(s) : s[n].ts \in Nat /\ s[n].ts <= y
  BY GroupTimes, GroupingAssumption
<1>2. o.first = z /\ o.alerts[1] = a
  BY DEF OpenedBy
<1> HIDE DEF o, s
<1>3. SUFFICES ASSUME Fingerprint(s[1]) = Fingerprint(a)
               PROVE  /\ z > 0 /\ x > 0
                      /\ \A n \in 1 .. Len(s) : Distance(z, s[n].ts) > WindowSize \/ s[n].ts > z
  BY <1>2 DEF Apart, s, o
<1>4. z # 0 /\ x # 0 /\ ~(Distance(z, y) <= WindowSize)
  BY <1>3 DEF WithinWindow, s
<1> HIDE DEF x, y, z
<1>5. z - y > WindowSize
  BY <1>1, <1>4 DEF Distance
<1>6. ASSUME NEW n \in 1 .. Len(s) PROVE Distance(z, s[n].ts) > WindowSize
  <2> DEFINE w == s[n].ts
  <2>1. w \in Nat /\ w <= y
    BY <1>1
  <2> HIDE DEF w
  <2>2. Distance(z, w) > WindowSize
    BY <1>1, <1>5, <2>1 DEF Distance
  <2> QED BY <2>2 DEF w
<1> QED BY <1>1, <1>4, <1>6

-----------------------------------------------------------------------------
(* Every alert taken is in one place of one group.                         *)

\* The places of an alert that is placed: a new one, and those there were.
NewPlace(groups, more, a, p, q) ==
    /\ p \in 1 .. Len(more) /\ q \in 1 .. Len(more[p].alerts) /\ more[p].alerts[q] = a
    /\ \A m \in 1 .. Len(more) : \A n \in 1 .. Len(more[m].alerts) :
         \/ m = p /\ n = q
         \/ /\ m \in 1 .. Len(groups) /\ n \in 1 .. Len(groups[m].alerts)
            /\ more[m].alerts[n] = groups[m].alerts[n]
    /\ \A m \in 1 .. Len(groups) : \A n \in 1 .. Len(groups[m].alerts) :
         /\ m \in 1 .. Len(more) /\ n \in 1 .. Len(more[m].alerts)
         /\ more[m].alerts[n] = groups[m].alerts[n]

LEMMA JoinedPlace ==
    ASSUME NEW groups, AreGroups(groups), NEW a \in Alerts, NEW more,
           NEW n \in 1 .. Len(groups), JoinedIn(groups, more, a, n), groups[n].last <= a.ts
    PROVE  /\ more[n].last = a.ts /\ Len(more[n].alerts) = Len(groups[n].alerts) + 1
           /\ NewPlace(groups, more, a, n, Len(groups[n].alerts) + 1)
<1> DEFINE s == groups[n].alerts
           r == more[n].alerts
           len == Len(s)
<1>1. IsGroup(groups[n]) /\ WithinWindow(a, groups[n]) /\ more[n] = Joined(groups[n], a)
  BY DEF AreGroups, JoinedIn
<1>2. s \in Seq(Alerts) /\ len \in Nat
  BY <1>1, GroupTimes
<1>3. r = Append(s, a) /\ more[n].last = a.ts
  BY <1>1, GroupTakes
<1>4. Len(more) = Len(groups) /\ \A p \in 1 .. Len(groups) : p # n => more[p] = groups[p]
  BY DEF JoinedIn
<1> HIDE DEF s, r
<1>5. Len(r) = len + 1 /\ r[len + 1] = a /\ \A q \in 1 .. len : r[q] = s[q]
  BY <1>2, <1>3, AppendProperties
<1> HIDE DEF len
<1>6. /\ len + 1 \in 1 .. len + 1 /\ \A q \in 1 .. len : q \in 1 .. len + 1
      /\ \A q \in 1 .. len + 1 : q = len + 1 \/ q \in 1 .. len
  BY <1>2
<1>7. ASSUME NEW p \in 1 .. Len(more), NEW q \in 1 .. Len(more[p].alerts)
      PROVE  \/ p = n /\ q = len + 1
             \/ /\ p \in 1 .. Len(groups) /\ q \in 1 .. Len(groups[p].alerts)
                /\ more[p].alerts[q] = groups[p].alerts[q]
  <2>1. CASE p = n
    <3>1. q = len + 1 \/ q \in 1 .. len
      BY <1>5, <1>6, <2>1 DEF r
    <3> QED BY <1>5, <2>1, <3>1 DEF r, s, len
  <2>2. CASE p # n
    BY <1>4, <2>2
  <2> QED BY <2>1, <2>2
<1>8. ASSUME NEW p \in 1 .. Len(groups), NEW q \in 1 .. Len(groups[p].alerts)
      PROVE  /\ p \in 1 .. Len(more) /\ q \in 1 .. Len(more[p].alerts)
             /\ more[p].alerts[q] = groups[p].alerts[q]
  <2>1. CASE p = n
    <3>1. q \in 1 .. len
      BY <2>1 DEF s, len
    <3> QED BY <1>4, <1>5, <1>6, <2>1, <3>1 DEF r, s, len
  <2>2. CASE p # n
    BY <1>4, <2>2
  <2> QED BY <2>1, <2>2
<1>9. n \in 1 .. Len(more) /\ len + 1 \in 1 .. Len(r) /\ r[len + 1] = a
  BY <1>4, <1>5, <1>6
<1> QED BY <1>3, <1>5, <1>7, <1>8, <1>9 DEF NewPlace, r, s, len

LEMMA OpenedPlace ==
    ASSUME NEW groups, AreGroups(groups), NEW a \in Alerts, NEW more, OpenedIn(groups, more, a)
    PROVE  /\ more[Len(groups) + 1].last = a.ts /\ Len(more[Len(groups) + 1].alerts) = 1
           /\ NewPlace(groups, more, a, Len(groups) + 1, 1)
<1> DEFINE len == Len(groups)
           g == more[len + 1]
<1>1. len \in Nat
  BY LenProperties DEF AreGroups
<1>2. /\ Len(more) = len + 1 /\ g = OpenedBy(a)
      /\ \A p \in 1 .. len : more[p] = groups[p]
  BY DEF OpenedIn
<1>3. g.alerts = <<a>> /\ g.last = a.ts
  BY <1>2 DEF OpenedBy
<1>4. Len(g.alerts) = 1 /\ g.alerts[1] = a
  BY <1>3
<1> HIDE DEF g, len
<1>5. /\ len + 1 \in 1 .. len + 1 /\ \A q \in 1 .. len : q \in 1 .. len + 1
      /\ \A q \in 1 .. len + 1 : q = len + 1 \/ q \in 1 .. len
      /\ 1 .. 1 = {1}
  BY <1>1
<1>6. ASSUME NEW p \in 1 .. Len(more), NEW q \in 1 .. Len(more[p].alerts)
      PROVE  \/ p = len + 1 /\ q = 1
             \/ /\ p \in 1 .. len /\ q \in 1 .. Len(groups[p].alerts)
                /\ more[p].alerts[q] = groups[p].alerts[q]
  <2>1. p = len + 1 \/ p \in 1 .. len
    BY <1>2, <1>5
  <2>2. CASE p = len + 1
    BY <1>4, <1>5, <2>2 DEF g
  <2>3. CASE p \in 1 .. len
    BY <1>2, <2>3
  <2> QED BY <2>1, <2>2, <2>3
<1>7. ASSUME NEW p \in 1 .. len, NEW q \in 1 .. Len(groups[p].alerts)
      PROVE  /\ p \in 1 .. Len(more) /\ q \in 1 .. Len(more[p].alerts)
             /\ more[p].alerts[q] = groups[p].alerts[q]
  BY <1>2, <1>5
<1>8. len + 1 \in 1 .. Len(more) /\ 1 \in 1 .. Len(g.alerts) /\ g.alerts[1] = a
  BY <1>2, <1>4, <1>5
<1> QED BY <1>3, <1>4, <1>6, <1>7, <1>8 DEF NewPlace, g, len

\* The groups hold the first k alerts of t, each of them in one place.
HoldsEach(t, k, groups) ==
    /\ \A i \in 1 .. k : \E m \in 1 .. Len(groups) : \E n \in 1 .. Len(groups[m].alerts) :
         groups[m].alerts[n] = t[i]
    /\ \A m \in 1 .. Len(groups) : \A n \in 1 .. Len(groups[m].alerts) :
         \E i \in 1 .. k : groups[m].alerts[n] = t[i]
    /\ \A m \in 1 .. Len(groups) : \A n \in 1 .. Len(groups[m].alerts) :
         \A p \in 1 .. Len(groups) : \A q \in 1 .. Len(groups[p].alerts) :
           groups[m].alerts[n] = groups[p].alerts[q] => m = p /\ n = q

LEMMA HoldsOneMore ==
    ASSUME NEW t, NEW k \in Nat, k # 0, NEW groups, NEW more, NEW p, NEW q,
           \A i, j \in 1 .. k : t[i] = t[j] => i = j,
           HoldsEach(t, k - 1, groups), NewPlace(groups, more, t[k], p, q)
    PROVE  HoldsEach(t, k, more)
<1>1. /\ \A i \in 1 .. k : i = k \/ i \in 1 .. k - 1
      /\ \A i \in 1 .. k - 1 : i \in 1 .. k /\ i # k
      /\ k \in 1 .. k
  OBVIOUS
<1>2. ASSUME NEW i \in 1 .. k
      PROVE  \E m \in 1 .. Len(more) : \E n \in 1 .. Len(more[m].alerts) :
               more[m].alerts[n] = t[i]
  <2>1. CASE i = k
    BY <2>1 DEF NewPlace
  <2>2. CASE i \in 1 .. k - 1
    <3>1. PICK m \in 1 .. Len(groups) : \E n \in 1 .. Len(groups[m].alerts) :
             groups[m].alerts[n] = t[i]
      BY <2>2 DEF HoldsEach
    <3>2. PICK n \in 1 .. Len(groups[m].alerts) : groups[m].alerts[n] = t[i]
      BY <3>1
    <3>3. m \in 1 .. Len(more) /\ n \in 1 .. Len(more[m].alerts) /\ more[m].alerts[n] = t[i]
      BY <3>2 DEF NewPlace
    <3> QED BY <3>3
  <2> QED BY <1>1, <2>1, <2>2
<1>3. ASSUME NEW m \in 1 .. Len(more), NEW n \in 1 .. Len(more[m].alerts),
             ~(m = p /\ n = q)
      PROVE  /\ m \in 1 .. Len(groups) /\ n \in 1 .. Len(groups[m].alerts)
             /\ more[m].alerts[n] = groups[m].alerts[n]
             /\ \E i \in 1 .. k - 1 : more[m].alerts[n] = t[i]
  <2>1. /\ m \in 1 .. Len(groups) /\ n \in 1 .. Len(groups[m].alerts)
        /\ more[m].alerts[n] = groups[m].alerts[n]
    BY <1>3 DEF NewPlace
  <2>2. \E i \in 1 .. k - 1 : groups[m].alerts[n] = t[i]
    BY <2>1 DEF HoldsEach
  <2> QED BY <2>1, <2>2
<1>4. p \in 1 .. Len(more) /\ q \in 1 .. Len(more[p].alerts) /\ more[p].alerts[q] = t[k]
  BY DEF NewPlace
<1>5. ASSUME NEW m \in 1 .. Len(more), NEW n \in 1 .. Len(more[m].alerts)
      PROVE  \E i \in 1 .. k : more[m].alerts[n] = t[i]
  <2>1. CASE m = p /\ n = q
    BY <1>1, <1>4, <2>1
  <2>2. CASE ~(m = p /\ n = q)
    <3>1. PICK i \in 1 .. k - 1 : more[m].alerts[n] = t[i]
      BY <1>3, <2>2
    <3> QED BY <1>1, <3>1
  <2> QED BY <2>1, <2>2
<1>6. ASSUME NEW m \in 1 .. Len(more), NEW n \in 1 .. Len(more[m].alerts),
             ~(m = p /\ n = q)
      PROVE  more[m].alerts[n] # t[k]
  <2>1. PICK i \in 1 .. k - 1 : more[m].alerts[n] = t[i]
    BY <1>3, <1>6
  <2>2. i \in 1 .. k /\ i # k
    BY <1>1
  <2> QED BY <1>1, <2>1, <2>2
<1>7. ASSUME NEW m \in 1 .. Len(more), NEW n \in 1 .. Len(more[m].alerts),
             NEW u \in 1 .. Len(more), NEW v \in 1 .. Len(more[u].alerts),
             more[m].alerts[n] = more[u].alerts[v]
      PROVE  m = u /\ n = v
  <2>1. CASE m = p /\ n = q
    BY <1>4, <1>6, <1>7, <2>1
  <2>2. CASE u = p /\ v = q
    BY <1>4, <1>6, <1>7, <2>2
  <2>3. CASE ~(m = p /\ n = q) /\ ~(u = p /\ v = q)
    <3>1. /\ m \in 1 .. Len(groups) /\ n \in 1 .. Len(groups[m].alerts)
          /\ more[m].alerts[n] = groups[m].alerts[n]
      BY <1>3, <2>3
    <3>2. /\ u \in 1 .. Len(groups) /\ v \in 1 .. Len(groups[u].alerts)
          /\ more[u].alerts[v] = groups[u].alerts[v]
      BY <1>3, <2>3
    <3>3. groups[m].alerts[n] = groups[u].alerts[v]
      BY <1>7, <3>1, <3>2
    <3>4. \A x \in 1 .. Len(groups) : \A y \in 1 .. Len(groups[x].alerts) :
            groups[m].alerts[n] = groups[x].alerts[y] => m = x /\ n = y
      BY <3>1 DEF HoldsEach
    <3> QED BY <3>2, <3>3, <3>4
  <2> QED BY <2>1, <2>2, <2>3
<1> QED BY <1>2, <1>5, <1>7 DEF HoldsEach

-----------------------------------------------------------------------------
(* What the sizes of the groups add up to.                                 *)

LEMMA StagesOfExtras ==
    ASSUME NEW sizes, Len(sizes) \in Nat
    PROVE  /\ Extras(sizes)[0] = 0
           /\ \A i \in 1 .. Len(sizes) : Extras(sizes)[i] = Extras(sizes)[i - 1] + Extra(sizes[i])
<1> DEFINE n == Len(sizes)
           Step(f, i) == IF i = 0 THEN 0 ELSE f[i - 1] + Extra(sizes[i])
           Upto(k, f) == f = [i \in 0 .. k |-> Step(f, i)]
           Bad == {k \in 0 .. n : ~ \E f : Upto(k, f)}
<1>1. Bad = {}
  <2>1. SUFFICES ASSUME Bad # {} PROVE FALSE
    OBVIOUS
  <2>2. PICK k \in Bad : \A m \in Bad : ~(m < k)
    <3>1. Bad \subseteq Nat
      OBVIOUS
    <3> HIDE DEF Bad
    <3> QED BY <2>1, <3>1, LeastOf
  <2>3. k \in 0 .. n /\ \A f : ~Upto(k, f)
    BY <2>2
  <2>4. CASE k = 0
    <3> DEFINE f == [i \in 0 .. 0 |-> 0]
    <3>1. \A i \in 0 .. 0 : Step(f, i) = 0
      OBVIOUS
    <3>2. Upto(0, f)
      BY <3>1
    <3> QED BY <2>3, <2>4, <3>2
  <2>5. CASE k # 0
    <3>1. k - 1 \in 0 .. n /\ k - 1 < k /\ k \in Nat
      BY <2>3, <2>5
    <3>2. k - 1 \notin Bad
      BY <2>2, <3>1
    <3>3. \E f : Upto(k - 1, f)
      BY <3>1, <3>2
    <3>4. PICK f : Upto(k - 1, f)
      BY <3>3
    <3> DEFINE g == [i \in 0 .. k |-> IF i = k THEN f[k - 1] + Extra(sizes[k]) ELSE f[i]]
    <3>5. g[k] = f[k - 1] + Extra(sizes[k]) /\ \A i \in 0 .. k : i # k => g[i] = f[i]
      BY <3>1
    <3>6. ASSUME NEW i \in 0 .. k PROVE g[i] = Step(g, i)
      <4>1. CASE i = k
        <5>1. g[k - 1] = f[k - 1]
          BY <3>1, <3>5
        <5> HIDE DEF g
        <5> QED BY <2>5, <3>5, <4>1, <5>1
      <4>2. CASE i # k
        <5>1. i \in 0 .. k - 1 /\ i \in Int /\ k \in Int
          BY <3>1, <4>2
        <5>2. f[i] = Step(f, i)
          BY <3>4, <5>1
        <5>3. i # 0 => i - 1 \in 0 .. k /\ i - 1 # k
          BY <5>1
        <5>4. i # 0 => g[i - 1] = f[i - 1]
          BY <3>5, <5>3
        <5>5. g[i] = f[i]
          BY <3>5, <4>2
        <5> HIDE DEF g
        <5> QED BY <5>2, <5>4, <5>5
      <4> QED BY <4>1, <4>2
    <3>7. DOMAIN g = 0 .. k /\ g = [i \in 0 .. k |-> g[i]]
      OBVIOUS
    <3>8. Upto(k, g)
      <4> HIDE DEF g, Step
      <4> QED BY <3>6, <3>7
    <3> QED BY <2>3, <3>8
  <2> QED BY <2>4, <2>5
<1>2. n \in 0 .. n
  OBVIOUS
<1>3. \E f : Upto(n, f)
  BY <1>1, <1>2
<1> DEFINE stage == Extras(sizes)
<1>4. stage = CHOOSE f : Upto(n, f)
  BY DEF Extras
<1>5. Upto(n, CHOOSE f : Upto(n, f))
  <2> HIDE DEF Upto
  <2> QED BY <1>3, Zenon
<1>6. Upto(n, stage)
  <2> HIDE DEF Upto, stage
  <2> QED BY <1>4, <1>5, Zenon
<1> HIDE DEF stage
<1>7. \A i \in 0 .. n : stage[i] = Step(stage, i)
  BY <1>6
<1>8. 0 \in 0 .. n /\ \A i \in 1 .. n : i \in 0 .. n /\ i # 0
  OBVIOUS
<1> QED BY <1>7, <1>8 DEF stage

\* The sums are integers, and grow by what a size is more than one.
LEMMA ExtrasAdd ==
    ASSUME NEW sizes, Len(sizes) \in Nat, \A i \in 1 .. Len(sizes) : sizes[i] \in Int
    PROVE  /\ Extras(sizes)[0] = 0
           /\ \A i \in 0 .. Len(sizes) : Extras(sizes)[i] \in Int
           /\ \A i \in 1 .. Len(sizes) : Extras(sizes)[i] = Extras(sizes)[i - 1] + (sizes[i] - 1)
<1> DEFINE n == Len(sizes)
           sum == Extras(sizes)
<1>1. n \in Nat /\ sum[0] = 0 /\ \A i \in 1 .. n : sum[i] = sum[i - 1] + (sizes[i] - 1)
  BY StagesOfExtras DEF Extra
<1>2. \A i \in 1 .. n : sizes[i] \in Int
  OBVIOUS
<1> HIDE DEF n, sum
<1> DEFINE Bad == {k \in 0 .. n : sum[k] \notin Int}
<1>3. Bad = {}
  <2>1. SUFFICES ASSUME Bad # {} PROVE FALSE
    OBVIOUS
  <2>2. PICK k \in Bad : \A m \in Bad : ~(m < k)
    <3>1. Bad \subseteq Nat
      BY <1>1
    <3> HIDE DEF Bad
    <3> QED BY <2>1, <3>1, LeastOf
  <2>3. k \in 0 .. n /\ sum[k] \notin Int /\ k # 0
    BY <1>1, <2>2
  <2>4. k \in 1 .. n /\ k - 1 \in 0 .. n /\ k - 1 < k
    BY <1>1, <2>3
  <2>5. k - 1 \notin Bad
    BY <2>2, <2>4
  <2>6. sum[k - 1] \in Int
    BY <2>4, <2>5
  <2> DEFINE x == sum[k - 1]
             y == sizes[k]
  <2>7. x \in Int /\ y \in Int /\ sum[k] = x + (y - 1)
    BY <1>1, <1>2, <2>4, <2>6
  <2> HIDE DEF x, y
  <2> QED BY <2>3, <2>7
<1> QED BY <1>1, <1>3 DEF n, sum

\* Sizes that differ by one at p, or nowhere, add up to one more from p on.
LEMMA ExtrasDiffer ==
    ASSUME NEW s, Len(s) \in Nat, \A i \in 1 .. Len(s) : s[i] \in Int,
           NEW r, Len(r) \in Nat, \A i \in 1 .. Len(r) : r[i] \in Int,
           NEW n \in Nat, n <= Len(s), n <= Len(r), NEW p \in 0 .. n,
           \A i \in 1 .. n : i # p => r[i] = s[i],
           p # 0 => r[p] = s[p] + 1
    PROVE  Extras(r)[n] = IF p # 0 THEN Extras(s)[n] + 1 ELSE Extras(s)[n]
<1> DEFINE e == Extras(s)
           f == Extras(r)
           more(k) == IF p # 0 /\ p <= k THEN 1 ELSE 0
           Bad == {k \in 0 .. n : f[k] # e[k] + more(k)}
<1>1. /\ e[0] = 0 /\ \A i \in 0 .. n : e[i] \in Int
      /\ \A i \in 1 .. n : e[i] = e[i - 1] + (s[i] - 1)
  <2>1. \A i \in 0 .. n : i \in 0 .. Len(s)
    OBVIOUS
  <2>2. \A i \in 1 .. n : i \in 1 .. Len(s)
    OBVIOUS
  <2> QED BY <2>1, <2>2, ExtrasAdd
<1>2. /\ f[0] = 0 /\ \A i \in 0 .. n : f[i] \in Int
      /\ \A i \in 1 .. n : f[i] = f[i - 1] + (r[i] - 1)
  <2>1. \A i \in 0 .. n : i \in 0 .. Len(r)
    OBVIOUS
  <2>2. \A i \in 1 .. n : i \in 1 .. Len(r)
    OBVIOUS
  <2> QED BY <2>1, <2>2, ExtrasAdd
<1>3. \A i \in 1 .. n : s[i] \in Int
  OBVIOUS
<1> HIDE DEF e, f
<1>4. SUFFICES ASSUME Bad # {} PROVE FALSE
  <2>1. n \in 0 .. n /\ e[n] \in Int
    BY <1>1
  <2>2. CASE Bad = {}
    <3>1. f[n] = e[n] + more(n)
      BY <2>1, <2>2
    <3> DEFINE x == e[n]
               y == f[n]
    <3>2. x \in Int /\ y = x + more(n) /\ more(n) = (IF p # 0 THEN 1 ELSE 0)
      BY <2>1, <3>1
    <3> HIDE DEF x, y
    <3>3. y = IF p # 0 THEN x + 1 ELSE x
      BY <3>2
    <3> QED BY <3>3 DEF x, y, e, f
  <2> QED BY <2>2
<1>5. PICK k \in Bad : \A m \in Bad : ~(m < k)
  <2>1. Bad \subseteq Nat
    OBVIOUS
  <2> HIDE DEF Bad
  <2> QED BY <1>4, <2>1, LeastOf
<1>6. k \in 0 .. n /\ f[k] # e[k] + more(k) /\ k # 0
  BY <1>1, <1>2, <1>5
<1>7. k \in 1 .. n /\ k - 1 \in 0 .. n /\ k - 1 < k
  BY <1>6
<1>8. k - 1 \notin Bad
  BY <1>5, <1>7
<1>9. f[k - 1] = e[k - 1] + more(k - 1)
  BY <1>7, <1>8
<1> DEFINE x == e[k - 1]
           y == s[k]
           o == IF k = p THEN 1 ELSE 0
<1>10. x \in Int /\ y \in Int /\ e[k] = x + (y - 1) /\ r[k] = y + o
  BY <1>1, <1>3, <1>7
<1>11. f[k] = (x + more(k - 1)) + ((y + o) - 1)
  BY <1>2, <1>7, <1>9, <1>10
<1>12. more(k) = more(k - 1) + o /\ more(k - 1) \in Int /\ o \in Int
  BY <1>7
<1> DEFINE u == more(k)
           v == more(k - 1)
<1> HIDE DEF x, y, o, u, v
<1> QED BY <1>6, <1>10, <1>11, <1>12 DEF u, v

\* No size is more than one above the sum.
LEMMA ExtrasBound ==
    ASSUME NEW sizes, Len(sizes) \in Nat, \A i \in 1 .. Len(sizes) : sizes[i] \in Nat /\ sizes[i] # 0
    PROVE  \A k \in 0 .. Len(sizes) :
             /\ Extras(sizes)[k] \in Nat
             /\ \A p \in 1 .. k : sizes[p] <= Extras(sizes)[k] + 1
<1> DEFINE n == Len(sizes)
           sum == Extras(sizes)
           Good(k) == sum[k] \in Nat /\ \A p \in 1 .. k : sizes[p] <= sum[k] + 1
           Bad == {k \in 0 .. n : ~Good(k)}
<1>1. /\ n \in Nat /\ sum[0] = 0
      /\ \A i \in 1 .. n : sum[i] = sum[i - 1] + (sizes[i] - 1)
  BY ExtrasAdd
<1>2. \A i \in 1 .. n : sizes[i] \in Nat /\ sizes[i] # 0
  OBVIOUS
<1> HIDE DEF n, sum
<1>3. SUFFICES ASSUME Bad # {} PROVE FALSE
  BY DEF n, sum
<1>4. PICK k \in Bad : \A m \in Bad : ~(m < k)
  <2>1. Bad \subseteq Nat
    BY <1>1
  <2> HIDE DEF Bad
  <2> QED BY <1>3, <2>1, LeastOf
<1>5. k \in 0 .. n /\ ~Good(k)
  BY <1>4
<1>6. k # 0
  <2>1. 1 .. 0 = {} /\ 0 \in Nat
    OBVIOUS
  <2>2. Good(0)
    BY <1>1, <2>1
  <2> HIDE DEF Good
  <2> QED BY <1>5, <2>2
<1>7. k \in 1 .. n /\ k - 1 \in 0 .. n /\ k - 1 < k
  BY <1>1, <1>5, <1>6
<1>8. Good(k - 1)
  <2>1. k - 1 \notin Bad
    BY <1>4, <1>7
  <2> HIDE DEF Good
  <2> QED BY <1>7, <2>1
<1> DEFINE x == sum[k - 1]
           y == sizes[k]
<1>9. x \in Nat /\ y \in Nat /\ y # 0 /\ sum[k] = x + (y - 1)
  BY <1>1, <1>2, <1>7, <1>8
<1>10. ASSUME NEW p \in 1 .. k PROVE sizes[p] <= sum[k] + 1
  <2>1. p = k \/ p \in 1 .. k - 1
    BY <1>7
  <2>2. CASE p = k
    <3>1. sizes[p] = y
      BY <2>2
    <3> HIDE DEF x, y
    <3>2. y <= (x + (y - 1)) + 1
      BY <1>9
    <3> QED BY <1>9, <3>1, <3>2
  <2>3. CASE p \in 1 .. k - 1
    <3>0. p \in 1 .. n
      BY <1>1, <1>7
    <3>1. sizes[p] <= x + 1 /\ sizes[p] \in Nat
      BY <1>2, <1>8, <2>3, <3>0
    <3> DEFINE z == sizes[p]
    <3> HIDE DEF x, y, z
    <3>2. z <= (x + (y - 1)) + 1
      BY <1>9, <3>1 DEF z
    <3> QED BY <1>9, <3>2 DEF z
  <2> QED BY <2>1, <2>2, <2>3
<1>11. sum[k] \in Nat
  <2> HIDE DEF x, y
  <2> QED BY <1>9
<1> QED BY <1>5, <1>10, <1>11

LEMMA SizesAre ==
    ASSUME NEW groups, AreGroups(groups)
    PROVE  /\ Len(groups) \in Nat /\ Len(SizesOf(groups)) = Len(groups)
           /\ DOMAIN SizesOf(groups) = 1 .. Len(groups) /\ DOMAIN groups = 1 .. Len(groups)
           /\ \A n \in 1 .. Len(groups) :
                /\ SizesOf(groups)[n] = Len(groups[n].alerts)
                /\ SizesOf(groups)[n] \in Nat /\ SizesOf(groups)[n] # 0
<1> DEFINE len == Len(groups)
           sizes == SizesOf(groups)
<1>1. len \in Nat /\ DOMAIN groups = 1 .. len /\ \A n \in 1 .. len : IsGroup(groups[n])
  BY LenProperties DEF AreGroups
<1>2. \A n \in 1 .. len : Len(groups[n].alerts) \in Nat /\ Len(groups[n].alerts) # 0
  BY <1>1, GroupTimes
<1>3. sizes = [n \in 1 .. len |-> Len(groups[n].alerts)]
  BY <1>1 DEF SizesOf
<1> HIDE DEF len, sizes
<1>4. sizes \in [1 .. len -> Nat]
  BY <1>2, <1>3
<1>5. Len(sizes) = len /\ DOMAIN sizes = 1 .. len
  BY <1>1, <1>4, FunctionIsSeq
<1>6. \A n \in 1 .. len : sizes[n] = Len(groups[n].alerts)
  BY <1>3
<1> QED BY <1>1, <1>2, <1>5, <1>6 DEF len, sizes

\* The groups and what is more than one in each.
AlertsTaken(groups) == Len(groups) + Extras(SizesOf(groups))[Len(groups)]

LEMMA HeldOneMore ==
    ASSUME NEW groups, AreGroups(groups), NEW more, AreGroups(more), NEW a \in Alerts,
           \A n \in 1 .. Len(groups) : groups[n].last <= a.ts,
           (\E n \in 1 .. Len(groups) : JoinedIn(groups, more, a, n)) \/ OpenedIn(groups, more, a)
    PROVE  AlertsTaken(groups) \in Nat /\ AlertsTaken(more) = AlertsTaken(groups) + 1
<1> DEFINE len == Len(groups)
           s == SizesOf(groups)
           r == SizesOf(more)
           sum == Extras(s)[len]
<1>1. /\ len \in Nat /\ Len(s) = len
      /\ \A n \in 1 .. len : s[n] = Len(groups[n].alerts) /\ s[n] \in Nat /\ s[n] # 0
  BY SizesAre
<1>2. /\ Len(more) \in Nat /\ Len(r) = Len(more)
      /\ \A n \in 1 .. Len(more) : r[n] = Len(more[n].alerts) /\ r[n] \in Nat
  BY SizesAre
<1>3. AlertsTaken(groups) = len + sum /\ AlertsTaken(more) = Len(more) + Extras(r)[Len(more)]
  BY DEF AlertsTaken
<1>4. sum \in Nat
  <2>1. len \in 0 .. len
    BY <1>1
  <2> HIDE DEF s
  <2> QED BY <1>1, <2>1, ExtrasBound
<1> HIDE DEF len, s, r, sum
<1>5. CASE \E n \in 1 .. len : JoinedIn(groups, more, a, n)
  <2>1. PICK n \in 1 .. len : JoinedIn(groups, more, a, n)
    BY <1>5
  <2>2. Len(more) = len /\ \A p \in 1 .. len : p # n => more[p] = groups[p]
    BY <2>1 DEF JoinedIn, len
  <2>3. groups[n].last <= a.ts /\ n \in 1 .. Len(groups)
    BY DEF len
  <2>4. Len(more[n].alerts) = Len(groups[n].alerts) + 1
    BY <2>1, <2>3, JoinedPlace
  <2>5. (\A i \in 1 .. len : i # n => r[i] = s[i]) /\ r[n] = s[n] + 1
    <3>1. \A i \in 1 .. len : i # n => r[i] = s[i]
      BY <1>1, <1>2, <2>2
    <3>2. r[n] = s[n] + 1
      BY <1>1, <1>2, <2>2, <2>4
    <3> QED BY <3>1, <3>2
  <2>6. len <= Len(s) /\ len <= Len(r) /\ n \in 0 .. len /\ n # 0
    BY <1>1, <1>2, <2>2
  <2>7. Extras(r)[len] = IF n # 0 THEN Extras(s)[len] + 1 ELSE Extras(s)[len]
    <3>1. \A i \in 1 .. Len(s) : s[i] \in Int
      BY <1>1
    <3>2. \A i \in 1 .. Len(r) : r[i] \in Int
      BY <1>2
    <3>3. Len(s) \in Nat /\ Len(r) \in Nat /\ len \in Nat
      BY <1>1, <1>2
    <3> QED BY <2>5, <2>6, <3>1, <3>2, <3>3, ExtrasDiffer
  <2>8. Extras(r)[len] = sum + 1
    BY <2>6, <2>7 DEF sum
  <2> QED BY <1>1, <1>3, <1>4, <2>2, <2>8
<1>6. CASE OpenedIn(groups, more, a)
  <2>1. Len(more) = len + 1 /\ \A p \in 1 .. len : more[p] = groups[p]
    BY <1>6 DEF OpenedIn, len
  <2>2. Len(more[len + 1].alerts) = 1
    BY <1>6, OpenedPlace DEF len
  <2>3. len + 1 \in 1 .. len + 1 /\ (len + 1) - 1 = len /\ \A i \in 1 .. len : i \in 1 .. len + 1
    BY <1>1
  <2>4. r[len + 1] = 1
    BY <1>2, <2>1, <2>2, <2>3
  <2>5. \A i \in 1 .. len : r[i] = s[i]
    BY <1>1, <1>2, <2>1, <2>3
  <2>6. len <= Len(s) /\ len <= Len(r) /\ 0 \in 0 .. len
    BY <1>1, <1>2, <2>1
  <2>7. \A i \in 1 .. Len(r) : r[i] \in Int
    BY <1>2
  <2>8. Extras(r)[len] = IF 0 # 0 THEN Extras(s)[len] + 1 ELSE Extras(s)[len]
    <3>1. \A i \in 1 .. Len(s) : s[i] \in Int
      BY <1>1
    <3>2. Len(s) \in Nat /\ Len(r) \in Nat /\ len \in Nat
      BY <1>1, <1>2
    <3> DEFINE o == 0
    <3>3. o \in 0 .. len /\ o = 0
      BY <2>6
    <3> HIDE DEF o
    <3>4. Extras(r)[len] = IF o # 0 THEN Extras(s)[len] + 1 ELSE Extras(s)[len]
      BY <2>5, <2>6, <2>7, <3>1, <3>2, <3>3, ExtrasDiffer
    <3> QED BY <3>3, <3>4
  <2>9. Extras(r)[len + 1] = Extras(r)[len] + (r[len + 1] - 1)
    <3>1. \A i \in 1 .. Len(r) : Extras(r)[i] = Extras(r)[i - 1] + (r[i] - 1)
      BY <1>2, <2>7, ExtrasAdd
    <3> QED BY <1>2, <2>1, <2>3, <3>1
  <2>10. Extras(r)[len + 1] = sum
    BY <1>4, <2>4, <2>8, <2>9 DEF sum
  <2> QED BY <1>1, <1>3, <1>4, <2>1, <2>10
<1> QED BY <1>5, <1>6 DEF len

-----------------------------------------------------------------------------
(* The groups after each of the alerts.                                    *)

\* Alerts taken by time, each of them once.
IsInTime(t) ==
    /\ t \in Seq(Alerts)
    /\ \A i, j \in 1 .. Len(t) : i < j => t[i].ts <= t[j].ts
    /\ \A i, j \in 1 .. Len(t) : t[i] = t[j] => i = j

StageOK(t, k, groups) ==
    /\ AreGroups(groups)
    /\ \A n \in 1 .. Len(groups) : k # 0 /\ groups[n].last <= t[k].ts
    /\ \A g, h \in 1 .. Len(groups) : g < h => Apart(groups[g], groups[h])
    /\ HoldsEach(t, k, groups)
    /\ AlertsTaken(groups) = k

LEMMA LastsRise ==
    ASSUME NEW groups, AreGroups(groups), NEW more, NEW a \in Alerts,
           \A n \in 1 .. Len(groups) : groups[n].last <= a.ts,
           (\E n \in 1 .. Len(groups) : JoinedIn(groups, more, a, n)) \/ OpenedIn(groups, more, a)
    PROVE  \A n \in 1 .. Len(more) : more[n].last <= a.ts
<1>1. a.ts \in Nat /\ Len(groups) \in Nat
  BY GroupingAssumption, LenProperties DEF AreGroups
<1>2. CASE \E n \in 1 .. Len(groups) : JoinedIn(groups, more, a, n)
  <2>1. PICK n \in 1 .. Len(groups) : JoinedIn(groups, more, a, n)
    BY <1>2
  <2>2. more[n].last = a.ts /\ Len(more) = Len(groups)
        /\ \A p \in 1 .. Len(groups) : p # n => more[p] = groups[p]
    <3>1. more[n].last = a.ts
      BY <2>1, JoinedPlace
    <3> QED BY <2>1, <3>1 DEF JoinedIn
  <2>3. a.ts <= a.ts
    BY <1>1
  <2> QED BY <2>2, <2>3
<1>3. CASE OpenedIn(groups, more, a)
  <2>1. /\ more[Len(groups) + 1].last = a.ts /\ Len(more) = Len(groups) + 1
        /\ \A p \in 1 .. Len(groups) : more[p] = groups[p]
    <3>1. more[Len(groups) + 1].last = a.ts
      BY <1>3, OpenedPlace
    <3> QED BY <1>3, <3>1 DEF OpenedIn
  <2>2. a.ts <= a.ts /\ \A p \in 1 .. Len(groups) + 1 : p = Len(groups) + 1 \/ p \in 1 .. Len(groups)
    BY <1>1
  <2> QED BY <2>1, <2>2
<1> QED BY <1>2, <1>3

LEMMA ApartStill ==
    ASSUME NEW groups, AreGroups(groups), NEW more, NEW a \in Alerts,
           \A n \in 1 .. Len(groups) : groups[n].last <= a.ts,
           \A g, h \in 1 .. Len(groups) : g < h => Apart(groups[g], groups[h]),
           (\E n \in 1 .. Len(groups) : JoinedIn(groups, more, a, n)) \/ OpenedIn(groups, more, a)
    PROVE  \A g, h \in 1 .. Len(more) : g < h => Apart(more[g], more[h])
<1> DEFINE len == Len(groups)
<1>1. len \in Nat /\ \A n \in 1 .. len : IsGroup(groups[n]) /\ groups[n].last <= a.ts
  BY LenProperties DEF AreGroups
<1>2. \A g, h \in 1 .. len : g < h => Apart(groups[g], groups[h])
  OBVIOUS
<1>3. SUFFICES ASSUME NEW g \in 1 .. Len(more), NEW h \in 1 .. Len(more), g < h
               PROVE  Apart(more[g], more[h])
  OBVIOUS
<1>4. CASE \E n \in 1 .. len : JoinedIn(groups, more, a, n)
  <2>1. PICK n \in 1 .. len : JoinedIn(groups, more, a, n)
    BY <1>4
  <2>2. /\ Len(more) = len /\ more[n] = Joined(groups[n], a) /\ WithinWindow(a, groups[n])
        /\ \A p \in 1 .. len : p # n => more[p] = groups[p]
    BY <2>1 DEF JoinedIn, len
  <2> HIDE DEF len
  <2>3. g \in 1 .. len /\ h \in 1 .. len /\ g # h /\ Apart(groups[g], groups[h])
    BY <1>1, <1>2, <1>3, <2>2
  <2>4. CASE g = n
    BY <1>1, <2>2, <2>3, <2>4, EarlierTakes
  <2>5. CASE h = n
    BY <1>1, <2>2, <2>3, <2>5, LaterTakes
  <2>6. CASE g # n /\ h # n
    BY <2>2, <2>3, <2>6
  <2> QED BY <2>4, <2>5, <2>6
<1>5. CASE OpenedIn(groups, more, a)
  <2>1. /\ Len(more) = len + 1 /\ more[len + 1] = OpenedBy(a)
        /\ \A p \in 1 .. len :
             /\ more[p] = groups[p]
             /\ Fingerprint(a) = Fingerprint(groups[p].alerts[1]) => ~WithinWindow(a, groups[p])
    BY <1>5 DEF OpenedIn
  <2> HIDE DEF len
  <2>2. g \in 1 .. len /\ (h \in 1 .. len \/ h = len + 1)
    BY <1>1, <1>3, <2>1
  <2>3. CASE h \in 1 .. len
    BY <1>2, <1>3, <2>1, <2>2, <2>3
  <2>4. CASE h = len + 1
    <3>1. /\ IsGroup(groups[g]) /\ groups[g].last <= a.ts
          /\ Fingerprint(a) = Fingerprint(groups[g].alerts[1]) => ~WithinWindow(a, groups[g])
      BY <1>1, <2>1, <2>2
    <3>2. Apart(groups[g], OpenedBy(a))
      BY <3>1, OpenedApart
    <3> QED BY <2>1, <2>2, <2>4, <3>2
  <2> QED BY <2>2, <2>3, <2>4
<1> QED BY <1>4, <1>5

LEMMA StageFollows ==
    ASSUME NEW t, IsInTime(t), NEW k \in 1 .. Len(t), NEW groups, StageOK(t, k - 1, groups)
    PROVE  StageOK(t, k, Placed(groups, t[k]))
<1> DEFINE a == t[k]
           more == Placed(groups, a)
           len == Len(t)
<1>1. t \in Seq(Alerts) /\ len \in Nat /\ k \in Nat /\ k # 0 /\ a \in Alerts
  BY LenProperties, ElementOfSeq DEF IsInTime
<1>2. /\ AreGroups(groups) /\ HoldsEach(t, k - 1, groups) /\ AlertsTaken(groups) = k - 1
      /\ \A n \in 1 .. Len(groups) : k - 1 # 0 /\ groups[n].last <= t[k - 1].ts
      /\ \A g, h \in 1 .. Len(groups) : g < h => Apart(groups[g], groups[h])
  BY DEF StageOK
<1> HIDE DEF a, more, len
<1>3. ASSUME NEW n \in 1 .. Len(groups) PROVE groups[n].last <= a.ts
  <2>1. k - 1 # 0 /\ groups[n].last <= t[k - 1].ts
    BY <1>2
  <2>2. k - 1 \in 1 .. len /\ k \in 1 .. len /\ k - 1 < k
    BY <1>1, <2>1 DEF len
  <2>3. t[k - 1].ts <= a.ts
    BY <2>2 DEF IsInTime, a, len
  <2>4. groups[n].last \in Nat
    BY <1>2, GroupTimes DEF AreGroups
  <2>5. t[k - 1].ts \in Nat /\ a.ts \in Nat
    <3>1. t[k - 1] \in Alerts
      BY <1>1, <2>2, ElementOfSeq DEF len
    <3> QED BY <1>1, <3>1, GroupingAssumption
  <2> DEFINE x == groups[n].last
             y == t[k - 1].ts
             z == a.ts
  <2>6. x \in Nat /\ y \in Nat /\ z \in Nat /\ x <= y /\ y <= z
    BY <2>1, <2>3, <2>4, <2>5
  <2> HIDE DEF x, y, z
  <2>7. x <= z
    BY <2>6
  <2> QED BY <2>7 DEF x, z
<1>4. /\ AreGroups(more)
      /\ (\E n \in 1 .. Len(groups) : JoinedIn(groups, more, a, n)) \/ OpenedIn(groups, more, a)
  BY <1>1, <1>2, <1>3, PlacedSomewhere DEF more
<1>5. \A n \in 1 .. Len(more) : more[n].last <= a.ts
  BY <1>1, <1>2, <1>3, <1>4, LastsRise
<1>6. \A g, h \in 1 .. Len(more) : g < h => Apart(more[g], more[h])
  BY <1>1, <1>2, <1>3, <1>4, ApartStill
<1>7. AlertsTaken(more) = k
  <2>1. AlertsTaken(more) = (k - 1) + 1
    BY <1>1, <1>2, <1>3, <1>4, HeldOneMore
  <2> QED BY <1>1, <2>1
<1>8. \E p, q : NewPlace(groups, more, a, p, q)
  <2>1. CASE \E n \in 1 .. Len(groups) : JoinedIn(groups, more, a, n)
    BY <1>1, <1>2, <1>3, <2>1, JoinedPlace
  <2>2. CASE OpenedIn(groups, more, a)
    BY <1>1, <1>2, <2>2, OpenedPlace
  <2> QED BY <1>4, <2>1, <2>2
<1>9. HoldsEach(t, k, more)
  <2>1. PICK p, q : NewPlace(groups, more, t[k], p, q)
    BY <1>8 DEF a
  <2>2. \A i, j \in 1 .. k : t[i] = t[j] => i = j
    <3>1. \A i \in 1 .. k : i \in 1 .. Len(t)
      BY <1>1 DEF len
    <3> QED BY <3>1 DEF IsInTime
  <2> QED BY <1>1, <1>2, <2>1, <2>2, HoldsOneMore
<1> QED BY <1>1, <1>4, <1>5, <1>6, <1>7, <1>9 DEF StageOK, a, more

LEMMA StagesAreOK ==
    ASSUME NEW t, IsInTime(t)
    PROVE  StageOK(t, Len(t), Grouped(t)[Len(t)])
<1> DEFINE n == Len(t)
           stage == Grouped(t)
           Bad == {k \in 0 .. n : ~StageOK(t, k, stage[k])}
<1>1. n \in Nat
  BY LenProperties DEF IsInTime
<1>2. stage[0] = <<>> /\ \A i \in 1 .. n : stage[i] = Placed(stage[i - 1], t[i])
  BY <1>1, StagesOfGroups
<1> HIDE DEF n, stage
<1>3. StageOK(t, 0, stage[0])
  <2> DEFINE none == stage[0]
  <2>1. none \in Seq(GroupRec) /\ Len(none) = 0 /\ none = <<>>
    BY <1>2
  <2> HIDE DEF none
  <2>2. 1 .. 0 = {}
    OBVIOUS
  <2>3. AreGroups(none)
    BY <2>1, <2>2 DEF AreGroups
  <2>4. HoldsEach(t, 0, none)
    BY <2>1, <2>2 DEF HoldsEach
  <2>5. Len(SizesOf(none)) = 0
    BY <2>1, <2>3, SizesAre
  <2>6. Extras(SizesOf(none))[0] = 0
    <3> DEFINE sizes == SizesOf(none)
    <3>1. Len(sizes) \in Nat /\ \A i \in 1 .. Len(sizes) : sizes[i] \in Int
      BY <2>2, <2>5
    <3> HIDE DEF sizes
    <3>2. Extras(sizes)[0] = 0
      BY <3>1, ExtrasAdd
    <3> QED BY <3>2 DEF sizes
  <2>7. AlertsTaken(none) = 0
    BY <2>1, <2>6 DEF AlertsTaken
  <2>8. StageOK(t, 0, none)
    BY <2>1, <2>2, <2>3, <2>4, <2>7 DEF StageOK
  <2> QED BY <2>8 DEF none
<1>4. SUFFICES ASSUME Bad # {} PROVE FALSE
  <2>1. n \in 0 .. n
    BY <1>1
  <2> QED BY <2>1 DEF n, stage
<1>5. PICK k \in Bad : \A m \in Bad : ~(m < k)
  <2>1. Bad \subseteq Nat
    BY <1>1
  <2> HIDE DEF Bad
  <2> QED BY <1>4, <2>1, LeastOf
<1>6. k \in 0 .. n /\ ~StageOK(t, k, stage[k]) /\ k # 0
  BY <1>3, <1>5
<1>7. k \in 1 .. n /\ k - 1 \in 0 .. n /\ k - 1 < k
  BY <1>1, <1>6
<1>8. k - 1 \notin Bad
  BY <1>5, <1>7
<1>9. StageOK(t, k - 1, stage[k - 1])
  BY <1>7, <1>8
<1>10. StageOK(t, k, Placed(stage[k - 1], t[k]))
  BY <1>7, <1>9, StageFollows DEF n
<1> QED BY <1>2, <1>6, <1>7, <1>10

-----------------------------------------------------------------------------
(* What there is in the end, of alerts that were sent.                     *)

\* The groups hold the alerts sent, each in one place.
LEMMA GroupsOfSent ==
    ASSUME NEW alerts \in AlertLists
    PROVE  LET groups == Groups(alerts)
           IN  /\ AreGroups(groups) /\ AlertsTaken(groups) = Len(alerts)
               /\ \A g, h \in 1 .. Len(groups) : g < h => Apart(groups[g], groups[h])
               /\ \A i \in 1 .. Len(alerts) :
                    \E m \in 1 .. Len(groups) : \E n \in 1 .. Len(groups[m].alerts) :
                      groups[m].alerts[n] = alerts[i]
               /\ \A m \in 1 .. Len(groups) : \A n \in 1 .. Len(groups[m].alerts) :
                    \A p \in 1 .. Len(groups) : \A q \in 1 .. Len(groups[p].alerts) :
                      groups[m].alerts[n] = groups[p].alerts[q] => m = p /\ n = q
<1> DEFINE t == ByTime(alerts)
           len == Len(alerts)
           groups == Groups(alerts)
<1>1. /\ t \in Seq(Alerts) /\ Len(t) = len
      /\ \A i, j \in 1 .. len : i < j => t[i].ts <= t[j].ts
      /\ \A i, j \in 1 .. len : t[i] = t[j] => i = j
      /\ \A i \in 1 .. len : \E k \in 1 .. len : t[k] = alerts[i]
  BY TakenInOrder
<1>2. groups = Grouped(t)[len]
  BY DEF Groups
<1> HIDE DEF t, len, groups
<1>3. IsInTime(t)
  BY <1>1 DEF IsInTime
<1>4. StageOK(t, len, groups)
  BY <1>1, <1>2, <1>3, StagesAreOK
<1>5. /\ AreGroups(groups) /\ HoldsEach(t, len, groups) /\ AlertsTaken(groups) = len
      /\ \A g, h \in 1 .. Len(groups) : g < h => Apart(groups[g], groups[h])
  BY <1>4 DEF StageOK
<1>6. ASSUME NEW i \in 1 .. len
      PROVE  \E m \in 1 .. Len(groups) : \E n \in 1 .. Len(groups[m].alerts) :
               groups[m].alerts[n] = alerts[i]
  <2>1. PICK k \in 1 .. len : t[k] = alerts[i]
    BY <1>1
  <2>2. PICK m \in 1 .. Len(groups) : \E n \in 1 .. Len(groups[m].alerts) :
          groups[m].alerts[n] = t[k]
    BY <1>5 DEF HoldsEach
  <2> QED BY <2>1, <2>2
<1>7. \A m \in 1 .. Len(groups) : \A n \in 1 .. Len(groups[m].alerts) :
        \A p \in 1 .. Len(groups) : \A q \in 1 .. Len(groups[p].alerts) :
          groups[m].alerts[n] = groups[p].alerts[q] => m = p /\ n = q
  BY <1>5 DEF HoldsEach
<1> QED BY <1>5, <1>6, <1>7 DEF groups, len

\* Every alert is in one place, and the summary adds up.
LEMMA SummaryAddsUp ==
    ASSUME NEW alerts \in AlertLists
    PROVE  LET groups == Groups(alerts)
               s == Summary(alerts)
           IN  /\ \A i \in DOMAIN alerts :
                    Cardinality(PlacesOf(alerts[i], groups, Len(alerts))) = 1
               /\ s.groups + s.duplicates = s.total
               /\ s.unique <= s.groups /\ s.largest <= s.duplicates + 1
<1> DEFINE groups == Groups(alerts)
           len == Len(groups)
           total == Len(alerts)
           sizes == SizesOf(groups)
           most == Extras(sizes)[len]
           ones == {n \in DOMAIN sizes : sizes[n] = 1}
           all == {sizes[n] : n \in DOMAIN sizes}
           largest == IF sizes = <<>> THEN 0 ELSE Max(all)
<1>1. /\ AreGroups(groups) /\ AlertsTaken(groups) = total /\ total \in Nat /\ DOMAIN alerts = 1 .. total
      /\ \A i \in 1 .. total :
           \E m \in 1 .. len : \E n \in 1 .. Len(groups[m].alerts) :
             groups[m].alerts[n] = alerts[i]
      /\ \A m \in 1 .. len : \A n \in 1 .. Len(groups[m].alerts) :
           \A p \in 1 .. len : \A q \in 1 .. Len(groups[p].alerts) :
             groups[m].alerts[n] = groups[p].alerts[q] => m = p /\ n = q
  BY GroupsOfSent, SentOnce
<1>2. Summary(alerts) = [total |-> total, groups |-> Len(sizes), unique |-> Cardinality(ones),
                         duplicates |-> Extras(sizes)[Len(sizes)], largest |-> largest]
  BY DEF Summary
<1> HIDE DEF groups, total, largest
<1>3. /\ len \in Nat /\ Len(sizes) = len /\ DOMAIN sizes = 1 .. len /\ DOMAIN groups = 1 .. len
      /\ \A n \in 1 .. len :
           sizes[n] = Len(groups[n].alerts) /\ sizes[n] \in Nat /\ sizes[n] # 0
  BY <1>1, SizesAre
<1>4. len + most = total
  BY <1>1 DEF AlertsTaken
<1> HIDE DEF len, sizes, most
<1>5. most \in Nat /\ \A p \in 1 .. len : sizes[p] <= most + 1
  <2>1. len \in 0 .. len
    BY <1>3
  <2> QED BY <1>3, <2>1, ExtrasBound DEF most
<1>6. ASSUME NEW i \in DOMAIN alerts
      PROVE  Cardinality(PlacesOf(alerts[i], groups, total)) = 1
  <2> DEFINE a == alerts[i]
  <2>1. PICK m \in 1 .. len : \E n \in 1 .. Len(groups[m].alerts) : groups[m].alerts[n] = a
    BY <1>1
  <2>2. PICK n \in 1 .. Len(groups[m].alerts) : groups[m].alerts[n] = a
    BY <2>1
  <2>3. \A g \in DOMAIN groups : DOMAIN groups[g].alerts = 1 .. Len(groups[g].alerts)
    <3>1. \A g \in 1 .. len : groups[g].alerts \in Seq(Alerts)
      BY <1>1, GroupTimes DEF AreGroups, len
    <3> QED BY <1>3, <3>1, LenProperties
  <2>4. n \in 1 .. total
    <3>1. sizes[m] <= most + 1 /\ sizes[m] \in Nat /\ n \in 1 .. sizes[m]
      BY <1>3, <1>5
    <3> DEFINE x == sizes[m]
    <3> HIDE DEF x
    <3>2. x <= most + 1 /\ x \in Nat /\ n \in 1 .. x
      BY <3>1 DEF x
    <3>3. len # 0
      BY <1>3
    <3> QED BY <1>3, <1>4, <1>5, <3>2, <3>3
  <2> HIDE DEF a
  <2> DEFINE P == PlacesOf(a, groups, total)
  <2>5. \A p : p \in P <=> /\ p \in (DOMAIN groups) \X (1 .. total)
                           /\ p[2] \in DOMAIN groups[p[1]].alerts
                           /\ groups[p[1]].alerts[p[2]] = a
    BY DEF PlacesOf
  <2> HIDE DEF P
  <2> DEFINE w == <<m, n>>
  <2>6. w \in (DOMAIN groups) \X (1 .. total) /\ w[1] = m /\ w[2] = n
    BY <1>3, <2>4
  <2>7. w \in P
    BY <1>3, <2>2, <2>3, <2>5, <2>6
  <2>8. ASSUME NEW p \in P PROVE p = w
    <3>1. /\ p \in (DOMAIN groups) \X (1 .. total) /\ p[2] \in DOMAIN groups[p[1]].alerts
          /\ groups[p[1]].alerts[p[2]] = a
      BY <2>5
    <3>2. p = <<p[1], p[2]>> /\ p[1] \in DOMAIN groups
      BY <3>1
    <3> DEFINE x == p[1]
               y == p[2]
    <3>3. x \in 1 .. len /\ y \in 1 .. Len(groups[x].alerts) /\ groups[x].alerts[y] = a
      BY <1>3, <2>3, <3>1, <3>2
    <3> HIDE DEF x, y
    <3>4. groups[x].alerts[y] = groups[m].alerts[n]
      BY <2>2, <3>3
    <3>5. \A u \in 1 .. len : \A v \in 1 .. Len(groups[u].alerts) :
            groups[m].alerts[n] = groups[u].alerts[v] => m = u /\ n = v
      BY <1>1 DEF len
    <3>6. x = m /\ y = n
      BY <3>3, <3>4, <3>5
    <3> QED BY <3>2, <3>6 DEF x, y
  <2> HIDE DEF w
  <2>9. P = {w}
    BY <2>7, <2>8
  <2>10. Cardinality(P) = 1
    BY <2>9, FS_Singleton
  <2> QED BY <2>10 DEF P, a
<1>7. Cardinality(ones) <= len
  <2>1. ones \in SUBSET (1 .. len)
    BY <1>3
  <2> HIDE DEF ones
  <2> QED BY <1>3, <2>1, IndexesAreFinite
<1>8. largest <= most + 1
  <2>1. CASE sizes = <<>>
    BY <1>5, <2>1 DEF largest
  <2>2. CASE sizes # <<>>
    <3>1. len # 0
      <4>1. len = 0 => DOMAIN sizes = {}
        BY <1>3
      <4>2. sizes = [n \in DOMAIN sizes |-> sizes[n]]
        BY DEF sizes, SizesOf
      <4>3. DOMAIN sizes = {} => sizes = <<>>
        BY <4>2
      <4> QED BY <2>2, <4>1, <4>3
    <3>2. 1 \in 1 .. len
      BY <1>3, <3>1
    <3> DEFINE rest == {(most + 1) - sizes[n] : n \in 1 .. len}
    <3>3. rest \in SUBSET Nat
      <4>1. ASSUME NEW n \in 1 .. len PROVE (most + 1) - sizes[n] \in Nat
        <5> DEFINE x == sizes[n]
        <5>1. x \in Nat /\ x <= most + 1
          BY <1>3, <1>5
        <5> HIDE DEF x
        <5>2. (most + 1) - x \in Nat
          BY <1>5, <5>1
        <5> QED BY <5>2 DEF x
      <4> QED BY <4>1
    <3>4. rest # {}
      BY <3>2
    <3>5. \E x \in rest : \A y \in rest : ~(y < x)
      <4> HIDE DEF rest
      <4> QED BY <3>3, <3>4, LeastOf
    <3>6. PICK n \in 1 .. len :
             \A m \in 1 .. len : ~((most + 1) - sizes[m] < (most + 1) - sizes[n])
      BY <3>5
    <3>7. ASSUME NEW m \in 1 .. len PROVE sizes[n] >= sizes[m]
      <4> DEFINE x == sizes[n]
                 y == sizes[m]
      <4>1. x \in Nat /\ y \in Nat /\ ~((most + 1) - y < (most + 1) - x)
        BY <1>3, <3>6
      <4> HIDE DEF x, y
      <4>2. x >= y
        BY <1>5, <4>1
      <4> QED BY <4>2 DEF x, y
    <3>8. sizes[n] \in all /\ \A y \in all : sizes[n] >= y
      BY <1>3, <3>7
    <3>9. Max(all) \in all
      <4> HIDE DEF all
      <4> QED BY <3>8 DEF Max
    <3>10. \A y \in all : y <= most + 1
      BY <1>3, <1>5
    <3>11. largest = Max(all)
      BY <2>2 DEF largest
    <3> HIDE DEF all
    <3> QED BY <3>9, <3>10, <3>11
  <2> QED BY <2>1, <2>2
<1> DEFINE s == Summary(alerts)
<1>9. /\ s.groups = len /\ s.duplicates = most /\ s.total = total
      /\ s.unique = Cardinality(ones) /\ s.largest = largest
  <2> HIDE DEF ones
  <2> QED BY <1>2, <1>3 DEF most
<1> HIDE DEF s, ones
<1> QED BY <1>4, <1>6, <1>7, <1>8, <1>9 DEF s, groups, total

\* The place of an alert among those with a time of their own.
LEMMA PlaceByTime ==
    ASSUME NEW t, IsInTime(t), \A i, j \in 1 .. Len(t) : i # j => t[i].ts # t[j].ts,
           NEW A, A = {t[i] : i \in 1 .. Len(t)}, NEW k \in 1 .. Len(t)
    PROVE  Cardinality({b \in A : b.ts < t[k].ts}) = k - 1
<1> DEFINE n == Len(t)
           S == 1 .. k - 1
           T == {b \in A : b.ts < t[k].ts}
           f == [i \in S |-> t[i]]
<1>1. n \in Nat /\ \A i \in 1 .. n : t[i] \in Alerts /\ t[i].ts \in Nat
  <2>1. n \in Nat /\ \A i \in 1 .. n : t[i] \in Alerts
    BY LenProperties, ElementOfSeq DEF IsInTime
  <2> QED BY <2>1, GroupingAssumption
<1>2. \A i, j \in 1 .. n : i < j => t[i].ts < t[j].ts
  <2> SUFFICES ASSUME NEW i \in 1 .. n, NEW j \in 1 .. n, i < j PROVE t[i].ts < t[j].ts
    OBVIOUS
  <2> DEFINE x == t[i].ts
             y == t[j].ts
  <2>1. x \in Nat /\ y \in Nat /\ x <= y /\ x # y
    <3>1. i # j
      BY <1>1
    <3>2. x <= y
      BY DEF IsInTime
    <3> QED BY <1>1, <3>1, <3>2
  <2> HIDE DEF x, y
  <2>2. x < y
    BY <2>1
  <2> QED BY <2>2 DEF x, y
<1>3. k \in 1 .. n /\ \A i \in S : i \in 1 .. n /\ i < k
  BY <1>1
<1>4. ASSUME NEW i \in S PROVE t[i] \in T
  <2>1. i \in 1 .. n /\ t[i].ts < t[k].ts
    BY <1>2, <1>3
  <2> QED BY <2>1
<1>5. f \in [S -> T]
  BY <1>4
<1>6. \A i, j \in S : f[i] = f[j] => i = j
  BY <1>3 DEF IsInTime
<1>7. ASSUME NEW b \in T PROVE \E i \in S : f[i] = b
  <2>1. PICK i \in 1 .. n : b = t[i]
    OBVIOUS
  <2>2. t[i].ts < t[k].ts
    BY <2>1
  <2>3. ~(k < i) /\ i # k
    <3> DEFINE x == t[i].ts
               y == t[k].ts
    <3>1. x \in Nat /\ y \in Nat /\ x < y
      BY <1>1, <2>2
    <3>2. k < i => y < x
      BY <1>2
    <3>3. i = k => x = y
      OBVIOUS
    <3> HIDE DEF x, y
    <3> QED BY <3>1, <3>2, <3>3
  <2>4. i \in S
    BY <1>1, <2>3
  <2> QED BY <2>1, <2>4
<1>8. IsFiniteSet(S) /\ Cardinality(S) = k - 1
  <2>1. k - 1 \in Nat /\ k \in Nat
    BY <1>1
  <2>2. \A m \in Nat : IsFiniteSet(1 .. m) /\ Cardinality(1 .. m) = m
    BY FS_Interval
  <2> DEFINE m == k - 1
  <2> HIDE DEF m
  <2> QED BY <2>1, <2>2 DEF m
<1> HIDE DEF S, T, f
<1>9. Cardinality(T) = Cardinality(S)
  BY <1>5, <1>6, <1>7, <1>8, SameSize
<1> QED BY <1>8, <1>9 DEF T

\* Two lists of the same alerts, each with a time of its own, are taken in the
\* same order.
LEMMA SameInTime ==
    ASSUME NEW t, IsInTime(t), NEW u, IsInTime(u), Len(u) = Len(t),
           {t[i] : i \in 1 .. Len(t)} = {u[i] : i \in 1 .. Len(t)},
           \A i, j \in 1 .. Len(t) : i # j => t[i].ts # t[j].ts
    PROVE  u = t
<1> DEFINE n == Len(t)
           A == {t[i] : i \in 1 .. n}
           below(b) == Cardinality({c \in A : c.ts < b.ts})
<1>1. n \in Nat /\ t \in Seq(Alerts) /\ u \in Seq(Alerts) /\ Len(u) = n
  BY LenProperties DEF IsInTime
<1>2. A = {u[i] : i \in 1 .. n} /\ \A i, j \in 1 .. n : i # j => t[i].ts # t[j].ts
  OBVIOUS
<1>3. \A k \in 1 .. n : \E m \in 1 .. n : u[k] = t[m]
  <2> SUFFICES ASSUME NEW k \in 1 .. n PROVE \E m \in 1 .. n : u[k] = t[m]
    OBVIOUS
  <2>1. u[k] \in A
    BY <1>2
  <2> QED BY <2>1
<1>4. \A k \in 1 .. n : \E m \in 1 .. n : t[k] = u[m]
  <2> SUFFICES ASSUME NEW k \in 1 .. n PROVE \E m \in 1 .. n : t[k] = u[m]
    OBVIOUS
  <2>1. t[k] \in A
    OBVIOUS
  <2> QED BY <1>2, <2>1
<1>5. \A k \in 1 .. n : below(t[k]) = k - 1
  BY PlaceByTime
<1>6. ASSUME NEW i \in 1 .. n, NEW j \in 1 .. n, i # j PROVE u[i].ts # u[j].ts
  <2>1. PICK k \in 1 .. n : u[i] = t[k]
    BY <1>3
  <2>2. PICK m \in 1 .. n : u[j] = t[m]
    BY <1>3
  <2>3. k # m
    BY <1>1, <1>6, <2>1, <2>2 DEF IsInTime
  <2> QED BY <1>2, <2>1, <2>2, <2>3
<1>7. \A k \in 1 .. n : below(u[k]) = k - 1
  <2>1. \A i, j \in 1 .. Len(u) : i # j => u[i].ts # u[j].ts
    BY <1>1, <1>6
  <2>2. A = {u[i] : i \in 1 .. Len(u)}
    BY <1>1, <1>2
  <2> HIDE DEF A
  <2>3. \A k \in 1 .. Len(u) : Cardinality({c \in A : c.ts < u[k].ts}) = k - 1
    BY <2>1, <2>2, PlaceByTime
  <2> QED BY <1>1, <2>3
<1> HIDE DEF below, A
<1>8. ASSUME NEW k \in 1 .. n PROVE u[k] = t[k]
  <2>1. PICK m \in 1 .. n : u[k] = t[m]
    BY <1>3
  <2>2. below(t[m]) = m - 1 /\ below(t[m]) = k - 1
    BY <1>5, <1>7, <2>1
  <2>3. m = k
    BY <1>1, <2>2
  <2> QED BY <2>1, <2>3
<1>9. t = [i \in 1 .. n |-> t[i]] /\ u = [i \in 1 .. n |-> u[i]]
  <2>1. \A s \in Seq(Alerts) : s = [i \in 1 .. Len(s) |-> s[i]]
    BY SeqDef, LenProperties
  <2> QED BY <1>1, <2>1
<1> QED BY <1>8, <1>9

LEMMA ReversedIsSent ==
    ASSUME NEW alerts \in AlertLists
    PROVE  /\ Reverse(alerts) \in AlertLists /\ Len(Reverse(alerts)) = Len(alerts)
           /\ {alerts[i] : i \in 1 .. Len(alerts)}
                = {Reverse(alerts)[i] : i \in 1 .. Len(alerts)}
<1> DEFINE r == Reverse(alerts)
<1>1. PICK n \in 0 .. MaxAlerts : alerts \in [1 .. n -> Alerts] /\ IsInjective(alerts)
  BY DEF AlertLists
<1>2. n \in Nat /\ Len(alerts) = n /\ \A i, j \in 1 .. n : alerts[i] = alerts[j] => i = j
  BY <1>1, GroupingAssumption, FunctionIsSeq DEF IsInjective
<1>3. r = [i \in 1 .. n |-> alerts[(n - i) + 1]]
  BY <1>2 DEF Reverse
<1>4. \A i \in 1 .. n : (n - i) + 1 \in 1 .. n /\ (n - ((n - i) + 1)) + 1 = i
  BY <1>2
<1> HIDE DEF r
<1>5. r \in [1 .. n -> Alerts]
  BY <1>1, <1>3, <1>4
<1>6. ASSUME NEW i \in 1 .. n, NEW j \in 1 .. n, r[i] = r[j] PROVE i = j
  <2>1. (n - i) + 1 = (n - j) + 1
    BY <1>2, <1>3, <1>4, <1>6
  <2> QED BY <1>2, <2>1
<1>7. IsInjective(r)
  BY <1>5, <1>6 DEF IsInjective
<1>8. r \in AlertLists
  BY <1>1, <1>5, <1>7 DEF AlertLists
<1>9. Len(r) = n
  BY <1>2, <1>5, FunctionIsSeq
<1>10. {alerts[i] : i \in 1 .. n} = {r[i] : i \in 1 .. n}
  <2>1. ASSUME NEW i \in 1 .. n PROVE \E j \in 1 .. n : r[j] = alerts[i]
    <3>1. r[(n - i) + 1] = alerts[(n - ((n - i) + 1)) + 1]
      BY <1>3, <1>4
    <3> QED BY <1>4, <3>1
  <2>2. ASSUME NEW i \in 1 .. n PROVE \E j \in 1 .. n : r[i] = alerts[j]
    BY <1>3, <1>4
  <2>3. \A x : x \in {alerts[i] : i \in 1 .. n} => x \in {r[i] : i \in 1 .. n}
    BY <2>1
  <2>4. \A x : x \in {r[i] : i \in 1 .. n} => x \in {alerts[i] : i \in 1 .. n}
    BY <2>2
  <2> QED BY <2>3, <2>4
<1> QED BY <1>2, <1>8, <1>9, <1>10 DEF r

LEMMA SameElements ==
    ASSUME NEW s, NEW r, NEW n,
           \A k \in 1 .. n : \E i \in 1 .. n : s[k] = r[i],
           \A i \in 1 .. n : \E k \in 1 .. n : s[k] = r[i]
    PROVE  {s[i] : i \in 1 .. n} = {r[i] : i \in 1 .. n}
<1> DEFINE S == {s[i] : i \in 1 .. n}
           R == {r[i] : i \in 1 .. n}
<1>1. ASSUME NEW x \in S PROVE x \in R
  <2>1. PICK k \in 1 .. n : x = s[k]
    OBVIOUS
  <2>2. PICK i \in 1 .. n : s[k] = r[i]
    OBVIOUS
  <2> QED BY <2>1, <2>2
<1>2. ASSUME NEW x \in R PROVE x \in S
  <2>1. PICK i \in 1 .. n : x = r[i]
    OBVIOUS
  <2>2. PICK k \in 1 .. n : s[k] = r[i]
    OBVIOUS
  <2> QED BY <2>1, <2>2
<1> HIDE DEF S, R
<1>3. S = R
  BY <1>1, <1>2
<1> QED BY <1>3 DEF S, R

\* The order in which alerts with distinct times are sent does not matter.
LEMMA ArrivalIsIrrelevant ==
    ASSUME NEW alerts \in AlertLists,
           \A m, n \in DOMAIN alerts : m # n => alerts[m].ts # alerts[n].ts
    PROVE  Groups(Reverse(alerts)) = Groups(alerts)
<1> DEFINE back == Reverse(alerts)
           t == ByTime(alerts)
           u == ByTime(back)
           n == Len(alerts)
<1>1. back \in AlertLists /\ Len(back) = n
      /\ {alerts[i] : i \in 1 .. n} = {back[i] : i \in 1 .. n}
  BY ReversedIsSent
<1> HIDE DEF back
<1>2. /\ t \in Seq(Alerts) /\ Len(t) = n /\ n \in Nat
      /\ \A i, j \in 1 .. n : i < j => t[i].ts <= t[j].ts
      /\ \A i, j \in 1 .. n : t[i] = t[j] => i = j
      /\ \A i \in 1 .. n : \E k \in 1 .. n : t[k] = alerts[i]
      /\ \A k \in 1 .. n : \E i \in 1 .. n : t[k] = alerts[i]
  BY TakenInOrder
<1>3. /\ u \in Seq(Alerts) /\ Len(u) = n
      /\ \A i, j \in 1 .. n : i < j => u[i].ts <= u[j].ts
      /\ \A i, j \in 1 .. n : u[i] = u[j] => i = j
      /\ \A i \in 1 .. n : \E k \in 1 .. n : u[k] = back[i]
      /\ \A k \in 1 .. n : \E i \in 1 .. n : u[k] = back[i]
  BY <1>1, TakenInOrder
<1> HIDE DEF t, u
<1>4. IsInTime(t) /\ IsInTime(u)
  BY <1>2, <1>3 DEF IsInTime
<1>5. {t[i] : i \in 1 .. n} = {alerts[i] : i \in 1 .. n}
  <2>1. /\ \A i \in 1 .. n : \E k \in 1 .. n : t[k] = alerts[i]
        /\ \A k \in 1 .. n : \E i \in 1 .. n : t[k] = alerts[i]
    BY <1>2
  <2> HIDE DEF n
  <2> QED BY <2>1, SameElements
<1>6. {u[i] : i \in 1 .. n} = {back[i] : i \in 1 .. n}
  <2>1. /\ \A i \in 1 .. n : \E k \in 1 .. n : u[k] = back[i]
        /\ \A k \in 1 .. n : \E i \in 1 .. n : u[k] = back[i]
    BY <1>3
  <2> HIDE DEF n
  <2> QED BY <2>1, SameElements
<1>7. ASSUME NEW i \in 1 .. n, NEW j \in 1 .. n, i # j PROVE t[i].ts # t[j].ts
  <2>1. PICK k \in 1 .. n : t[i] = alerts[k]
    BY <1>2
  <2>2. PICK m \in 1 .. n : t[j] = alerts[m]
    BY <1>2
  <2>3. k # m
    BY <1>2, <1>7, <2>1, <2>2
  <2>4. DOMAIN alerts = 1 .. n
    BY SentOnce
  <2> QED BY <2>1, <2>2, <2>3, <2>4
<1>8. u = t
  <2>1. {t[i] : i \in 1 .. Len(t)} = {u[i] : i \in 1 .. Len(t)} /\ Len(u) = Len(t)
    BY <1>1, <1>2, <1>3, <1>5, <1>6
  <2>2. \A i, j \in 1 .. Len(t) : i # j => t[i].ts # t[j].ts
    BY <1>2, <1>7
  <2> QED BY <1>4, <2>1, <2>2, SameInTime
<1> QED BY <1>1, <1>8 DEF Groups, t, u, n, back

\* Of a group, the alerts that carry a time follow each other within the window.
LEMMA GroupKeepsPace ==
    ASSUME NEW g, IsGroup(g)
    PROVE  LET timed == Picked(g.alerts, {m \in DOMAIN g.alerts : g.alerts[m].ts # 0})
           IN  \A n \in 2 .. Len(timed) : timed[n].ts - timed[n - 1].ts <= WindowSize
<1> DEFINE s == g.alerts
           I == {m \in DOMAIN s : s[m].ts # 0}
           timed == Picked(s, I)
           len == Len(s)
<1>1. /\ s \in Seq(Alerts) /\ len \in Nat
      /\ \A n \in 1 .. len : s[n].ts \in Nat
  BY GroupTimes
<1>2. /\ \A m, n \in 1 .. len : m < n => s[m].ts <= s[n].ts
      /\ \A m \in 2 .. len : s[m - 1].ts # 0 => s[m].ts - s[m - 1].ts <= WindowSize
  BY DEF IsGroup
<1> HIDE DEF s
<1>3. I \in SUBSET (1 .. len) /\ \A m \in 1 .. len : m \in I <=> s[m].ts # 0
  BY <1>1, LenProperties
<1> HIDE DEF I
<1> DEFINE c == Cardinality(I)
<1>4. /\ Len(timed) = c /\ DOMAIN timed = 1 .. c /\ c \in Nat
      /\ \A k \in 1 .. c : Nth(I, k) \in I /\ Rank(I, Nth(I, k)) = k /\ timed[k] = s[Nth(I, k)]
  BY <1>1, <1>3, PickedElements
<1>5. \A i, j \in I : i < j <=> Rank(I, i) < Rank(I, j)
  BY <1>1, <1>3, RanksAreIndexes
<1> HIDE DEF timed, c
<1>6. ASSUME NEW k \in 2 .. c PROVE timed[k].ts - timed[k - 1].ts <= WindowSize
  <2> DEFINE i == Nth(I, k)
             j == Nth(I, k - 1)
  <2>1. k \in 1 .. c /\ k - 1 \in 1 .. c
    BY <1>4
  <2>2. /\ i \in I /\ j \in I /\ Rank(I, i) = k /\ Rank(I, j) = k - 1
        /\ timed[k] = s[i] /\ timed[k - 1] = s[j]
    BY <1>4, <2>1
  <2> HIDE DEF i, j
  <2>3. j < i
    BY <1>4, <1>5, <2>2
  <2>4. i \in 1 .. len /\ j \in 1 .. len
    BY <1>3, <2>2
  <2>5. i - 1 = j
    <3>1. SUFFICES ASSUME i - 1 # j PROVE FALSE
      OBVIOUS
    <3> DEFINE m == i - 1
    <3>2. m \in 1 .. len /\ j < m /\ m < i
      BY <1>1, <2>3, <2>4, <3>1
    <3> HIDE DEF m
    <3>3. s[m].ts # 0
      <4> DEFINE x == s[j].ts
                 y == s[m].ts
      <4>1. x \in Nat /\ y \in Nat /\ x # 0 /\ x <= y
        BY <1>1, <1>2, <1>3, <2>2, <2>4, <3>2
      <4> HIDE DEF x, y
      <4>2. y # 0
        BY <4>1
      <4> QED BY <4>2 DEF y
    <3>4. m \in I
      BY <1>3, <3>2, <3>3
    <3>5. Rank(I, j) < Rank(I, m) /\ Rank(I, m) < Rank(I, i)
      BY <1>5, <2>2, <3>2, <3>4
    <3>6. Rank(I, m) \in Nat
      <4>1. Rank(I, m) \in 1 .. c
        BY <1>1, <1>3, <3>4, RanksAreIndexes DEF c
      <4> QED BY <1>4, <4>1
    <3> DEFINE r == Rank(I, m)
    <3> HIDE DEF r
    <3>7. r \in Nat /\ k - 1 < r /\ r < k
      BY <2>2, <3>5, <3>6 DEF r
    <3> QED BY <1>4, <2>1, <3>7
  <2>6. i \in 2 .. len /\ s[i - 1].ts # 0
    <3>1. s[j].ts # 0
      BY <1>3, <2>2, <2>4
    <3> QED BY <2>3, <2>4, <2>5, <3>1
  <2>7. s[i].ts - s[i - 1].ts <= WindowSize
    BY <1>2, <2>6
  <2> QED BY <2>2, <2>5, <2>7
<1> QED BY <1>4, <1>6 DEF timed, I, s

-----------------------------------------------------------------------------
(* The requests, and the one that waits.                                   *)

GroupingInv ==
    /\ sentAlerts \in Seq(AlertLists)
    /\ held \in 0 .. Len(sentAlerts)
    /\ confirmed \in Seq(GroupingStates) /\ Len(confirmed) = Len(sentAlerts)
    /\ LatestGroupingWaits

LEMMA GroupNowKeeps ==
    ASSUME GroupingInv, NEW alerts \in AlertLists, NEW verdict \in GroupingStates,
           GroupNow(alerts, verdict)
    PROVE  GroupingInv'
<1> DEFINE n == Len(sentAlerts)
<1>1. /\ n \in Nat /\ held \in 0 .. n /\ sentAlerts \in Seq(AlertLists)
      /\ confirmed \in Seq(GroupingStates) /\ Len(confirmed) = n
  BY LenProperties DEF GroupingInv
<1>2. /\ held' = held /\ verdict # "waiting"
      /\ sentAlerts' = Append(sentAlerts, alerts) /\ confirmed' = Append(confirmed, verdict)
  BY DEF GroupNow
<1>3. sentAlerts' \in Seq(AlertLists) /\ Len(sentAlerts') = n + 1
  BY <1>1, <1>2, AppendProperties
<1>4. /\ confirmed' \in Seq(GroupingStates) /\ Len(confirmed') = n + 1
      /\ confirmed'[n + 1] = verdict /\ \A i \in 1 .. n : confirmed'[i] = confirmed[i]
  BY <1>1, <1>2, AppendProperties
<1> HIDE DEF n
<1>5. ASSUME held' # 0 PROVE confirmed'[held'] = "waiting"
                             /\ \A i \in held' + 1 .. n + 1 : confirmed'[i] # "waiting"
  <2>1. /\ held \in 1 .. n /\ confirmed[held] = "waiting"
        /\ \A i \in held + 1 .. n : confirmed[i] # "waiting"
    BY <1>1, <1>2, <1>5 DEF GroupingInv, LatestGroupingWaits
  <2>2. ASSUME NEW i \in held + 1 .. n + 1 PROVE confirmed'[i] # "waiting"
    <3>1. i = n + 1 \/ (i \in held + 1 .. n /\ i \in 1 .. n)
      BY <1>1, <2>1
    <3> QED BY <1>2, <1>4, <2>1, <3>1
  <2> QED BY <1>2, <1>4, <2>1, <2>2
<1>6. held' \in 0 .. n + 1
  BY <1>1, <1>2
<1> QED BY <1>3, <1>4, <1>5, <1>6 DEF GroupingInv, LatestGroupingWaits

LEMMA GroupAndWaitKeeps ==
    ASSUME GroupingInv, NEW alerts \in AlertLists, GroupAndWait(alerts)
    PROVE  GroupingInv'
<1> DEFINE n == Len(sentAlerts)
<1>1. /\ n \in Nat /\ sentAlerts \in Seq(AlertLists)
      /\ confirmed \in Seq(GroupingStates) /\ Len(confirmed) = n
  BY LenProperties DEF GroupingInv
<1>2. /\ held' = n + 1
      /\ sentAlerts' = Append(sentAlerts, alerts) /\ confirmed' = Append(confirmed, "waiting")
  BY DEF GroupAndWait, HoldsNow
<1>3. sentAlerts' \in Seq(AlertLists) /\ Len(sentAlerts') = n + 1
  BY <1>1, <1>2, AppendProperties
<1>4. /\ confirmed' \in Seq(GroupingStates) /\ Len(confirmed') = n + 1
      /\ confirmed'[n + 1] = "waiting"
  <2>1. "waiting" \in GroupingStates
    BY DEF GroupingStates
  <2> QED BY <1>1, <1>2, <2>1, AppendProperties
<1> HIDE DEF n
<1>5. held' \in 0 .. n + 1 /\ held' + 1 .. n + 1 = {}
  BY <1>1, <1>2
<1> QED BY <1>2, <1>3, <1>4, <1>5 DEF GroupingInv, LatestGroupingWaits

LEMMA ResumeGroupingKeeps ==
    ASSUME GroupingInv, NEW decision, ResumeGrouping(decision)
    PROVE  GroupingInv'
<1> DEFINE n == Len(sentAlerts)
           state == IF decision = "rejected" THEN "completed_rejected" ELSE "completed_grouped"
<1>1. /\ n \in Nat /\ held \in 0 .. n /\ sentAlerts \in Seq(AlertLists)
      /\ confirmed \in Seq(GroupingStates) /\ Len(confirmed) = n
  BY LenProperties DEF GroupingInv
<1>2. /\ held' = 0 /\ sentAlerts' = sentAlerts
      /\ confirmed' = [confirmed EXCEPT ![held] = state]
  BY DEF ResumeGrouping, Freed
<1>3. state \in GroupingStates
  BY DEF GroupingStates
<1> HIDE DEF n, state
<1>4. DOMAIN confirmed = 1 .. n /\ \A i \in 1 .. n : confirmed[i] \in GroupingStates
  BY <1>1, LenProperties, ElementOfSeq
<1>5. confirmed' \in [1 .. n -> GroupingStates]
  BY <1>2, <1>3, <1>4
<1>6. confirmed' \in Seq(GroupingStates) /\ Len(confirmed') = n
  BY <1>1, <1>5, FunctionIsSeq
<1>7. Len(sentAlerts') = n /\ held' \in 0 .. n
  BY <1>1, <1>2 DEF n
<1> QED BY <1>1, <1>2, <1>6, <1>7 DEF GroupingInv, LatestGroupingWaits

LEMMA GroupingInvHolds == GroupingSpec => []GroupingInv
<1>1. GroupingInit => GroupingInv
  <2> SUFFICES ASSUME GroupingInit PROVE GroupingInv
    OBVIOUS
  <2>1. sentAlerts = <<>> /\ held = 0 /\ confirmed = <<>>
    BY DEF GroupingInit
  <2>2. /\ sentAlerts \in Seq(AlertLists) /\ confirmed \in Seq(GroupingStates)
        /\ Len(confirmed) = 0 /\ Len(sentAlerts) = 0
    BY <2>1
  <2> QED BY <2>1, <2>2 DEF GroupingInv, LatestGroupingWaits
<1>2. GroupingInv /\ [GroupingNext]_groupingVars => GroupingInv'
  <2> SUFFICES ASSUME GroupingInv, [GroupingNext]_groupingVars PROVE GroupingInv'
    OBVIOUS
  <2>1. ASSUME NEW alerts \in AlertLists, NEW verdict \in GroupingStates,
               GroupNow(alerts, verdict)
        PROVE  GroupingInv'
    BY <2>1, GroupNowKeeps
  <2>2. ASSUME NEW alerts \in AlertLists, GroupAndWait(alerts) PROVE GroupingInv'
    BY <2>2, GroupAndWaitKeeps
  <2>3. ASSUME NEW decision, ResumeGrouping(decision) PROVE GroupingInv'
    BY <2>3, ResumeGroupingKeeps
  <2>4. CASE RestartGrouping
    <3>1. held' = 0 /\ sentAlerts' = sentAlerts /\ confirmed' = confirmed
      BY <2>4 DEF RestartGrouping
    <3>2. Len(sentAlerts) \in Nat
      BY LenProperties DEF GroupingInv
    <3> QED BY <3>1, <3>2 DEF GroupingInv, LatestGroupingWaits
  <2>5. CASE UNCHANGED groupingVars
    BY <2>5 DEF groupingVars, GroupingInv, LatestGroupingWaits
  <2> QED BY <2>1, <2>2, <2>3, <2>4, <2>5 DEF GroupingNext
<1> QED BY <1>1, <1>2, PTL DEF GroupingSpec

LEMMA GroupsOfTheFirst ==
    ASSUME GroupingInv
    PROVE  GroupsHold
<1>1. \A s \in AlertLists : s \in Seq(Alerts)
  BY SentOnce
<1>2. sentAlerts \in Seq(Seq(Alerts))
  <2>1. sentAlerts \in Seq(AlertLists) /\ Len(sentAlerts) \in Nat
    BY LenProperties DEF GroupingInv
  <2>2. \A i \in 1 .. Len(sentAlerts) : sentAlerts[i] \in Seq(Alerts)
    BY <1>1, <2>1, ElementOfSeq
  <2>3. sentAlerts = [i \in 1 .. Len(sentAlerts) |-> sentAlerts[i]]
    BY <2>1, LenProperties, SeqDef
  <2>4. sentAlerts \in [1 .. Len(sentAlerts) -> Seq(Alerts)]
    BY <2>2, <2>3
  <2> QED BY <2>1, <2>4, SeqDef
<1>3. Fresh => First \in AlertLists
  <2> SUFFICES ASSUME Fresh PROVE First \in AlertLists
    OBVIOUS
  <2>1. Len(sentAlerts) = 1 /\ sentAlerts \in Seq(AlertLists)
    BY DEF Fresh, GroupingInv
  <2>2. sentAlerts # <<>> /\ sentAlerts[1] \in AlertLists
    BY <2>1, ElementOfSeq
  <2> QED BY <2>2 DEF First
<1>4. Fresh => \A g \in DOMAIN Groups(First) : IsGroup(Groups(First)[g])
  <2> SUFFICES ASSUME Fresh PROVE \A g \in DOMAIN Groups(First) : IsGroup(Groups(First)[g])
    OBVIOUS
  <2>1. AreGroups(Groups(First))
    BY <1>3, GroupsOfSent
  <2> QED BY <2>1, SizesAre DEF AreGroups
<1>5. GroupingTypeOK
  <2>1. Fresh => \A n \in DOMAIN Groups(First) :
                   Groups(First)[n].first <= Groups(First)[n].last
    BY <1>4, GroupTimes
  <2> QED BY <1>2, <2>1 DEF GroupingTypeOK, GroupingInv
<1>6. NoAlertIsLost
  BY <1>3, SummaryAddsUp DEF NoAlertIsLost
<1>7. ArrivalOrderIsIrrelevant
  BY <1>3, ArrivalIsIrrelevant DEF ArrivalOrderIsIrrelevant
<1>8. DuplicatesShareAGroup
  <2> SUFFICES ASSUME Fresh, NEW g \in DOMAIN Groups(First), NEW h \in DOMAIN Groups(First), g < h,
                      Fingerprint(Groups(First)[g].alerts[1])
                        = Fingerprint(Groups(First)[h].alerts[1])
               PROVE  /\ Groups(First)[h].first > 0
                      /\ \A n \in DOMAIN Groups(First)[g].alerts :
                           \/ Distance(Groups(First)[h].first, Groups(First)[g].alerts[n].ts)
                                > WindowSize
                           \/ Groups(First)[g].alerts[n].ts > Groups(First)[h].first
    BY DEF DuplicatesShareAGroup
  <2> DEFINE groups == Groups(First)
  <2>1. /\ AreGroups(groups)
        /\ \A m, n \in 1 .. Len(groups) : m < n => Apart(groups[m], groups[n])
    BY <1>3, GroupsOfSent
  <2>2. g \in 1 .. Len(groups) /\ h \in 1 .. Len(groups)
    BY <2>1, SizesAre
  <2> HIDE DEF groups
  <2>3. Apart(groups[g], groups[h])
    BY <2>1, <2>2
  <2>4. DOMAIN groups[g].alerts = 1 .. Len(groups[g].alerts)
    BY <2>1, <2>2, GroupTimes, LenProperties DEF AreGroups
  <2> QED BY <2>3, <2>4 DEF Apart, groups
<1>9. NoSilenceIsBridged
  BY <1>4, GroupKeepsPace DEF NoSilenceIsBridged
<1> QED BY <1>5, <1>6, <1>7, <1>8, <1>9 DEF GroupsHold, GroupingInv

\* Of any alerts, in any order: each one sent is in one place of one group and
\* the summary adds up; those with distinct times are grouped the same however
\* they are sent; a repetition within the window of the alert its group took
\* last starts no group; no group bridges a silence; and the request that waits
\* for the analyst is the latest that asked.
THEOREM GroupsAreHeld == GroupingSpec => []GroupsHold
<1>1. GroupingInv => GroupsHold
  BY GroupsOfTheFirst
<1> QED BY <1>1, GroupingInvHolds, PTL
=============================================================================
