------------------------------ MODULE HumanGate ------------------------------
(***************************************************************************)
(* The human in the loop: Phase 3 pauses a run and posts an approval to    *)
(* Phase 4; analysts decide there; the final decision is posted back to    *)
(* /phase3/approvals/{incident_id}/resume.  The two services share nothing *)
(* but those posts: either may be lost, late or time out, and the resume   *)
(* URL names the incident, not the run.                                    *)
(***************************************************************************)
EXTENDS Phase3Workflow, ApprovalStore

CONSTANTS
  DirectResume   \* may a caller resume Phase 3 without Phase 4?

\* An approval is about a paused run; what a resume answers is its status.
ASSUME GateAssumption ==
  /\ DirectResume \in BOOLEAN
  /\ Subjects = Runs
  /\ Statuses \subseteq Results

VARIABLES
  notices,       \* runs whose POST /approvals Phase 4 has not handled
  resumePosts,   \* rows whose resume post Phase 3 has not handled
  origin         \* the row a resume request came from, NoRow if direct

linkVars == <<notices, resumePosts, origin>>
gateVars == <<vars, storeVars, linkVars>>

GateInit ==
  /\ Init
  /\ StoreInit
  /\ notices = {}
  /\ resumePosts = {}
  /\ origin = [h \in Resumes |-> NoRow]

\* node_pending_approval posts the approval and returns after the answer, a
\* failure or 10 s; Phase 4 may handle the post after that.
PostNotice(r) ==
  /\ Notify(r)
  /\ \/ notices' = notices \cup {r}
     \/ UNCHANGED notices
  /\ UNCHANGED <<storeVars, resumePosts, origin>>

HandleNotice(r, a) ==
  /\ r \in notices
  /\ CreateApproval(a, r, ApprovalsNeeded(wf[r].req))
  /\ notices' = notices \ {r}
  /\ UNCHANGED <<vars, resumePosts, origin>>

AnalystDecides(a, verdict) ==
  /\ Decide(a, verdict)
  /\ resumePosts' = IF deciding' = a THEN resumePosts \cup {a} ELSE resumePosts
  /\ UNCHANGED <<vars, notices, origin>>

IncidentOf(a) == wf[approvals[a].subject].req.incident

\* The resume handler: whatever the incident has pending now.
HandleResume(h, a) ==
  /\ a \in resumePosts
  /\ \/ ResumeFound(h, IncidentOf(a), approvals[a].status)
     \/ ResumeMissing(h, IncidentOf(a))
  /\ resumePosts' = resumePosts \ {a}
  /\ origin' = [origin EXCEPT ![h] = a]
  /\ UNCHANGED <<storeVars, notices>>

LosePost(a) ==
  /\ a \in resumePosts
  /\ resumePosts' = resumePosts \ {a}
  /\ UNCHANGED <<vars, storeVars, notices, origin>>

ResumeDirectly(h) ==
  /\ DirectResume
  /\ Resume(h)
  /\ UNCHANGED <<storeVars, linkVars>>

Answering(h) == ~LoopFree /\ origin[h] = deciding

AnswerResume(h) ==
  /\ Answering(h)
  /\ pc[h] = "done"
  /\ ResumeAnswered(wf[h].status)
  /\ UNCHANGED <<vars, linkVars>>

WaitForAnswer ==
  /\ \E h \in Resumes : Answering(h) /\ pc[h] \in Ended
  /\ ResumeFailed
  /\ UNCHANGED <<vars, linkVars>>

\* A 404, a 500, a refused connection or the 30 s timeout.
GiveUpResume ==
  /\ ResumeFailed
  /\ UNCHANGED <<vars, linkVars>>

Phase4Step ==
  \/ \E r \in Runs, a \in Rows : HandleNotice(r, a)
  \/ \E a \in Rows, v \in Verdicts : AnalystDecides(a, v)
  \/ \E h \in Resumes : AnswerResume(h)
  \/ GiveUpResume
  \/ /\ \/ \E a \in Rows : CancelApproval(a) \/ PassDeadline(a)
        \/ ExpireStale
     /\ UNCHANGED <<vars, linkVars>>

Phase3Step ==
  \/ \E r \in Runs :
       \/ PostNotice(r)
       \/ RunStep(r) /\ pc[r] # "notify" /\ UNCHANGED <<storeVars, linkVars>>
  \/ \E h \in Resumes : ResumeDirectly(h) \/ \E a \in Rows : HandleResume(h, a)
  \/ /\ \/ \E t \in Threads : WriteStep(t)
        \/ \E m \in inflight : Serve(m)
        \/ \E m \in Message : Timeout(m)
        \/ Restart
     /\ UNCHANGED <<storeVars, linkVars>>

GateNext == Phase3Step \/ Phase4Step \/ \E a \in Rows : LosePost(a)

GateSpec == GateInit /\ [][GateNext]_gateVars

\* urlopen(timeout=30) returns, and the expiry task runs every minute.
GateFairness ==
  /\ WF_gateVars(GiveUpResume)
  /\ WF_gateVars(ExpireStale /\ UNCHANGED <<vars, linkVars>>)

GateFairSpec == GateSpec /\ GateFairness

-----------------------------------------------------------------------------
(* Properties.                                                             *)

\* The values every variable ranges over.
GateTypeOK ==
  /\ TypeOK
  /\ StoreTypeOK
  /\ notices \subseteq Runs
  /\ resumePosts \subseteq Rows
  /\ origin \in [Resumes -> Rows \cup {NoRow}]

\* A resume that came from Phase 4 carries the decision its row ended with,
\* and that row had its quorum: a cancelled, expired or half-approved row
\* never resumes anything.
ResumeCarriesDecision ==
  \A h \in Resumes : origin[h] # NoRow =>
    LET row == approvals[origin[h]]
    IN  /\ Final(row.status)
        /\ row.status = "approved" => row.received >= row.needed
        /\ wf[h] # NoState => wf[h].decision = row.status

\* A row resumes Phase 3 at most once, although posts are late and analysts
\* race: the 409 check and the commit come before the call.
OneResumePerRow ==
  \A h, k \in Resumes : origin[h] = origin[k] /\ origin[h] # NoRow => h = k

\* When Phase 3 is only resumed through Phase 4, a paused run is written
\* for only after an approval row of Phase 4 was approved.
WritesHaveApprovedRow ==
  ~DirectResume =>
    \A h \in Resumes : Wrote(h) =>
      origin[h] # NoRow /\ approvals[origin[h]].status = "approved"

\* The completion stored on a row is the outcome of the run it resumed.
CompletionIsOwnOutcome ==
  \A a \in Rows : Exists(a) /\ approvals[a].completion # "none" =>
    \E h \in Resumes :
      /\ origin[h] = a
      /\ pc[h] = "done"
      /\ wf[h].status = approvals[a].completion

\* A row that left "pending" keeps its decision, whichever of decide, cancel
\* and expiry came first; only the completion is added, once.
DecidedRowsAreFinal ==
  [][\A a \in Rows : Exists(a) /\ ~Decidable(a) =>
       /\ approvals'[a] = [approvals[a] EXCEPT !.completion = approvals'[a].completion]
       /\ approvals[a].completion # "none" => approvals'[a] = approvals[a]]_gateVars

\* The event loop blocked by a resume call is freed, whatever Phase 3 does.
LoopGetsFree == ~LoopFree ~> LoopFree

\* A row past its deadline does not stay open.
OverdueRowsClose ==
  \A a \in Rows : a \in overdue ~> ~Decidable(a)

\* "Analysts approve or reject ...; Phase 4 then resumes the Phase 3
\* workflow" (ApprovalRequest): the run resumed for a row is the run the
\* row was created for.
DecisionReachesItsRun ==
  \A h \in Resumes, r \in Runs :
    origin[h] # NoRow /\ Carries(h, r) => approvals[origin[h]].subject = r

(* The rows of Phase 4 govern what Phase 3 writes: a write has a row that  *)
(* was approved, a row resumes once and with its decision, and what it     *)
(* stores as the outcome is its own.                                       *)
RowsGovernWrites ==
  /\ GateTypeOK
  /\ ResumeCarriesDecision /\ OneResumePerRow
  /\ WritesHaveApprovedRow /\ CompletionIsOwnOutcome

(* Phase 4 gets free of every resume call, and closes what is overdue.     *)
GateComesFree == LoopGetsFree /\ OverdueRowsClose
=============================================================================
