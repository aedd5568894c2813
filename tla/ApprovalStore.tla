---------------------------- MODULE ApprovalStore ----------------------------
(***************************************************************************)
(* Phase 4's persisted approval requests (src/wazuh_mcp_server/phase4/     *)
(* server.py, /approvals): created when Phase 3 pauses a run, decided or   *)
(* cancelled by analysts, expired by a background task.  The rows are in   *)
(* PostgreSQL; the handlers are async functions that never await, so each  *)
(* is one step of the service's event loop -- except that the final        *)
(* decision blocks the loop in a synchronous POST to Phase 3.              *)
(***************************************************************************)
EXTENDS Naturals, FiniteSets

CONSTANTS
  Rows,       \* approval_requests rows
  Subjects,   \* what an approval is about: the paused Phase 3 run it describes
  Results,    \* workflow_status values of a resume response
  NoRow       \* absence of a row

RowStatuses == {"pending", "approved", "rejected", "expired", "cancelled"}
Verdicts == {"approved", "rejected"}
MaxNeeded == 2   \* bound: approvals_needed as node_propose_action computes it

RowType ==
  [subject : Subjects, needed : 1..MaxNeeded, received : 0..MaxNeeded,
   status : RowStatuses, completion : Results \cup {"none"}]

ASSUME ApprovalAssumption == NoRow \notin RowType /\ NoRow \notin Rows

VARIABLES
  approvals,  \* the table
  overdue,    \* rows whose expires_at has passed
  deciding    \* the row whose decide handler is blocked in the resume call

storeVars == <<approvals, overdue, deciding>>

StoreTypeOK ==
  /\ approvals \in [Rows -> RowType \cup {NoRow}]
  /\ overdue \subseteq Rows
  /\ deciding \in Rows \cup {NoRow}

StoreInit ==
  /\ approvals = [a \in Rows |-> NoRow]
  /\ overdue = {}
  /\ deciding = NoRow

LoopFree == deciding = NoRow
Exists(a) == approvals[a] # NoRow
Final(status) == status \in {"approved", "rejected"}

\* create_approval: no look at the rows already there.
CreateApproval(a, subject, needed) ==
  /\ LoopFree
  /\ ~Exists(a)
  /\ approvals' = [approvals EXCEPT ![a] =
       [subject |-> subject, needed |-> needed, received |-> 0,
        status |-> "pending", completion |-> "none"]]
  /\ UNCHANGED <<overdue, deciding>>

\* decide_approval answers 409 unless the row is pending.
AnyRow(a) == Exists(a)
Decidable(a) == Exists(a) /\ approvals[a].status = "pending"

QuorumBefore(row) == row.received >= row.needed
FirstApproval(row) == row.received >= 0
QuorumAfter(row) == row.received + 1 >= row.needed

Decided(row, verdict) ==
  IF verdict = "rejected" THEN [row EXCEPT !.status = "rejected"]
  ELSE [row EXCEPT !.received = @ + 1,
                   !.status = IF QuorumAfter(row) THEN "approved" ELSE @]

\* The commit, and the start of the resume call when the row got final.
\* Whoever approves is counted: an analyst may be counted twice.
Decide(a, verdict) ==
  /\ LoopFree
  /\ Decidable(a)
  /\ LET row == Decided(approvals[a], verdict)
     IN  /\ approvals' = [approvals EXCEPT ![a] = row]
         /\ deciding' = IF Final(row.status) THEN a ELSE NoRow
  /\ UNCHANGED overdue

\* The resume call answered with a workflow_status: store it.
ResumeAnswered(result) ==
  /\ ~LoopFree
  /\ approvals' = [approvals EXCEPT ![deciding].completion = result]
  /\ deciding' = NoRow
  /\ UNCHANGED overdue

StoreUnansweredResult ==
  /\ ~LoopFree
  /\ \E result \in Results :
       approvals' = [approvals EXCEPT ![deciding].completion = result]
  /\ deciding' = NoRow
  /\ UNCHANGED overdue

\* It failed or took more than 30 s (logged), or the service restarted in
\* the middle of it: the decision is committed and stays.
ResumeFailed ==
  /\ ~LoopFree
  /\ deciding' = NoRow
  /\ UNCHANGED <<approvals, overdue>>

CancelApproval(a) ==
  /\ LoopFree
  /\ Decidable(a)
  /\ approvals' = [approvals EXCEPT ![a].status = "cancelled"]
  /\ UNCHANGED <<overdue, deciding>>

PassDeadline(a) ==
  /\ Exists(a)
  /\ a \notin overdue
  /\ overdue' = overdue \cup {a}
  /\ UNCHANGED <<approvals, deciding>>

StaleUnlessRejected ==
  {a \in overdue : Exists(a) /\ approvals[a].status \in {"pending", "approved"}}
StaleUntouched == {a \in overdue : Decidable(a) /\ approvals[a].received = 0}
Stale == {a \in overdue : Decidable(a)}

\* _expire_stale_approvals, every 60 s.
ExpireStale ==
  /\ LoopFree
  /\ Stale # {}
  /\ approvals' = [a \in Rows |->
       IF a \in Stale THEN [approvals[a] EXCEPT !.status = "expired"]
       ELSE approvals[a]]
  /\ UNCHANGED <<overdue, deciding>>
=============================================================================
