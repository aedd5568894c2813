---------------------------- MODULE GuardedWrite ----------------------------
(***************************************************************************)
(* What the write path promises (docs/OVERVIEW.md section 5): a run's write*)
(* tools are called by one executor, once, and only after its gate opened; *)
(* a gate that was shut stays shut.  How a gate opens -- auto_approve, an  *)
(* analyst's resume -- and how a paused run gets lost is left to the       *)
(* implementation.                                                         *)
(***************************************************************************)
CONSTANTS Runs, Executors

VARIABLES
  gate,       \* "closed", "waiting" for a decision, "open" or "shut"
  executors   \* who has called the write tools of each run

gvars == <<gate, executors>>

GuardedWriteTypeOK ==
  /\ gate \in [Runs -> {"closed", "waiting", "open", "shut"}]
  /\ executors \in [Runs -> SUBSET Executors]

GuardedWriteInit ==
  /\ gate = [r \in Runs |-> "closed"]
  /\ executors = [r \in Runs |-> {}]

Waits(r) == gate[r] = "waiting"

\* r pauses; the runs in Lost can no longer be resumed.
Pause(r, Lost) ==
  /\ gate[r] = "closed"
  /\ gate' = [q \in Runs |-> IF q = r THEN "waiting"
                             ELSE IF q \in Lost THEN "shut" ELSE gate[q]]
  /\ UNCHANGED executors

Grant(r) ==
  /\ gate[r] \in {"closed", "waiting"}
  /\ gate' = [gate EXCEPT ![r] = "open"]
  /\ UNCHANGED executors

Shut(Lost) ==
  /\ \A q \in Lost : gate[q] \in {"closed", "waiting"}
  /\ gate' = [q \in Runs |-> IF q \in Lost THEN "shut" ELSE gate[q]]
  /\ UNCHANGED executors

Execute(r, e) ==
  /\ gate[r] = "open"
  /\ executors[r] = {}
  /\ executors' = [executors EXCEPT ![r] = {e}]
  /\ UNCHANGED gate

GuardedWriteNext ==
  \/ \E r \in Runs, Lost \in SUBSET {q \in Runs : Waits(q)} : Pause(r, Lost)
  \/ \E r \in Runs : Grant(r)
  \/ \E Lost \in SUBSET Runs : Shut(Lost)
  \/ \E r \in Runs, e \in Executors : Execute(r, e)

GuardedWriteSpec == GuardedWriteInit /\ [][GuardedWriteNext]_gvars
=============================================================================
