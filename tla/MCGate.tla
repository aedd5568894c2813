------------------------------- MODULE MCGate -------------------------------
(* Small instances of the two services of the approval gate for TLC. *)
EXTENDS HumanGate, TLC

CONSTANTS r1, r2, h1, h2, i1, g1, a1, a2

Body(tier) ==
  [incident |-> i1, tier |-> tier, autoApprove |-> FALSE, forceVerifyFail |-> FALSE,
   proxyDenied |-> TRUE, target |-> g1, parallel |-> {}]

\* Every run pauses on the same incident, needing one or two approvals.
PausingBodies == {Body("medium"), Body("high")}

GateSymmetry == Permutations(Runs) \cup Permutations(Resumes)
                  \cup Permutations(Rows)
=============================================================================
