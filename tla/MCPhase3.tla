------------------------------ MODULE MCPhase3 ------------------------------
(* Small instances of the guarded-write workflow for TLC. *)
EXTENDS Phase3Workflow, TLC

CONSTANTS r1, r2, h1, h2, i1, i2, g1, g2

Body(i, tier, auto, force, proxy, g, par) ==
  [incident |-> i, tier |-> tier, autoApprove |-> auto, forceVerifyFail |-> force,
   proxyDenied |-> proxy, target |-> g, parallel |-> par]

\* One request body: every run asks for a paused action on one incident.
PausedBodies == {Body(i1, "medium", FALSE, FALSE, FALSE, g1, {})}

\* Two incidents naming the same target, paused and auto-approved, and a
\* read-only one.
MixedBodies ==
  {Body(i1, "high", FALSE, FALSE, FALSE, g1, {}),
   Body(i2, "medium", TRUE, TRUE, TRUE, g1, {}),
   Body(i1, "low", TRUE, FALSE, TRUE, g1, {})}

\* Parallel actions, of which only the primary one is undone.
ParallelBodies ==
  {Body(i1, "critical", TRUE, FALSE, FALSE, g1, {g1, g2}),
   Body(i1, "critical", FALSE, TRUE, FALSE, g1, {g1, g2}),
   Body(i1, "medium", FALSE, FALSE, FALSE, g1, {g2})}

ResumeSymmetry == Permutations(Resumes)
=============================================================================
