---------------------------- MODULE MCPlaybooks -----------------------------
(* A small instance of the investigation playbooks for TLC.                  *)
EXTENDS Playbooks

LowThresholds == {[medium |-> 1, high |-> 2]}
=============================================================================
