--------------------------- MODULE CircuitBreaker ---------------------------
(***************************************************************************)
(* The circuit breaker of the Wazuh MCP server                              *)
(* (src/wazuh_mcp_server/resilience.py, CircuitBreaker): what it does when   *)
(* a call asks to pass and when a call it let pass ends.  Its lock is held   *)
(* across no await, so each of these is one step.                            *)
(*                                                                           *)
(* Time is seen from the last failure only: "recent" is less than            *)
(* recovery_timeout ago.                                                     *)
(***************************************************************************)
EXTENDS Naturals

CONSTANTS
    Calls,     \* calls that go through the breaker
    Threshold  \* failure_threshold

ASSUME BreakerAssumption == Threshold \in Nat \ {0}

VARIABLES
    state,        \* closed, open or half_open
    failures,     \* failure_count
    lastFailure,  \* last_failure_time: none, recent or old
    trial,        \* _half_open_trial_in_progress
    probes,       \* ghost: calls under way that were let through half open
    spoilt        \* ghost: such a call ended in an exception nobody expected

breakerVars == <<state, failures, lastFailure, trial, probes, spoilt>>

BreakerInit ==
    /\ state = "closed"
    /\ failures = 0
    /\ lastFailure = "none"
    /\ trial = FALSE
    /\ probes = {}
    /\ spoilt = FALSE

ShouldAttemptReset == lastFailure # "recent"

StartTrial(c) ==
    /\ state = "open"
    /\ ShouldAttemptReset
    /\ ~trial
    /\ state' = "half_open"
    /\ trial' = TRUE
    /\ probes' = probes \cup {c}
    /\ UNCHANGED <<failures, lastFailure, spoilt>>

LetPass(c) ==
    \/ state = "closed" /\ UNCHANGED breakerVars
    \/ StartTrial(c)
    \/ /\ state = "half_open"
       /\ ~trial
       /\ probes' = probes \cup {c}
       /\ UNCHANGED <<state, failures, lastFailure, trial, spoilt>>

TurnAway ==
    /\ \/ state = "open" /\ (ShouldAttemptReset => trial)
       \/ state = "half_open" /\ trial
    /\ UNCHANGED breakerVars

OnSuccess(c) ==
    /\ trial' = FALSE
    /\ state' = IF state = "half_open" THEN "closed" ELSE state
    /\ failures' = 0
    /\ lastFailure' = "none"
    /\ probes' = probes \ {c}
    /\ UNCHANGED spoilt

\* Mutant of OnFailure: the trial flag survives the failure
OnFailureKeepTrial(c) ==
    /\ failures' = failures + 1
    /\ lastFailure' = "recent"
    /\ state' = IF failures' >= Threshold THEN "open" ELSE state
    /\ probes' = probes \ {c}
    /\ UNCHANGED <<trial, spoilt>>

\* Mutant of OnFailure: the circuit opens one failure late
OnFailureLate(c) ==
    /\ trial' = FALSE
    /\ failures' = failures + 1
    /\ lastFailure' = "recent"
    /\ state' = IF failures' > Threshold THEN "open" ELSE state
    /\ probes' = probes \ {c}
    /\ UNCHANGED spoilt

\* An exception of the expected kinds
OnFailure(c) ==
    /\ trial' = FALSE
    /\ failures' = failures + 1
    /\ lastFailure' = "recent"
    /\ state' = IF failures' >= Threshold THEN "open" ELSE state
    /\ probes' = probes \ {c}
    /\ UNCHANGED spoilt

\* Any other exception is passed on, and the breaker keeps its state
OnUnexpected(c) ==
    /\ probes' = probes \ {c}
    /\ spoilt' = (spoilt \/ c \in probes)
    /\ UNCHANGED <<state, failures, lastFailure, trial>>

RecoveryTimeout ==
    /\ lastFailure = "recent"
    /\ lastFailure' = "old"
    /\ UNCHANGED <<state, failures, trial, probes, spoilt>>

----------------------------------------------------------------------------

BreakerTypeOK ==
    /\ state \in {"closed", "open", "half_open"}
    /\ failures \in Nat
    /\ lastFailure \in {"none", "recent", "old"}
    /\ trial \in BOOLEAN
    /\ probes \subseteq Calls
    /\ spoilt \in BOOLEAN

\* A closed circuit has seen fewer failures in a row than its threshold, also
\* when calls let through earlier end after it opened, half opened and closed.
ClosedBelowThreshold == state = "closed" => failures < Threshold

\* The flag that turns calls away half open stands for a trial under way,
\* unless a trial ended in an exception that is not one of the expected kinds.
TrialIsUnderWay == trial /\ ~spoilt => probes # {}

\* User errors do not degrade the circuit (api/wazuh_client.py:43-44): no call
\* is turned away for a trial that is not under way.
UserErrorsDoNotDegrade == trial => probes # {}
=============================================================================
