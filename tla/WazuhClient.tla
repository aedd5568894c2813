---------------------------- MODULE WazuhClient ----------------------------
(***************************************************************************)
(* Requests to the Wazuh API (src/wazuh_mcp_server/api/wazuh_client.py):     *)
(* the connection slots, retries by tenacity, the circuit breaker, and the   *)
(* token that is fetched when there is none and again after a 401.           *)
(*                                                                           *)
(* "at" is the await a request is in.  An attempt ends in one of             *)
(*   ok, down (connection lost, timeout, 429, 5xx), unreachable (login or    *)
(*   TLS failed), broken (other transport errors), refused (ValueError):     *)
(* the breaker counts down and unreachable, tenacity repeats down and broken.*)
(***************************************************************************)
EXTENDS CircuitBreaker, FiniteSets

CONSTANTS
    Writes,       \* the calls by PUT or DELETE
    Slots,        \* max_connections
    MaxAttempts,  \* stop_after_attempt
    MaxTokens,    \* bound: tokens handed out
    NoCall

ASSUME ClientAssumption ==
    /\ Writes \subseteq Calls
    /\ Slots \in Nat \ {0}
    /\ MaxAttempts \in Nat \ {0}
    /\ MaxTokens \in Nat \ {0}
    /\ NoCall \notin Calls

NoToken == 0
Tokens  == 1 .. MaxTokens

VARIABLES
    at,         \* where each call is
    attempts,   \* attempts of a call that failed
    token,      \* the client's token
    lastToken,  \* tokens handed out so far
    expired,    \* those Wazuh refuses
    held,       \* the token of a call's last request
    refused,    \* the token a call was refused for in this attempt
    lock,       \* the call that holds _auth_lock
    executed    \* how often Wazuh carried out a write

clientVars == <<at, attempts, token, lastToken, expired, held, refused, lock, executed>>
vars == <<breakerVars, clientVars>>

Init ==
    /\ BreakerInit
    /\ at = [c \in Calls |-> "new"]
    /\ attempts = [c \in Calls |-> 0]
    /\ token = NoToken
    /\ lastToken = 0
    /\ expired = {}
    /\ held = [c \in Calls |-> NoToken]
    /\ refused = [c \in Calls |-> NoToken]
    /\ lock = NoCall
    /\ executed = [c \in Writes |-> 0]

Outside == {"new", "done", "failed"}
InSlot  == {c \in Calls : at[c] \notin Outside}

----------------------------------------------------------------------------
(* The end of an attempt.                                                   *)

Failures == {"down", "unreachable", "broken", "refused"}

Counted(outcome)   == outcome \in {"down", "unreachable"}
Retryable(outcome) == outcome \in {"down", "broken"}

RetriedAlways(c, outcome) == Retryable(outcome) /\ attempts[c] + 1 < MaxAttempts
RetriedOnceMore(c, outcome) ==
    c \notin Writes /\ Retryable(outcome) /\ attempts[c] + 1 <= MaxAttempts
Retried(c, outcome) ==
    c \notin Writes /\ Retryable(outcome) /\ attempts[c] + 1 < MaxAttempts

\* What the attempt knew is gone
Forget(c) ==
    /\ held' = [held EXCEPT ![c] = NoToken]
    /\ refused' = [refused EXCEPT ![c] = NoToken]

\* A call whose attempt failed sleeps before the next
AfterFailure(c, outcome) ==
    /\ Forget(c)
    /\ attempts' = [attempts EXCEPT ![c] = @ + 1]
    /\ at' = [at EXCEPT ![c] = IF Retried(c, outcome) THEN "ready" ELSE "failed"]

Fail(c, outcome) ==
    /\ IF Counted(outcome) THEN OnFailure(c) ELSE OnUnexpected(c)
    /\ AfterFailure(c, outcome)

Succeed(c) ==
    /\ OnSuccess(c)
    /\ Forget(c)
    /\ at' = [at EXCEPT ![c] = "done"]
    /\ UNCHANGED attempts

\* Wazuh carried a write out, or not
Carried(c, outcome) ==
    \/ c \in Writes /\ executed' = [executed EXCEPT ![c] = @ + 1]
    \/ (outcome = "ok" => c \notin Writes) /\ UNCHANGED executed

Sent(c, place, t) ==
    /\ at' = [at EXCEPT ![c] = place]
    /\ held' = [held EXCEPT ![c] = t]

----------------------------------------------------------------------------
(* The steps of a request.                                                  *)

\* A slot, and the wait for the rate limit
Enter(c) ==
    /\ at[c] = "new"
    /\ Cardinality(InSlot) < Slots
    /\ at' = [at EXCEPT ![c] = "ready"]
    /\ UNCHANGED <<breakerVars, attempts, token, lastToken, expired, held, refused,
                   lock, executed>>

\* The breaker turns the call away with a 503, which is not retried
Rejected(c) ==
    /\ at[c] = "ready"
    /\ TurnAway
    /\ at' = [at EXCEPT ![c] = "failed"]
    /\ UNCHANGED <<attempts, token, lastToken, expired, held, refused, lock, executed>>

\* The breaker lets the call pass: to the request, or to a login first
Attempt(c) ==
    /\ at[c] = "ready"
    /\ LetPass(c)
    /\ \/ /\ token = NoToken
          /\ at' = [at EXCEPT ![c] = "login"]
          /\ UNCHANGED held
       \/ /\ token # NoToken
          /\ Sent(c, "sent", token)
    /\ UNCHANGED <<attempts, token, lastToken, expired, refused, lock, executed>>

NewToken ==
    /\ lastToken < MaxTokens
    /\ lastToken' = lastToken + 1
    /\ token' = lastToken'

\* Mutant of Release: the lock is released after a login that answers only
ReleaseOnLogin(c) ==
    IF lock = c /\ token' # NoToken THEN lock' = NoCall ELSE UNCHANGED lock

\* A call leaves the lock however its login ends
Release(c) == IF lock = c THEN lock' = NoCall ELSE UNCHANGED lock

\* The answer to a login, and to one made after a 401
LoginAnswer(c) ==
    /\ at[c] \in {"login", "relogin"}
    /\ \/ /\ NewToken
          /\ Sent(c, IF at[c] = "login" THEN "sent" ELSE "resent", lastToken')
          /\ UNCHANGED <<breakerVars, attempts, refused>>
       \/ /\ \E outcome \in Failures \ {"down"} : Fail(c, outcome)
          /\ UNCHANGED <<token, lastToken>>
    /\ Release(c)
    /\ UNCHANGED <<expired, executed>>

\* Wazuh answers, or the request is given up
Reply(c) ==
    /\ at[c] = "sent"
    /\ held[c] \notin expired
    /\ \/ Succeed(c) /\ Carried(c, "ok")
       \/ \E outcome \in Failures : Fail(c, outcome) /\ Carried(c, outcome)
    /\ UNCHANGED <<token, lastToken, expired, lock>>

\* A 401: the call waits for the lock
Unauthorized(c) ==
    /\ at[c] = "sent"
    /\ held[c] \in expired
    /\ at' = [at EXCEPT ![c] = "locking"]
    /\ refused' = [refused EXCEPT ![c] = held[c]]
    /\ UNCHANGED <<breakerVars, attempts, token, lastToken, expired, held, lock, executed>>

\* The token is still the refused one, or there is none
StaleIfNone(c) == token = NoToken
Stale(c)       == token = NoToken \/ token = held[c]

Locked(c) ==
    /\ at[c] = "locking"
    /\ lock = NoCall
    /\ \/ /\ Stale(c)
          /\ token' = NoToken
          /\ lock' = c
          /\ at' = [at EXCEPT ![c] = "relogin"]
          /\ UNCHANGED held
       \/ /\ ~Stale(c)
          /\ Sent(c, "resent", token)
          /\ UNCHANGED <<token, lock>>
    /\ UNCHANGED <<breakerVars, attempts, lastToken, expired, refused, executed>>

\* The answer to the request made again: any error status is a ValueError
SecondReply(c) ==
    /\ at[c] = "resent"
    /\ \/ held[c] \notin expired /\ Succeed(c) /\ Carried(c, "ok")
       \/ \E outcome \in Failures \ {"unreachable"} :
             /\ Fail(c, outcome)
             /\ IF held[c] \in expired THEN UNCHANGED executed ELSE Carried(c, outcome)
    /\ UNCHANGED <<token, lastToken, expired, lock>>

\* Wazuh no longer takes a token
Expire(t) ==
    /\ t \in 1 .. lastToken \ expired
    /\ expired' = expired \cup {t}
    /\ UNCHANGED <<breakerVars, at, attempts, token, lastToken, held, refused, lock, executed>>

Step(c) ==
    \/ Enter(c) \/ Rejected(c) \/ Attempt(c) \/ LoginAnswer(c)
    \/ Reply(c) \/ Unauthorized(c) \/ Locked(c) \/ SecondReply(c)

Next ==
    \/ \E c \in Calls : Step(c)
    \/ \E t \in Tokens : Expire(t)
    \/ RecoveryTimeout /\ UNCHANGED clientVars

Spec == Init /\ [][Next]_vars

\* Every await ends: requests time out, a lock is handed on, a slot is freed
FairSpec == Spec /\ \A c \in Calls : WF_vars(Step(c))

----------------------------------------------------------------------------
(* Properties.                                                              *)

\* Every variable keeps to its type; a call is attempted stop_after_attempt
\* times at most.
ClientTypeOK ==
    /\ BreakerTypeOK
    /\ at \in [Calls -> {"new", "ready", "login", "sent", "locking", "relogin",
                         "resent", "done", "failed"}]
    /\ attempts \in [Calls -> 0 .. MaxAttempts]
    /\ token \in Tokens \cup {NoToken}
    /\ lastToken \in 0 .. MaxTokens
    /\ expired \subseteq Tokens
    /\ held \in [Calls -> Tokens \cup {NoToken}]
    /\ refused \in [Calls -> Tokens \cup {NoToken}]
    /\ lock \in Calls \cup {NoCall}
    /\ executed \in [Writes -> Nat]

\* Wazuh carries out a write once at most, whatever answers are late or lost
\* and whatever tokens expire (api/wazuh_client.py:424-426).
WritesOnce == \A c \in Writes : executed[c] <= 1

\* A request goes out with a token, and the one made after a 401 with another
\* than the refused one, however many calls log in at the same time.
CarriesUsableToken ==
    \A c \in Calls : at[c] \in {"sent", "resent"} =>
        held[c] # NoToken /\ held[c] # refused[c]

\* Every call that asks for a slot is answered, whatever Wazuh does.
EveryCallReturns == \A c \in Calls : at[c] = "new" ~> at[c] \in {"done", "failed"}

(* The circuit is open from its threshold of failures on, and the flag of  *)
(* its trial is true.                                                      *)
CircuitCountsFailures == ClosedBelowThreshold /\ TrialIsUnderWay

(* A request goes out with a token that was not refused, and what writes   *)
(* goes out once.                                                          *)
RequestsAreSound == WritesOnce /\ CarriesUsableToken
=============================================================================
