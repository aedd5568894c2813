------------------------- MODULE WazuhClientProofs -------------------------
(***************************************************************************)
(* Proofs about six parts of the MCP server that share no state.           *)
(*                                                                         *)
(* WazuhClient: its types, the circuit breaker's threshold and trial flag, *)
(* writes carried out once, and the tokens that requests carry.  The       *)
(* breaker's part of the invariant is kept by what the breaker does        *)
(* whenever it is asked; the client's part by each step of a call.         *)
(*                                                                         *)
(* RateLimiter: the deque of a client is the end of all the times it was   *)
(* let in, what came before is out of the window, and any MaxRequests + 1  *)
(* of those times exceed the window.                                       *)
(*                                                                         *)
(* Authentication: a code that can still be exchanged bought nothing yet,  *)
(* what is revoked is not held, and the tokens an eviction keeps are few   *)
(* and the newest.                                                         *)
(*                                                                         *)
(* McpTransport: the gauge is the number of requests and streams that      *)
(* count, and between finding a session and storing it again no other      *)
(* request of the in-memory store runs.                                    *)
(*                                                                         *)
(* TrafficLog: what a subscriber was and will be sent is in order, and     *)
(* older than what is logged next; the ring is the end of the log, so a    *)
(* call of it is the k-th of its tool when k - 1 of them were logged later. *)
(*                                                                         *)
(* JsonRpc: what is answered is what is selected of the body, in its place.*)
(***************************************************************************)
EXTENDS WazuhClient, RateLimiter, Authentication, McpTransport, TrafficLog, JsonRpc,
        SelectionLemmas, FiniteSetTheorems, SequenceTheorems, TLAPS

BreakerInv == BreakerTypeOK /\ ClosedBelowThreshold /\ TrialIsUnderWay

Places == {"new", "ready", "login", "sent", "locking", "relogin", "resent",
           "done", "failed"}

ClientTypes ==
    /\ at \in [Calls -> Places]
    /\ attempts \in [Calls -> 0 .. MaxAttempts]
    /\ token \in Tokens \cup {NoToken}
    /\ lastToken \in 0 .. MaxTokens
    /\ expired \subseteq Tokens
    /\ held \in [Calls -> Tokens \cup {NoToken}]
    /\ refused \in [Calls -> Tokens \cup {NoToken}]
    /\ lock \in Calls \cup {NoCall}
    /\ executed \in [Writes -> Nat]

\* What is true of a call at the await it is in: another attempt is left, a
\* write was not carried out yet, and the tokens it knows.
Under(c) ==
    /\ at[c] \notin {"done", "failed"} =>
          /\ attempts[c] < MaxAttempts
          /\ c \in Writes => executed[c] = 0
    /\ at[c] \in {"sent", "locking", "relogin", "resent"} => held[c] # NoToken
    /\ at[c] \in {"locking", "relogin"} => refused[c] = held[c]
    /\ at[c] = "resent" => refused[c] # held[c]
    /\ at[c] \in {"new", "ready", "login", "sent"} => refused[c] = NoToken
    /\ held[c] <= lastToken
    /\ refused[c] <= lastToken

ClientInv ==
    /\ ClientTypes
    /\ token <= lastToken
    /\ WritesOnce
    /\ \A c \in Calls : Under(c)

IInv == BreakerInv /\ ClientInv

----------------------------------------------------------------------------
(* The breaker.                                                             *)

\* What a step may do to the breaker's state
BreakerStep(c) ==
    \/ LetPass(c) \/ OnSuccess(c) \/ OnFailure(c) \/ OnUnexpected(c)
    \/ RecoveryTimeout \/ UNCHANGED breakerVars

LEMMA BreakerTypes ==
    ASSUME NEW c \in Calls, BreakerTypeOK, BreakerStep(c)
    PROVE  BreakerTypeOK'
<1> USE DEF BreakerTypeOK
<1>1. CASE LetPass(c)
  BY <1>1 DEF LetPass, StartTrial, breakerVars
<1>2. CASE OnSuccess(c)
  BY <1>2 DEF OnSuccess
<1>3. CASE OnFailure(c)
  <2>1. probes' \subseteq Calls
    BY <1>3 DEF OnFailure
  <2>2. failures' \in Nat /\ state' \in {"closed", "open", "half_open"}
    BY <1>3 DEF OnFailure
  <2> QED
    BY <1>3, <2>1, <2>2 DEF OnFailure
<1>4. CASE OnUnexpected(c)
  <2>1. spoilt' \in BOOLEAN
    BY <1>4, Zenon DEF OnUnexpected
  <2>2. probes' \subseteq Calls
    BY <1>4 DEF OnUnexpected
  <2> QED
    BY <1>4, <2>1, <2>2 DEF OnUnexpected
<1>5. CASE RecoveryTimeout
  BY <1>5 DEF RecoveryTimeout
<1>6. CASE UNCHANGED breakerVars
  BY <1>6 DEF breakerVars
<1> QED
  BY <1>1, <1>2, <1>3, <1>4, <1>5, <1>6 DEF BreakerStep

LEMMA ThresholdKept ==
    ASSUME NEW c \in Calls, BreakerTypeOK, ClosedBelowThreshold, BreakerStep(c)
    PROVE  ClosedBelowThreshold'
<1> USE BreakerAssumption DEF BreakerTypeOK, ClosedBelowThreshold
<1>1. CASE LetPass(c)
  BY <1>1 DEF LetPass, StartTrial, breakerVars
<1>2. CASE OnSuccess(c)
  BY <1>2 DEF OnSuccess
<1>3. CASE OnFailure(c)
  BY <1>3 DEF OnFailure
<1>4. CASE OnUnexpected(c)
  BY <1>4 DEF OnUnexpected
<1>5. CASE RecoveryTimeout
  BY <1>5 DEF RecoveryTimeout
<1>6. CASE UNCHANGED breakerVars
  BY <1>6 DEF breakerVars
<1> QED
  BY <1>1, <1>2, <1>3, <1>4, <1>5, <1>6 DEF BreakerStep

LEMMA TrialKept ==
    ASSUME NEW c \in Calls, TrialIsUnderWay, BreakerStep(c)
    PROVE  TrialIsUnderWay'
<1> USE DEF TrialIsUnderWay
<1>1. CASE LetPass(c)
  BY <1>1 DEF LetPass, StartTrial, breakerVars
<1>2. CASE OnSuccess(c)
  BY <1>2 DEF OnSuccess
<1>3. CASE OnFailure(c)
  BY <1>3 DEF OnFailure
<1>4. CASE OnUnexpected(c)
  BY <1>4 DEF OnUnexpected
<1>5. CASE RecoveryTimeout
  BY <1>5 DEF RecoveryTimeout
<1>6. CASE UNCHANGED breakerVars
  BY <1>6 DEF breakerVars
<1> QED
  BY <1>1, <1>2, <1>3, <1>4, <1>5, <1>6 DEF BreakerStep

LEMMA BreakerKeeps ==
    ASSUME NEW c \in Calls, BreakerInv, BreakerStep(c)
    PROVE  BreakerInv'
BY BreakerTypes, ThresholdKept, TrialKept DEF BreakerInv

\* Every step of a call does one thing to the breaker.
LEMMA CallsUseBreaker ==
    ASSUME NEW c \in Calls, Step(c)
    PROVE  BreakerStep(c)
<1>1. CASE Enter(c) \/ Unauthorized(c) \/ Locked(c)
  BY <1>1 DEF Enter, Unauthorized, Locked, BreakerStep
<1>2. CASE Rejected(c)
  BY <1>2 DEF Rejected, TurnAway, BreakerStep
<1>3. CASE Attempt(c)
  BY <1>3 DEF Attempt, BreakerStep
<1>4. CASE LoginAnswer(c)
  BY <1>4 DEF LoginAnswer, Fail, BreakerStep
<1>5. CASE Reply(c)
  BY <1>5 DEF Reply, Fail, Succeed, BreakerStep
<1>6. CASE SecondReply(c)
  BY <1>6 DEF SecondReply, Fail, Succeed, BreakerStep
<1> QED
  BY <1>1, <1>2, <1>3, <1>4, <1>5, <1>6 DEF Step

----------------------------------------------------------------------------
(* The calls.                                                               *)

\* What a failed attempt leaves behind
LEMMA FailKeeps ==
    ASSUME NEW c \in Calls, ClientInv, at[c] \notin {"done", "failed"},
           NEW outcome \in Failures, Fail(c, outcome)
    PROVE  /\ at' \in [Calls -> Places]
           /\ attempts' \in [Calls -> 0 .. MaxAttempts]
           /\ held' = [held EXCEPT ![c] = NoToken]
           /\ refused' = [refused EXCEPT ![c] = NoToken]
           /\ \A d \in Calls \ {c} : at'[d] = at[d] /\ attempts'[d] = attempts[d]
           /\ at'[c] \in {"ready", "failed"}
           /\ at'[c] = "ready" => attempts'[c] < MaxAttempts /\ c \notin Writes
<1>1. attempts[c] \in Nat /\ attempts[c] < MaxAttempts
  BY DEF ClientInv, ClientTypes, Under
<1>2. attempts' = [attempts EXCEPT ![c] = @ + 1]
  BY DEF Fail, AfterFailure
<1>3. at' = [at EXCEPT ![c] = IF Retried(c, outcome) THEN "ready" ELSE "failed"]
  BY DEF Fail, AfterFailure
<1>4. held' = [held EXCEPT ![c] = NoToken] /\ refused' = [refused EXCEPT ![c] = NoToken]
  BY DEF Fail, AfterFailure, Forget
<1>5. at \in [Calls -> Places] /\ attempts \in [Calls -> 0 .. MaxAttempts]
  BY DEF ClientInv, ClientTypes
<1>6. attempts' \in [Calls -> 0 .. MaxAttempts]
  BY <1>1, <1>2, <1>5, ClientAssumption
<1>7. at' \in [Calls -> Places] /\ at'[c] \in {"ready", "failed"}
  BY <1>3, <1>5 DEF Places
<1>8. at'[c] = "ready" => attempts'[c] < MaxAttempts /\ c \notin Writes
  BY <1>1, <1>2, <1>3, <1>5 DEF Retried
<1> QED
  BY <1>2, <1>3, <1>4, <1>5, <1>6, <1>7, <1>8

LEMMA SucceedKeeps ==
    ASSUME NEW c \in Calls, ClientTypes, Succeed(c)
    PROVE  /\ at' = [at EXCEPT ![c] = "done"]
           /\ at' \in [Calls -> Places]
           /\ held' = [held EXCEPT ![c] = NoToken]
           /\ refused' = [refused EXCEPT ![c] = NoToken]
           /\ attempts' = attempts
BY DEF Succeed, Forget, ClientTypes, Places

\* A write is carried out at the end of its only attempt.
LEMMA CarriedOnce ==
    ASSUME NEW c \in Calls, ClientInv, at[c] \notin {"done", "failed"},
           NEW outcome, Carried(c, outcome)
    PROVE  /\ executed' \in [Writes -> Nat]
           /\ WritesOnce'
           /\ \A d \in Writes \ {c} : executed'[d] = executed[d]
           /\ c \notin Writes => executed' = executed
<1>1. executed \in [Writes -> Nat] /\ WritesOnce
  BY DEF ClientInv, ClientTypes
<1>2. c \in Writes => executed[c] = 0
  BY DEF ClientInv, Under
<1> QED
  BY <1>1, <1>2 DEF Carried, WritesOnce

\* The calls that a step is not about, when it hands out no token twice
LEMMA OthersKeep ==
    ASSUME NEW c \in Calls, NEW d \in Calls \ {c}, ClientInv,
           at'[d] = at[d], attempts'[d] = attempts[d],
           held'[d] = held[d], refused'[d] = refused[d],
           d \in Writes => executed'[d] = executed[d],
           lastToken' \in Nat, lastToken <= lastToken'
    PROVE  Under(d)'
<1>1. Under(d)
  BY DEF ClientInv
<1>2. lastToken \in Nat /\ held[d] \in Nat /\ refused[d] \in Nat
  BY DEF ClientInv, ClientTypes, Tokens, NoToken
<1> QED
  BY <1>1, <1>2 DEF Under

LEMMA EnterKeeps ==
    ASSUME NEW c \in Calls, ClientInv, Enter(c)
    PROVE  ClientInv'
<1>1. ClientTypes'
  BY DEF Enter, ClientInv, ClientTypes, Places
<1>2. Under(c)'
  BY DEF Enter, ClientInv, ClientTypes, Under
<1>3. \A d \in Calls \ {c} : Under(d)'
  BY OthersKeep DEF Enter, ClientInv, ClientTypes
<1> QED
  BY <1>1, <1>2, <1>3 DEF Enter, ClientInv, WritesOnce

LEMMA RejectedKeeps ==
    ASSUME NEW c \in Calls, ClientInv, Rejected(c)
    PROVE  ClientInv'
<1>1. ClientTypes'
  BY DEF Rejected, ClientInv, ClientTypes, Places
<1>2. Under(c)'
  BY DEF Rejected, ClientInv, ClientTypes, Under
<1>3. \A d \in Calls \ {c} : Under(d)'
  BY OthersKeep DEF Rejected, ClientInv, ClientTypes
<1> QED
  BY <1>1, <1>2, <1>3 DEF Rejected, ClientInv, WritesOnce

LEMMA AttemptKeeps ==
    ASSUME NEW c \in Calls, ClientInv, Attempt(c)
    PROVE  ClientInv'
<1>1. ClientTypes'
  BY DEF Attempt, Sent, ClientInv, ClientTypes, Places
<1>2. Under(c)'
  BY DEF Attempt, Sent, ClientInv, ClientTypes, Under
<1>3. \A d \in Calls \ {c} : Under(d)'
  BY OthersKeep DEF Attempt, Sent, ClientInv, ClientTypes
<1> QED
  BY <1>1, <1>2, <1>3 DEF Attempt, ClientInv, WritesOnce

LEMMA LoginAnswerKeeps ==
    ASSUME NEW c \in Calls, ClientInv, LoginAnswer(c)
    PROVE  ClientInv'
<1>1. lock' \in Calls \cup {NoCall}
  BY DEF LoginAnswer, Release, ClientInv, ClientTypes
<1>2. at[c] \in {"login", "relogin"} /\ at[c] \notin {"done", "failed"}
  BY DEF LoginAnswer
<1>3. CASE NewToken /\ Sent(c, IF at[c] = "login" THEN "sent" ELSE "resent", lastToken')
           /\ UNCHANGED <<breakerVars, attempts, refused>>
  <2>1. /\ lastToken \in Nat /\ lastToken' \in 1 .. MaxTokens
        /\ lastToken' = lastToken + 1 /\ token' = lastToken'
    BY <1>3, ClientAssumption DEF NewToken, ClientInv, ClientTypes
  <2>2. /\ at' = [at EXCEPT ![c] = IF at[c] = "login" THEN "sent" ELSE "resent"]
        /\ held' = [held EXCEPT ![c] = lastToken']
        /\ UNCHANGED <<attempts, refused, expired, executed>>
    BY <1>3 DEF Sent, LoginAnswer
  <2>3. ClientTypes'
    BY <1>1, <2>1, <2>2 DEF ClientInv, ClientTypes, Places, Tokens
  <2>4. refused[c] \in Nat /\ refused[c] <= lastToken /\ (at[c] = "login" => refused[c] = NoToken)
    BY DEF ClientInv, ClientTypes, Under, Tokens, NoToken
  <2>5. held'[c] = lastToken' /\ refused'[c] = refused[c] /\ at'[c] \in {"sent", "resent"}
        /\ (at'[c] = "sent" => at[c] = "login")
    BY <1>2, <2>2 DEF ClientInv, ClientTypes
  <2>6. attempts'[c] < MaxAttempts /\ (c \in Writes => executed'[c] = 0)
    BY <1>2, <2>2 DEF ClientInv, Under
  <2>7. Under(c)'
    BY <2>1, <2>4, <2>5, <2>6 DEF Under, NoToken
  <2>8. \A d \in Calls \ {c} : Under(d)'
    BY <2>1, <2>2, OthersKeep DEF ClientInv, ClientTypes
  <2> QED
    BY <2>1, <2>2, <2>3, <2>7, <2>8 DEF ClientInv, WritesOnce
<1>4. ASSUME NEW outcome \in Failures, Fail(c, outcome), UNCHANGED <<token, lastToken>>
      PROVE  ClientInv'
  <2>1. UNCHANGED <<expired, executed>>
    BY DEF LoginAnswer
  <2>2. /\ at' \in [Calls -> Places]
        /\ attempts' \in [Calls -> 0 .. MaxAttempts]
        /\ held' = [held EXCEPT ![c] = NoToken]
        /\ refused' = [refused EXCEPT ![c] = NoToken]
        /\ \A d \in Calls \ {c} : at'[d] = at[d] /\ attempts'[d] = attempts[d]
        /\ at'[c] \in {"ready", "failed"}
        /\ at'[c] = "ready" => attempts'[c] < MaxAttempts /\ c \notin Writes
    BY <1>2, <1>4, FailKeeps
  <2>3. ClientTypes'
    BY <1>1, <1>4, <2>1, <2>2 DEF ClientInv, ClientTypes
  <2>4. Under(c)'
    BY <1>4, <2>2 DEF Under, ClientInv, ClientTypes, NoToken
  <2>5. \A d \in Calls \ {c} : Under(d)'
    BY <1>4, <2>1, <2>2, OthersKeep DEF ClientInv, ClientTypes
  <2> QED
    BY <1>4, <2>1, <2>3, <2>4, <2>5 DEF ClientInv, WritesOnce
<1> QED
  BY <1>3, <1>4 DEF LoginAnswer

\* What a step of c may do to the writes carried out
CarriedBy(c) ==
    /\ executed' \in [Writes -> Nat]
    /\ WritesOnce'
    /\ \A d \in Writes \ {c} : executed'[d] = executed[d]

LEMMA SuccessEnds ==
    ASSUME NEW c \in Calls, ClientInv, at[c] \in {"sent", "resent"},
           Succeed(c), CarriedBy(c),
           UNCHANGED <<token, lastToken, expired, lock>>
    PROVE  ClientInv'
<1>1. /\ at' = [at EXCEPT ![c] = "done"]
      /\ at' \in [Calls -> Places]
      /\ held' = [held EXCEPT ![c] = NoToken]
      /\ refused' = [refused EXCEPT ![c] = NoToken]
      /\ attempts' = attempts
  BY SucceedKeeps DEF ClientInv
<1>2. ClientTypes'
  BY <1>1 DEF ClientInv, ClientTypes, CarriedBy
<1>3. Under(c)'
  BY <1>1 DEF ClientInv, ClientTypes, Under, NoToken
<1>4. \A d \in Calls \ {c} : Under(d)'
  BY <1>1, OthersKeep DEF ClientInv, ClientTypes, CarriedBy
<1> QED
  BY <1>2, <1>3, <1>4 DEF ClientInv, CarriedBy

LEMMA FailureEnds ==
    ASSUME NEW c \in Calls, ClientInv, at[c] \in {"sent", "resent"},
           NEW outcome \in Failures, Fail(c, outcome), CarriedBy(c),
           UNCHANGED <<token, lastToken, expired, lock>>
    PROVE  ClientInv'
<1>1. /\ at' \in [Calls -> Places]
      /\ attempts' \in [Calls -> 0 .. MaxAttempts]
      /\ held' = [held EXCEPT ![c] = NoToken]
      /\ refused' = [refused EXCEPT ![c] = NoToken]
      /\ \A d \in Calls \ {c} : at'[d] = at[d] /\ attempts'[d] = attempts[d]
      /\ at'[c] \in {"ready", "failed"}
      /\ at'[c] = "ready" => attempts'[c] < MaxAttempts /\ c \notin Writes
  BY FailKeeps
<1>2. ClientTypes'
  BY <1>1 DEF ClientInv, ClientTypes, CarriedBy
<1>3. Under(c)'
  BY <1>1 DEF ClientInv, ClientTypes, Under, NoToken
<1>4. \A d \in Calls \ {c} : Under(d)'
  BY <1>1, OthersKeep DEF ClientInv, ClientTypes, CarriedBy
<1> QED
  BY <1>2, <1>3, <1>4 DEF ClientInv, CarriedBy

LEMMA ReplyKeeps ==
    ASSUME NEW c \in Calls, ClientInv, Reply(c)
    PROVE  ClientInv'
<1>1. at[c] = "sent" /\ UNCHANGED <<token, lastToken, expired, lock>>
  BY DEF Reply
<1>2. ASSUME NEW outcome, Carried(c, outcome) PROVE CarriedBy(c)
  BY <1>1, <1>2, CarriedOnce DEF CarriedBy
<1>3. CASE Succeed(c) /\ Carried(c, "ok")
  BY <1>1, <1>2, <1>3, SuccessEnds
<1>4. CASE \E outcome \in Failures : Fail(c, outcome) /\ Carried(c, outcome)
  BY <1>1, <1>2, <1>4, FailureEnds
<1> QED
  BY <1>3, <1>4 DEF Reply

LEMMA SecondReplyKeeps ==
    ASSUME NEW c \in Calls, ClientInv, SecondReply(c)
    PROVE  ClientInv'
<1>1. at[c] = "resent" /\ UNCHANGED <<token, lastToken, expired, lock>>
  BY DEF SecondReply
<1>2. ASSUME NEW outcome, Carried(c, outcome) PROVE CarriedBy(c)
  BY <1>1, <1>2, CarriedOnce DEF CarriedBy
<1>3. UNCHANGED executed => CarriedBy(c)
  BY DEF CarriedBy, ClientInv, ClientTypes, WritesOnce
<1>4. CASE Succeed(c) /\ Carried(c, "ok")
  BY <1>1, <1>2, <1>4, SuccessEnds
<1>5. ASSUME NEW outcome \in Failures, Fail(c, outcome),
             UNCHANGED executed \/ Carried(c, outcome)
      PROVE  ClientInv'
  BY <1>1, <1>2, <1>3, <1>5, FailureEnds
<1> QED
  BY <1>4, <1>5 DEF SecondReply

LEMMA UnauthorizedKeeps ==
    ASSUME NEW c \in Calls, ClientInv, Unauthorized(c)
    PROVE  ClientInv'
<1>1. ClientTypes'
  BY DEF Unauthorized, ClientInv, ClientTypes, Places
<1>2. Under(c)'
  BY DEF Unauthorized, ClientInv, ClientTypes, Under
<1>3. \A d \in Calls \ {c} : Under(d)'
  BY OthersKeep DEF Unauthorized, ClientInv, ClientTypes
<1> QED
  BY <1>1, <1>2, <1>3 DEF Unauthorized, ClientInv, WritesOnce

\* The token a call finds under the lock is not the one it was refused for.
LEMMA LockedKeeps ==
    ASSUME NEW c \in Calls, ClientInv, Locked(c)
    PROVE  ClientInv'
<1>1. ClientTypes'
  BY DEF Locked, Sent, ClientInv, ClientTypes, Places
<1>2. Under(c)'
  BY DEF Locked, Sent, Stale, ClientInv, ClientTypes, Under
<1>3. \A d \in Calls \ {c} : Under(d)'
  BY OthersKeep DEF Locked, Sent, ClientInv, ClientTypes
<1>4. token' <= lastToken'
  BY DEF Locked, ClientInv, ClientTypes, NoToken
<1> QED
  BY <1>1, <1>2, <1>3, <1>4 DEF Locked, ClientInv, WritesOnce

LEMMA StepKeeps ==
    ASSUME NEW c \in Calls, ClientInv, Step(c)
    PROVE  ClientInv'
BY EnterKeeps, RejectedKeeps, AttemptKeeps, LoginAnswerKeeps, ReplyKeeps,
   UnauthorizedKeeps, LockedKeeps, SecondReplyKeeps DEF Step

\* A step that changes nothing but the breaker or the tokens Wazuh refuses
LEMMA QuietKeeps ==
    ASSUME ClientInv, expired' \subseteq Tokens,
           UNCHANGED <<at, attempts, token, lastToken, held, refused, lock, executed>>
    PROVE  ClientInv'
<1>1. ClientTypes'
  BY DEF ClientInv, ClientTypes
<1>2. \A c \in Calls : Under(c)'
  BY DEF ClientInv, Under
<1> QED
  BY <1>1, <1>2 DEF ClientInv, WritesOnce

----------------------------------------------------------------------------
(* The theorems.                                                            *)

LEMMA InitEstablishes == Init => IInv
<1> SUFFICES ASSUME Init PROVE IInv
  OBVIOUS
<1>1. BreakerInv
  <2>1. probes \subseteq Calls
    BY DEF Init, BreakerInit
  <2>2. BreakerTypeOK
    BY <2>1 DEF Init, BreakerInit, BreakerTypeOK
  <2>3. ClosedBelowThreshold
    BY BreakerAssumption DEF Init, BreakerInit, ClosedBelowThreshold
  <2>4. TrialIsUnderWay
    BY DEF Init, BreakerInit, TrialIsUnderWay
  <2> QED
    BY <2>2, <2>3, <2>4 DEF BreakerInv
<1>2. ClientTypes
  BY ClientAssumption DEF Init, ClientTypes, Places, NoToken
<1>3. WritesOnce /\ token <= lastToken
  BY DEF Init, WritesOnce, NoToken
<1>4. ASSUME NEW c \in Calls PROVE Under(c)
  <2>1. /\ at[c] = "new" /\ attempts[c] = 0
        /\ held[c] = 0 /\ refused[c] = 0 /\ lastToken = 0
    BY DEF Init, NoToken
  <2>2. 0 < MaxAttempts
    BY ClientAssumption
  <2>3. c \in Writes => executed[c] = 0
    BY DEF Init
  <2> QED
    BY <2>1, <2>2, <2>3 DEF Under, NoToken
<1> QED
  BY <1>1, <1>2, <1>3, <1>4 DEF IInv, ClientInv

LEMMA NextKeeps == IInv /\ [Next]_vars => IInv'
<1> SUFFICES ASSUME IInv, [Next]_vars PROVE IInv'
  OBVIOUS
<1>1. ASSUME NEW c \in Calls, Step(c) PROVE IInv'
  BY <1>1, CallsUseBreaker, BreakerKeeps, StepKeeps DEF IInv
<1>2. ASSUME NEW t \in Tokens, Expire(t) PROVE IInv'
  <2>1. expired' \subseteq Tokens
    BY <1>2 DEF Expire, IInv, ClientInv, ClientTypes
  <2>2. ClientInv'
    BY <1>2, <2>1, QuietKeeps DEF Expire, IInv
  <2>3. BreakerInv'
    BY <1>2 DEF Expire, breakerVars, IInv, BreakerInv, BreakerTypeOK,
                ClosedBelowThreshold, TrialIsUnderWay
  <2> QED
    BY <2>2, <2>3 DEF IInv
<1>3. CASE RecoveryTimeout /\ UNCHANGED clientVars
  <2>1. ClientInv'
    BY <1>3, QuietKeeps DEF clientVars, IInv, ClientInv, ClientTypes
  <2>2. BreakerInv'
    BY <1>3 DEF RecoveryTimeout, IInv, BreakerInv, BreakerTypeOK,
                ClosedBelowThreshold, TrialIsUnderWay
  <2> QED
    BY <2>1, <2>2 DEF IInv
<1>4. CASE UNCHANGED vars
  <2>1. ClientInv'
    BY <1>4, QuietKeeps DEF vars, clientVars, IInv, ClientInv, ClientTypes
  <2>2. BreakerInv'
    BY <1>4 DEF vars, breakerVars, IInv, BreakerInv, BreakerTypeOK,
                ClosedBelowThreshold, TrialIsUnderWay
  <2> QED
    BY <2>1, <2>2 DEF IInv
<1> QED
  BY <1>1, <1>2, <1>3, <1>4 DEF Next

\* The invariant holds in every reachable state of the client.
THEOREM Invariant == Spec => []IInv
BY InitEstablishes, NextKeeps, PTL DEF Spec

\* Every variable keeps to its type; no call is attempted more often than
\* stop_after_attempt allows (resilience.py, RetryConfig).
THEOREM TypeCorrect == Spec => []ClientTypeOK
<1>1. IInv => ClientTypeOK
  BY DEF IInv, BreakerInv, ClientInv, ClientTypes, ClientTypeOK, Places
<1> QED
  BY <1>1, Invariant, PTL

\* A closed circuit has seen fewer failures in a row than failure_threshold
\* (resilience.py, _on_failure), for any number of calls at once.
THEOREM OpensAtThreshold == Spec => []ClosedBelowThreshold
<1>1. IInv => ClosedBelowThreshold
  BY DEF IInv, BreakerInv
<1> QED
  BY <1>1, Invariant, PTL

\* Unless a trial ended in an unexpected exception, the flag that turns calls
\* away stands for a trial under way (resilience.py, _call).
THEOREM TrialFlagIsTrue == Spec => []TrialIsUnderWay
<1>1. IInv => TrialIsUnderWay
  BY DEF IInv, BreakerInv
<1> QED
  BY <1>1, Invariant, PTL

\* A PUT or DELETE is carried out once at most (wazuh_client.py, _request).
THEOREM WritesAreNotRepeated == Spec => []WritesOnce
<1>1. IInv => WritesOnce
  BY DEF IInv, ClientInv
<1> QED
  BY <1>1, Invariant, PTL

\* No request goes out without a token, or again with the one that was
\* refused (wazuh_client.py, _execute_request).
THEOREM TokensAreUsable == Spec => []CarriesUsableToken
<1>1. IInv => CarriesUsableToken
  <2> SUFFICES ASSUME IInv, NEW c \in Calls, at[c] \in {"sent", "resent"}
               PROVE  held[c] # NoToken /\ held[c] # refused[c]
    BY DEF CarriesUsableToken
  <2>1. Under(c)
    BY DEF IInv, ClientInv
  <2> QED
    BY <2>1 DEF Under
<1> QED
  BY <1>1, Invariant, PTL

\* The breaker opens at its threshold, and its trial flag is true
\* (resilience.py, _call, _on_failure).
THEOREM CircuitIsCounted == Spec => []CircuitCountsFailures
BY OpensAtThreshold, TrialFlagIsTrue, PTL DEF CircuitCountsFailures

\* Whatever is sent carries a token that was not refused, and what writes is
\* carried out once (wazuh_client.py, _request, _execute_request).
THEOREM SoundRequests == Spec => []RequestsAreSound
BY WritesAreNotRepeated, TokensAreUsable, PTL DEF RequestsAreSound
-----------------------------------------------------------------------------
(* RateLimiter.                                                              *)

\* Numbers have a least one.
LEMMA LeastNumber ==
    ASSUME NEW T \in SUBSET Nat, T # {}
    PROVE  \E n \in T : \A m \in T : ~(m < n)
<1>1. \E n \in T : \A m \in T : ~(<<m, n>> \in OpToRel(<, Nat))
  BY NatLessThanWellFounded, WFMin
<1> QED BY <1>1 DEF OpToRel

\* The types, with the deques' elements not yet bounded by the clock.
LimiterShape ==
    /\ clock \in 0 .. MaxClock
    /\ requests \in [DOMAIN requests -> Seq(Nat)] /\ DOMAIN requests \subseteq Clients
    /\ blockedUntil \in [DOMAIN blockedUntil -> Nat] /\ DOMAIN blockedUntil \subseteq Clients
    /\ admitted \in [Clients -> Seq(Nat)]

\* The deque q is the end of a, and what came before it is out of the window.
Remembers(q, a) ==
    /\ Len(q) <= Len(a) /\ Len(q) <= MaxRequests
    /\ \A i \in 1 .. Len(q) : q[i] = a[Len(a) - Len(q) + i]
    /\ \A i \in 1 .. Len(a) - Len(q) : a[i] + Window < clock

\* The times a are in order and any MaxRequests + 1 of them exceed the window.
Spaced(a) ==
    /\ \A i \in 1 .. Len(a) : a[i] <= clock
    /\ \A i, j \in 1 .. Len(a) : i <= j => a[i] <= a[j]
    /\ \A i \in 1 .. Len(a) - MaxRequests : a[i] + Window < a[i + MaxRequests]

LimiterInv ==
    /\ LimiterShape
    /\ \A c \in Clients : Remembers(Deque(c), admitted[c]) /\ Spaced(admitted[c])
    /\ BlocksAreEarned

\* The loop drops the old requests of a deque, and stops at one that is not.
LEMMA DropsTheOld ==
    ASSUME NEW q \in Seq(Nat), clock \in Nat
    PROVE  /\ Dropped(q) \in 0 .. Len(q)
           /\ \A i \in 1 .. Dropped(q) : ~Within(q[i])
           /\ Dropped(q) < Len(q) => Within(q[Dropped(q) + 1])
<1> DEFINE Left == {n \in 0 .. Len(q) : n < Len(q) => Within(q[n + 1])}
<1>1. Len(q) \in Nat
  BY LenProperties
<1>2. Left \in SUBSET Nat /\ Len(q) \in Left
  BY <1>1
<1>3. PICK n \in Left : \A m \in Left : ~(m < n)
  <2> HIDE DEF Left
  <2> QED BY <1>2, LeastNumber
<1>4. \A i \in 1 .. n : ~Within(q[i])
  <2> SUFFICES ASSUME NEW i \in 1 .. n, Within(q[i]) PROVE FALSE
    OBVIOUS
  <2>1. i - 1 \in 0 .. Len(q) /\ (i - 1) + 1 = i
    BY <1>1
  <2>2. i - 1 \in Left
    BY <2>1
  <2>3. i \in Nat /\ i - 1 \in Nat /\ n \in Nat /\ i - 1 < n
    BY <1>1
  <2> QED BY <1>3, <2>2, <2>3
<1>5. \E k \in 0 .. Len(q) :
         /\ \A i \in 1 .. k : ~Within(q[i])
         /\ k < Len(q) => Within(q[k + 1])
  BY <1>3, <1>4
<1> QED BY <1>5 DEF Dropped

\* What the loop leaves is the end of the times let in, all inside the window.
LEMMA RecentIsTheWindow ==
    ASSUME LimiterInv, NEW c \in Clients
    PROVE  /\ Recent(c) \in Seq(Nat) /\ Remembers(Recent(c), admitted[c])
           /\ \A i \in 1 .. Len(Recent(c)) : Recent(c)[i] + Window >= clock
<1> DEFINE q == Deque(c)
           a == admitted[c]
           n == Dropped(q)
           r == Recent(c)
<1>1. clock \in Nat /\ Window \in Nat /\ MaxRequests \in Nat
  BY LimiterAssumption DEF LimiterInv, LimiterShape
<1>2. q \in Seq(Nat) /\ a \in Seq(Nat)
  BY EmptySeq DEF LimiterInv, LimiterShape, Deque
<1>3. Remembers(q, a) /\ Spaced(a)
  BY DEF LimiterInv
<1>4. /\ n \in 0 .. Len(q) /\ \A i \in 1 .. n : ~Within(q[i])
      /\ n < Len(q) => Within(q[n + 1])
  BY <1>1, <1>2, DropsTheOld
<1>5. r = SubSeq(q, n + 1, Len(q))
  BY DEF Recent
<1> HIDE DEF q, a, n, r
<1>6. Len(q) \in Nat /\ Len(a) \in Nat /\ \A i \in 1 .. Len(a) : a[i] \in Nat
  BY <1>2, LenProperties, ElementOfSeq
<1>7. /\ r \in Seq(Nat) /\ Len(r) = Len(q) - n
      /\ \A i \in 1 .. Len(r) : r[i] = q[n + i]
  BY <1>2, <1>4, <1>5, <1>6, SubSeqProperties
<1>8. \A i \in 1 .. Len(r) : r[i] = a[Len(a) - Len(r) + i]
  <2> SUFFICES ASSUME NEW i \in 1 .. Len(r) PROVE r[i] = a[Len(a) - Len(r) + i]
    OBVIOUS
  <2>1. n + i \in 1 .. Len(q) /\ Len(a) - Len(q) + (n + i) = Len(a) - Len(r) + i
    BY <1>4, <1>6, <1>7
  <2> QED BY <1>3, <1>7, <2>1 DEF Remembers
<1>9. \A i \in 1 .. Len(a) - Len(r) : a[i] + Window < clock
  <2> SUFFICES ASSUME NEW i \in 1 .. Len(a) - Len(r) PROVE a[i] + Window < clock
    OBVIOUS
  <2>1. CASE i <= Len(a) - Len(q)
    BY <1>3, <1>6, <2>1 DEF Remembers
  <2>2. CASE i > Len(a) - Len(q)
    <3> DEFINE k == i - (Len(a) - Len(q))
    <3>1. k \in 1 .. n /\ k \in 1 .. Len(q) /\ Len(a) - Len(q) + k = i /\ i \in 1 .. Len(a)
      BY <1>3, <1>4, <1>6, <1>7, <2>2 DEF Remembers
    <3> HIDE DEF k
    <3>2. q[k] = a[i] /\ ~Within(q[k])
      BY <1>3, <1>4, <3>1 DEF Remembers
    <3> QED BY <1>1, <1>6, <3>1, <3>2 DEF Within
  <2> QED BY <1>4, <1>6, <1>7, <2>1, <2>2
<1>10. \A i \in 1 .. Len(r) : r[i] + Window >= clock
  <2> SUFFICES ASSUME NEW i \in 1 .. Len(r) PROVE r[i] + Window >= clock
    OBVIOUS
  <2>1. 1 \in 1 .. Len(r) /\ n + 1 <= Len(q) /\ n \in Nat /\ Len(r) \in Nat
    BY <1>4, <1>6, <1>7
  <2>2. r[1] = q[n + 1] /\ Within(q[n + 1])
    BY <1>4, <1>6, <1>7, <2>1
  <2>3. r[1] = a[Len(a) - Len(r) + 1] /\ r[i] = a[Len(a) - Len(r) + i]
    BY <1>8, <2>1
  <2>4. /\ Len(a) - Len(r) + 1 \in 1 .. Len(a) /\ Len(a) - Len(r) + i \in 1 .. Len(a)
        /\ Len(a) - Len(r) + 1 <= Len(a) - Len(r) + i
    BY <1>3, <1>4, <1>6, <1>7, <2>1 DEF Remembers
  <2>5. r[1] <= r[i] /\ r[1] \in Nat /\ r[i] \in Nat
    BY <1>3, <1>6, <2>3, <2>4 DEF Spaced
  <2> QED BY <1>1, <2>2, <2>5 DEF Within
<1>11. Len(r) <= Len(a) /\ Len(r) <= MaxRequests
  BY <1>1, <1>3, <1>4, <1>6, <1>7 DEF Remembers
<1> QED BY <1>7, <1>8, <1>9, <1>10, <1>11 DEF Remembers, a, r

\* A window holds no more than MaxRequests of the times of a client.
LEMMA WindowIsBounded ==
    ASSUME LimiterInv, NEW c \in Clients, NEW t \in Nat
    PROVE  /\ IsFiniteSet(Admissions(c, t))
           /\ Cardinality(Admissions(c, t)) <= MaxRequests
<1> DEFINE a == admitted[c]
           S == Admissions(c, t)
<1>1. Window \in Nat /\ MaxRequests \in Nat \ {0} /\ a \in Seq(Nat) /\ Spaced(a)
  BY LimiterAssumption DEF LimiterInv, LimiterShape
<1>2. S = {i \in DOMAIN a : a[i] <= t /\ t <= a[i] + Window}
  BY DEF Admissions
<1> HIDE DEF a, S
<1>3. /\ Len(a) \in Nat /\ DOMAIN a = 1 .. Len(a) /\ \A i \in 1 .. Len(a) : a[i] \in Nat
  BY <1>1, LenProperties, ElementOfSeq
<1>4. CASE S = {}
  BY <1>1, <1>4, FS_EmptySet DEF S
<1>5. CASE S # {}
  <2>1. S \in SUBSET Nat
    BY <1>2, <1>3
  <2>2. PICK first \in S : \A i \in S : ~(i < first)
    BY <1>5, <2>1, LeastNumber
  <2>3. S \in SUBSET (first .. first + MaxRequests - 1)
    <3> SUFFICES ASSUME NEW i \in S PROVE i \in first .. first + MaxRequests - 1
      OBVIOUS
    <3>1. /\ i \in 1 .. Len(a) /\ first \in 1 .. Len(a) /\ first <= i
          /\ a[i] <= t /\ t <= a[first] + Window
      BY <1>2, <1>3, <2>1, <2>2
    <3>2. ~(i >= first + MaxRequests)
      <4> SUFFICES ASSUME i >= first + MaxRequests PROVE FALSE
        OBVIOUS
      <4>1. first \in 1 .. Len(a) - MaxRequests /\ first + MaxRequests \in 1 .. Len(a)
        BY <1>1, <1>3, <3>1
      <4>2. a[first] + Window < a[first + MaxRequests] /\ a[first + MaxRequests] <= a[i]
        BY <1>1, <3>1, <4>1 DEF Spaced
      <4> QED BY <1>1, <1>3, <3>1, <4>1, <4>2
    <3> QED BY <1>1, <3>1, <3>2
  <2>4. first \in Int /\ first + MaxRequests - 1 \in Int
    BY <1>1, <2>1
  <2>5. /\ IsFiniteSet(first .. first + MaxRequests - 1)
        /\ Cardinality(first .. first + MaxRequests - 1) = MaxRequests
    BY <1>1, <2>4, FS_Interval
  <2>6. IsFiniteSet(S) /\ Cardinality(S) <= Cardinality(first .. first + MaxRequests - 1)
    BY <2>3, <2>5, FS_Subset
  <2> QED BY <2>5, <2>6 DEF S
<1> QED BY <1>4, <1>5

\* Time does not bring a forgotten request back.
LEMMA TickKeeps ==
    ASSUME LimiterInv, Tick
    PROVE  LimiterInv'
<1>1. /\ clock \in 0 .. MaxClock /\ clock' = clock + 1 /\ clock' \in 0 .. MaxClock
      /\ UNCHANGED <<requests, blockedUntil, admitted>>
      /\ MaxClock \in Nat /\ Window \in Nat /\ MaxRequests \in Nat
  BY LimiterAssumption DEF Tick, LimiterInv, LimiterShape
<1>2. LimiterShape'
  BY <1>1 DEF LimiterInv, LimiterShape
<1>3. ASSUME NEW c \in Clients
      PROVE  (Remembers(Deque(c), admitted[c]) /\ Spaced(admitted[c]))'
  <2>1. /\ admitted'[c] = admitted[c] /\ Deque(c)' = Deque(c) /\ admitted[c] \in Seq(Nat)
        /\ Remembers(Deque(c), admitted[c]) /\ Spaced(admitted[c])
        /\ Deque(c) \in Seq(Nat)
    BY <1>1, EmptySeq DEF Deque, LimiterInv, LimiterShape
  <2> DEFINE a == admitted[c]
             q == Deque(c)
  <2>2. Len(a) \in Nat /\ Len(q) \in Nat /\ \A i \in 1 .. Len(a) : a[i] \in Nat
    BY <2>1, LenProperties, ElementOfSeq
  <2>3. /\ Len(q) <= Len(a) /\ Len(q) <= MaxRequests
        /\ \A i \in 1 .. Len(q) : q[i] = a[Len(a) - Len(q) + i]
        /\ \A i \in 1 .. Len(a) - Len(q) : a[i] + Window < clock + 1
    <3> HIDE DEF a, q
    <3> QED BY SMTT(30), <1>1, <2>1, <2>2 DEF Remembers, a, q
  <2>4. /\ \A i \in 1 .. Len(a) : a[i] <= clock + 1
        /\ \A i, j \in 1 .. Len(a) : i <= j => a[i] <= a[j]
        /\ \A i \in 1 .. Len(a) - MaxRequests : a[i] + Window < a[i + MaxRequests]
    BY <1>1, <2>1, <2>2 DEF Spaced
  <2> QED BY <1>1, <2>1, <2>3, <2>4 DEF Remembers, Spaced
<1>4. BlocksAreEarned'
  <2> SUFFICES ASSUME NEW c \in DOMAIN blockedUntil
               PROVE  \E t \in 0 .. clock' :
                         /\ Cardinality(Admissions(c, t)') = MaxRequests
                         /\ blockedUntil[c] = t + BlockDuration(MaxRequests)
    BY <1>1 DEF BlocksAreEarned, BlockDuration
  <2>1. PICK t \in 0 .. clock :
                         /\ Cardinality(Admissions(c, t)) = MaxRequests
                         /\ blockedUntil[c] = t + BlockDuration(MaxRequests)
    BY DEF LimiterInv, BlocksAreEarned
  <2>2. Admissions(c, t)' = Admissions(c, t)
    BY <1>1 DEF Admissions
  <2> QED BY <1>1, <2>1, <2>2
<1> QED BY <1>2, <1>3, <1>4 DEF LimiterInv

\* A block begins in a full window, and forgets only what is out of it.
LEMMA BlockKeeps ==
    ASSUME LimiterInv, NEW c \in Clients, Block(c)
    PROVE  LimiterInv'
<1> DEFINE r == Recent(c)
           a == admitted[c]
<1>1. /\ r \in Seq(Nat) /\ Remembers(r, a)
      /\ \A i \in 1 .. Len(r) : r[i] + Window >= clock
  BY RecentIsTheWindow
<1>2. /\ clock \in Nat /\ Window \in Nat /\ MaxRequests \in Nat \ {0} /\ a \in Seq(Nat) /\ Spaced(a)
  BY LimiterAssumption DEF LimiterInv, LimiterShape
<1>3. /\ Len(r) >= MaxRequests /\ UNCHANGED <<clock, admitted>>
      /\ requests' = With(requests, c, r)
      /\ blockedUntil' = With(blockedUntil, c, clock + BlockDuration(Len(r)))
  BY DEF Block
<1>4. Len(r) \in Nat /\ Len(a) \in Nat /\ Len(r) = MaxRequests /\ Len(r) <= Len(a)
  <2> HIDE DEF r, a
  <2> QED BY <1>1, <1>2, <1>3, LenProperties DEF Remembers
<1>5. BlockDuration(MaxRequests) \in Nat
  BY LimiterAssumption DEF BlockDuration
<1>6. LimiterShape'
  <2>1. /\ DOMAIN requests' = DOMAIN requests \union {c}
        /\ DOMAIN blockedUntil' = DOMAIN blockedUntil \union {c}
    BY <1>3 DEF With
  <2>2. clock + BlockDuration(Len(r)) \in Nat
    BY <1>2, <1>4, <1>5
  <2> HIDE DEF r
  <2> QED BY <1>1, <1>3, <2>1, <2>2 DEF LimiterInv, LimiterShape, With
<1>7. ASSUME NEW d \in Clients
      PROVE  (Remembers(Deque(d), admitted[d]) /\ Spaced(admitted[d]))'
  <2>1. Deque(d)' = IF d = c THEN r ELSE Deque(d)
    <3> HIDE DEF r
    <3> QED BY <1>3 DEF Deque, With
  <2>2. Remembers(Deque(d)', admitted[d]) /\ Spaced(admitted[d])
    BY <1>1, <2>1 DEF LimiterInv
  <2> QED BY <1>3, <2>2 DEF Remembers, Spaced
<1>8. Cardinality(Admissions(c, clock)) = MaxRequests
  <2> DEFINE first == Len(a) - MaxRequests + 1
  <2>1. \A i \in 1 .. Len(a) : a[i] \in Nat
    BY <1>2, ElementOfSeq
  <2>2. \A i \in 1 .. Len(a) : a[i] <= clock
    BY <1>2 DEF Spaced
  <2>3. \A i \in 1 .. first - 1 : a[i] + Window < clock
    <3> HIDE DEF r, a
    <3> QED BY <1>1, <1>4 DEF Remembers
  <2>4. \A i \in first .. Len(a) : clock <= a[i] + Window
    <3> SUFFICES ASSUME NEW i \in first .. Len(a) PROVE clock <= a[i] + Window
      OBVIOUS
    <3> HIDE DEF r, a
    <3> DEFINE k == i - (Len(a) - Len(r))
    <3>1. k \in 1 .. Len(r) /\ Len(a) - Len(r) + k = i
      BY <1>2, <1>4
    <3> HIDE DEF k
    <3>2. r[k] = a[i] /\ r[k] + Window >= clock
      BY <1>1, <3>1 DEF Remembers
    <3>3. i \in 1 .. Len(a)
      BY <1>2, <1>4
    <3> QED BY <1>2, <2>1, <3>2, <3>3
  <2>5. Admissions(c, clock) = first .. Len(a)
    <3>1. DOMAIN a = 1 .. Len(a)
      BY <1>2, LenProperties
    <3>2. Admissions(c, clock) = {i \in 1 .. Len(a) : a[i] <= clock /\ clock <= a[i] + Window}
      BY <3>1 DEF Admissions
    <3> HIDE DEF a
    <3>3. first .. Len(a) \subseteq Admissions(c, clock)
      <4>1. first .. Len(a) \subseteq 1 .. Len(a)
        BY <1>2, <1>4
      <4> HIDE DEF first
      <4> QED BY <2>2, <2>4, <3>2, <4>1
    <3>4. ASSUME NEW i \in 1 .. Len(a), i \notin first .. Len(a)
          PROVE  ~(clock <= a[i] + Window)
      <4>1. i \in 1 .. first - 1 /\ a[i] \in Nat
        BY <1>2, <1>4, <2>1, <3>4
      <4>2. a[i] + Window < clock
        <5> HIDE DEF first
        <5> QED BY <2>3, <4>1
      <4> QED BY <1>2, <4>1, <4>2
    <3> HIDE DEF first
    <3> QED BY <3>2, <3>3, <3>4
  <2>6. first \in Int /\ Len(a) \in Int /\ Len(a) - first + 1 = MaxRequests /\ ~(first > Len(a))
    BY <1>2, <1>4
  <2> HIDE DEF first, a
  <2> QED BY <2>5, <2>6, FS_Interval
<1>9. BlocksAreEarned'
  <2> SUFFICES ASSUME NEW d \in DOMAIN blockedUntil'
               PROVE  \E t \in 0 .. clock :
                         /\ Cardinality(Admissions(d, t)) = MaxRequests
                         /\ blockedUntil'[d] = t + BlockDuration(MaxRequests)
    BY <1>3 DEF BlocksAreEarned, BlockDuration, Admissions
  <2>1. CASE d = c
    <3>1. blockedUntil'[c] = clock + BlockDuration(MaxRequests)
      BY <1>3, <1>4 DEF With
    <3> QED BY <1>2, <1>8, <2>1, <3>1
  <2>2. CASE d # c
    <3>1. d \in DOMAIN blockedUntil /\ blockedUntil'[d] = blockedUntil[d]
      BY <1>3, <2>2 DEF With
    <3> QED BY <3>1 DEF LimiterInv, BlocksAreEarned
  <2> QED BY <2>1, <2>2
<1> QED BY <1>6, <1>7, <1>9 DEF LimiterInv


\* What is let in is inside no window that is full; a cleanup forgets clients of
\* whom nothing is in the window, and blocks that are over.
LEMMA AdmitKeeps ==
    ASSUME LimiterInv, NEW c \in Clients, Admit(c)
    PROVE  LimiterInv'
<1> DEFINE r == Recent(c)
           a == admitted[c]
           more == Append(r, clock)
           kept == With(requests, c, more)
<1>1. /\ r \in Seq(Nat) /\ Remembers(r, a)
      /\ \A i \in 1 .. Len(r) : r[i] + Window >= clock
  BY RecentIsTheWindow
<1>2. /\ clock \in Nat /\ Window \in Nat /\ MaxRequests \in Nat \ {0} /\ a \in Seq(Nat)
      /\ Spaced(a)
  BY LimiterAssumption DEF LimiterInv, LimiterShape
<1>3. /\ ~Blocked(c) /\ Len(r) < MaxRequests /\ UNCHANGED clock
      /\ requests' = CleanedRequests(kept)
      /\ blockedUntil' = CleanedBlocks(kept, Without(blockedUntil, c))
      /\ admitted' = [admitted EXCEPT ![c] = Append(a, clock)]
  BY DEF Admit
<1>4. /\ more \in Seq(Nat) /\ Len(more) = Len(r) + 1 /\ more[Len(r) + 1] = clock
      /\ \A i \in 1 .. Len(r) : more[i] = r[i]
  BY <1>1, <1>2, AppendProperties
<1>5. /\ Append(a, clock) \in Seq(Nat) /\ Len(Append(a, clock)) = Len(a) + 1
      /\ Append(a, clock)[Len(a) + 1] = clock
      /\ \A i \in 1 .. Len(a) : Append(a, clock)[i] = a[i]
  BY <1>2, AppendProperties
<1>6. Len(r) \in Nat /\ Len(a) \in Nat /\ \A i \in 1 .. Len(a) : a[i] \in Nat
  BY <1>1, <1>2, LenProperties, ElementOfSeq
<1>7. Remembers(more, Append(a, clock))
  <2> DEFINE b == Append(a, clock)
  <2> HIDE DEF r, a, more, b
  <2>1. \A i \in 1 .. Len(more) : more[i] = b[Len(b) - Len(more) + i]
    <3> SUFFICES ASSUME NEW i \in 1 .. Len(more)
                 PROVE  more[i] = b[Len(b) - Len(more) + i]
      OBVIOUS
    <3>1. Len(b) - Len(more) + i = Len(a) - Len(r) + i
      BY <1>4, <1>5, <1>6 DEF b
    <3>2. CASE i = Len(r) + 1
      <4>1. Len(a) - Len(r) + i = Len(a) + 1
        BY <1>6, <3>2
      <4> QED BY <1>4, <1>5, <3>1, <3>2, <4>1 DEF b
    <3>3. CASE i # Len(r) + 1
      <4>1. i \in 1 .. Len(r) /\ Len(a) - Len(r) + i \in 1 .. Len(a)
        BY <1>1, <1>4, <1>6, <3>3 DEF Remembers
      <4> QED BY <1>1, <1>4, <1>5, <3>1, <4>1 DEF Remembers, b
    <3> QED BY <3>2, <3>3
  <2>2. \A i \in 1 .. Len(b) - Len(more) : b[i] + Window < clock
    <3> SUFFICES ASSUME NEW i \in 1 .. Len(b) - Len(more) PROVE b[i] + Window < clock
      OBVIOUS
    <3>1. i \in 1 .. Len(a) - Len(r) /\ i \in 1 .. Len(a)
      BY <1>4, <1>5, <1>6 DEF b
    <3> QED BY <1>1, <1>5, <3>1 DEF Remembers, b
  <2>3. Len(more) <= Len(b) /\ Len(more) <= MaxRequests
    BY <1>1, <1>2, <1>3, <1>4, <1>5, <1>6 DEF Remembers, b
  <2> QED BY <2>1, <2>2, <2>3 DEF Remembers, b
<1>8. Spaced(Append(a, clock))
  <2> DEFINE b == Append(a, clock)
  <2> HIDE DEF r, a, more, b
  <2>1. \A i \in 1 .. Len(b) : b[i] \in Nat /\ b[i] <= clock
    <3> SUFFICES ASSUME NEW i \in 1 .. Len(b) PROVE b[i] \in Nat /\ b[i] <= clock
      OBVIOUS
    <3>1. i = Len(a) + 1 \/ i \in 1 .. Len(a)
      BY <1>5, <1>6 DEF b
    <3> QED BY <1>2, <1>5, <1>6, <3>1 DEF Spaced, b
  <2>2. \A i, j \in 1 .. Len(b) : i <= j => b[i] <= b[j]
    <3> SUFFICES ASSUME NEW i \in 1 .. Len(b), NEW j \in 1 .. Len(b), i <= j
                 PROVE  b[i] <= b[j]
      OBVIOUS
    <3>1. CASE j = Len(a) + 1
      BY <1>5, <2>1, <3>1 DEF b
    <3>2. CASE j # Len(a) + 1
      <4>1. i \in 1 .. Len(a) /\ j \in 1 .. Len(a)
        BY <1>5, <1>6, <3>2 DEF b
      <4> QED BY <1>2, <1>5, <4>1 DEF Spaced, b
    <3> QED BY <3>1, <3>2
  <2>3. \A i \in 1 .. Len(b) - MaxRequests : b[i] + Window < b[i + MaxRequests]
    <3> SUFFICES ASSUME NEW i \in 1 .. Len(b) - MaxRequests
                 PROVE  b[i] + Window < b[i + MaxRequests]
      OBVIOUS
    <3>1. CASE i + MaxRequests = Len(a) + 1
      <4>1. i \in 1 .. Len(a) - Len(r) /\ i \in 1 .. Len(a)
        BY <1>2, <1>3, <1>6, <3>1
      <4> QED BY <1>1, <1>5, <3>1, <4>1 DEF Remembers, b
    <3>2. CASE i + MaxRequests # Len(a) + 1
      <4>1. /\ i \in 1 .. Len(a) - MaxRequests /\ i \in 1 .. Len(a)
            /\ i + MaxRequests \in 1 .. Len(a)
        BY <1>2, <1>5, <1>6, <3>2 DEF b
      <4> QED BY <1>2, <1>5, <4>1 DEF Spaced, b
    <3> QED BY <3>1, <3>2
  <2> QED BY <2>1, <2>2, <2>3 DEF Spaced, b
<1>9. /\ kept \in [DOMAIN kept -> Seq(Nat)] /\ DOMAIN kept = DOMAIN requests \union {c}
      /\ kept[c] = more /\ \A d \in DOMAIN requests : d # c => kept[d] = requests[d]
  <2> HIDE DEF r, more
  <2> QED BY <1>4 DEF With, LimiterInv, LimiterShape
<1> HIDE DEF kept, more, r, a
<1>10. /\ DOMAIN requests' \subseteq DOMAIN kept
       /\ \A d \in DOMAIN requests' : requests'[d] = kept[d]
       /\ requests' \in [DOMAIN requests' -> Seq(Nat)]
       /\ \A d \in DOMAIN kept \ DOMAIN requests' :
             kept[d] # << >> => ~Within(kept[d][Len(kept[d])])
  <2>1. CASE Full(kept)
    <3>1. requests' = [d \in BusyClient(kept) |-> kept[d]]
      BY <1>3, <2>1 DEF CleanedRequests, Restrict
    <3> QED BY <1>9, <3>1 DEF BusyClient, Last
  <2>2. CASE ~Full(kept)
    BY <1>3, <1>9, <2>2 DEF CleanedRequests
  <2> QED BY <2>1, <2>2
<1>11. /\ DOMAIN blockedUntil' \subseteq DOMAIN blockedUntil \ {c}
       /\ \A d \in DOMAIN blockedUntil' : blockedUntil'[d] = blockedUntil[d]
       /\ blockedUntil' = [d \in DOMAIN blockedUntil' |-> blockedUntil'[d]]
  <2> DEFINE b == Without(blockedUntil, c)
  <2>1. b = [d \in DOMAIN blockedUntil \ {c} |-> blockedUntil[d]]
    BY DEF Without, Restrict
  <2> HIDE DEF b
  <2>2. blockedUntil' = b \/ blockedUntil' = [d \in {d \in DOMAIN b : b[d] >= clock} |-> b[d]]
    BY <1>3 DEF CleanedBlocks, Restrict, b
  <2> QED BY <2>1, <2>2
<1>12. LimiterShape'
  <2>1. admitted' \in [Clients -> Seq(Nat)]
    BY <1>3, <1>5 DEF LimiterInv, LimiterShape
  <2>2. blockedUntil' \in [DOMAIN blockedUntil' -> Nat] /\ DOMAIN blockedUntil' \subseteq Clients
    BY <1>11 DEF LimiterInv, LimiterShape
  <2>3. DOMAIN requests' \subseteq Clients
    BY <1>9, <1>10 DEF LimiterInv, LimiterShape
  <2> QED BY <1>3, <1>10, <2>1, <2>2, <2>3 DEF LimiterInv, LimiterShape
<1>13. \A d \in Clients : admitted'[d] = IF d = c THEN Append(a, clock) ELSE admitted[d]
  BY <1>3 DEF LimiterInv, LimiterShape
<1>14. ASSUME NEW d \in Clients
       PROVE  (Remembers(Deque(d), admitted[d]) /\ Spaced(admitted[d]))'
  <2> DEFINE q == IF d \in DOMAIN kept THEN kept[d] ELSE << >>
             b == admitted'[d]
  <2>1. Remembers(q, b) /\ Spaced(b)
    <3>1. CASE d = c
      BY <1>7, <1>8, <1>9, <1>13, <3>1
    <3>2. CASE d # c
      <4>1. q = Deque(d) /\ b = admitted[d]
        BY <1>9, <1>13, <3>2 DEF Deque
      <4> QED BY <4>1 DEF LimiterInv
    <3> QED BY <3>1, <3>2
  <2>2. q \in Seq(Nat) /\ b \in Seq(Nat)
    BY <1>9, <1>12, EmptySeq DEF LimiterShape
  <2>3. Remembers(Deque(d)', b)
    <3>1. CASE d \in DOMAIN requests' \/ d \notin DOMAIN kept
      <4>1. Deque(d)' = q
        BY <1>10, <3>1 DEF Deque
      <4> QED BY <2>1, <4>1
    <3>2. CASE d \in DOMAIN kept \ DOMAIN requests'
      <4>1. Deque(d)' = << >> /\ q = kept[d]
        BY <3>2 DEF Deque
      <4>2. q # << >> => ~Within(q[Len(q)])
        BY <1>10, <3>2, <4>1
      <4> HIDE DEF q, b
      <4>3. /\ Len(q) \in Nat /\ Len(b) \in Nat /\ (q # << >> => Len(q) > 0)
            /\ \A i \in 1 .. Len(b) : b[i] \in Nat
        BY <2>2, LenProperties, ElementOfSeq, EmptySeq
      <4>4. \A i \in 1 .. Len(b) : b[i] + Window < clock
        <5>1. CASE q = << >>
          <6>1. Len(q) = 0
            BY <5>1, EmptySeq
          <6> QED BY <2>1, <4>3, <6>1 DEF Remembers
        <5>2. CASE q # << >>
          <6>1. /\ Len(q) \in 1 .. Len(q) /\ Len(b) - Len(q) + Len(q) = Len(b)
                /\ Len(b) \in 1 .. Len(b)
            BY <2>1, <4>3, <5>2 DEF Remembers
          <6>2. q[Len(q)] = b[Len(b)]
            BY <2>1, <6>1 DEF Remembers
          <6>3. b[Len(b)] + Window < clock
            BY <1>2, <4>2, <4>3, <5>2, <6>1, <6>2 DEF Within
          <6>4. \A i \in 1 .. Len(b) : b[i] <= b[Len(b)]
            BY <2>1, <4>3, <6>1 DEF Spaced
          <6> QED BY <1>2, <4>3, <6>1, <6>3, <6>4
        <5> QED BY <5>1, <5>2
      <4>5. Len(<< >>) = 0
        BY EmptySeq
      <4>6. Remembers(<< >>, b)
        BY <1>2, <4>3, <4>4, <4>5 DEF Remembers
      <4> QED BY <4>1, <4>6
    <3> QED BY <3>1, <3>2
  <2> QED BY <1>3, <2>1, <2>3 DEF Remembers, Spaced
<1>15. BlocksAreEarned'
  <2> SUFFICES ASSUME NEW d \in DOMAIN blockedUntil'
               PROVE  \E t \in 0 .. clock :
                         /\ Cardinality(Admissions(d, t)') = MaxRequests
                         /\ blockedUntil'[d] = t + BlockDuration(MaxRequests)
    BY <1>3 DEF BlocksAreEarned, BlockDuration
  <2>1. d \in DOMAIN blockedUntil /\ d # c /\ d \in Clients /\ blockedUntil'[d] = blockedUntil[d]
    BY <1>11 DEF LimiterInv, LimiterShape
  <2>2. PICK t \in 0 .. clock :
                         /\ Cardinality(Admissions(d, t)) = MaxRequests
                         /\ blockedUntil[d] = t + BlockDuration(MaxRequests)
    BY <2>1 DEF LimiterInv, BlocksAreEarned
  <2>3. Admissions(d, t)' = Admissions(d, t)
    BY <1>13, <2>1 DEF Admissions
  <2> QED BY <2>1, <2>2, <2>3
<1> QED BY <1>12, <1>14, <1>15 DEF LimiterInv

\* No window of a client holds more than its maximum, a block is earned and ends:
\* for any number of clients, window and maximum, and whenever a cleanup forgets
\* clients: LimiterHolds, about RateLimiter (security.py).
THEOREM WindowsStayBounded == LimiterSpec => []LimiterHolds
<1>1. LimiterInit => LimiterInv
  <2> SUFFICES ASSUME LimiterInit PROVE LimiterInv
    OBVIOUS
  <2>1. /\ clock = 0 /\ requests = << >> /\ blockedUntil = << >>
        /\ admitted = [c \in Clients |-> << >>]
    BY DEF LimiterInit
  <2>2. DOMAIN << >> = {} /\ Len(<< >>) = 0 /\ << >> \in Seq(Nat)
    BY EmptySeq
  <2>3. LimiterShape
    BY <2>1, <2>2, LimiterAssumption DEF LimiterShape
  <2>4. \A c \in Clients : Remembers(Deque(c), admitted[c]) /\ Spaced(admitted[c])
    BY <2>1, <2>2, LimiterAssumption DEF Remembers, Spaced, Deque
  <2>5. BlocksAreEarned
    BY <2>1, <2>2 DEF BlocksAreEarned
  <2> QED BY <2>3, <2>4, <2>5 DEF LimiterInv
<1>2. LimiterInv /\ [LimiterNext]_limiterVars => LimiterInv'
  <2>1. LimiterInv /\ UNCHANGED limiterVars => LimiterInv'
    <3> SUFFICES ASSUME LimiterInv, UNCHANGED limiterVars PROVE LimiterInv'
      OBVIOUS
    <3>1. /\ clock' = clock /\ requests' = requests
          /\ blockedUntil' = blockedUntil /\ admitted' = admitted
      BY DEF limiterVars
    <3>2. LimiterShape'
      BY <3>1 DEF LimiterInv, LimiterShape
    <3>3. \A c \in Clients : (Remembers(Deque(c), admitted[c]) /\ Spaced(admitted[c]))'
      BY <3>1 DEF LimiterInv, Remembers, Spaced, Deque
    <3>4. \A c, t : Admissions(c, t)' = Admissions(c, t)
      BY <3>1 DEF Admissions
    <3>5. BlocksAreEarned'
      BY <3>1, <3>4 DEF LimiterInv, BlocksAreEarned, BlockDuration
    <3> QED BY <3>2, <3>3, <3>5 DEF LimiterInv
  <2>2. ASSUME LimiterInv, NEW c \in Clients, RefuseRequest(c) PROVE LimiterInv'
    BY <2>1, <2>2 DEF RefuseRequest
  <2> QED BY <2>1, <2>2, TickKeeps, BlockKeeps, AdmitKeeps DEF LimiterNext
<1>3. LimiterInv => LimiterHolds
  <2> SUFFICES ASSUME LimiterInv PROVE LimiterHolds
    OBVIOUS
  <2>1. /\ clock \in 0 .. MaxClock /\ MaxClock \in Nat /\ MaxRequests \in Nat
    BY LimiterAssumption DEF LimiterInv, LimiterShape
  <2>2. ASSUME NEW c \in Clients
        PROVE  admitted[c] \in Seq(0 .. clock) /\ Deque(c) \in Seq(0 .. clock)
    <3> DEFINE a == admitted[c]
               q == Deque(c)
    <3>1. a \in Seq(Nat) /\ q \in Seq(Nat) /\ Remembers(q, a) /\ Spaced(a)
      BY EmptySeq DEF LimiterInv, LimiterShape, Deque
    <3> HIDE DEF a, q
    <3>2. /\ Len(a) \in Nat /\ Len(q) \in Nat
          /\ a \in [1 .. Len(a) -> Nat] /\ q \in [1 .. Len(q) -> Nat]
      BY <3>1, LenProperties
    <3>3. \A i \in 1 .. Len(a) : a[i] \in 0 .. clock
      BY <2>1, <3>1, <3>2 DEF Spaced
    <3>4. \A i \in 1 .. Len(q) : q[i] \in 0 .. clock
      <4> SUFFICES ASSUME NEW i \in 1 .. Len(q) PROVE q[i] \in 0 .. clock
        OBVIOUS
      <4>1. Len(a) - Len(q) + i \in 1 .. Len(a)
        BY <3>1, <3>2 DEF Remembers
      <4> QED BY <3>1, <3>3, <4>1 DEF Remembers
    <3>5. a \in [1 .. Len(a) -> 0 .. clock] /\ q \in [1 .. Len(q) -> 0 .. clock]
      BY <3>2, <3>3, <3>4
    <3>6. a \in Seq(0 .. clock) /\ q \in Seq(0 .. clock)
      <4> DEFINE T == 0 .. clock
      <4>1. Seq(T) = UNION {[1 .. n -> T] : n \in Nat}
        BY SeqDef, Zenon
      <4>2. a \in [1 .. Len(a) -> T] /\ q \in [1 .. Len(q) -> T]
        BY <3>5
      <4> HIDE DEF T
      <4>3. a \in UNION {[1 .. n -> T] : n \in Nat}
        BY <3>2, <4>2, Zenon
      <4>4. q \in UNION {[1 .. n -> T] : n \in Nat}
        BY <3>2, <4>2, Zenon
      <4>5. a \in Seq(T) /\ q \in Seq(T)
        BY <4>1, <4>3, <4>4, Zenon
      <4> QED BY <4>5 DEF T
    <3> QED BY <3>6 DEF a, q
  <2>3. LimiterTypeOK
    <3>1. admitted \in [Clients -> Seq(0 .. clock)]
      BY <2>2 DEF LimiterInv, LimiterShape
    <3>2. requests \in [DOMAIN requests -> Seq(0 .. clock)] /\ DOMAIN requests \in SUBSET Clients
      BY <2>2 DEF LimiterInv, LimiterShape, Deque
    <3>3. \A c \in DOMAIN requests : Len(requests[c]) <= MaxRequests
      BY <3>2 DEF LimiterInv, Remembers, Deque
    <3>4. /\ blockedUntil \in [DOMAIN blockedUntil -> Nat]
          /\ DOMAIN blockedUntil \in SUBSET Clients
      BY DEF LimiterInv, LimiterShape
    <3> QED BY <2>1, <3>1, <3>2, <3>3, <3>4 DEF LimiterTypeOK
  <2>4. WindowHolds
    BY <2>1, WindowIsBounded DEF WindowHolds
  <2>5. BlocksAreEarned
    BY DEF LimiterInv
  <2> QED BY <2>3, <2>4, <2>5 DEF LimiterHolds
<1> QED BY <1>1, <1>2, <1>3, PTL DEF LimiterSpec

-----------------------------------------------------------------------------
(* Authentication: the tokens an eviction keeps.                             *)

\* The newest of some numbers: those that fewer than K others exceed.
LEMMA KeptAreFew ==
    ASSUME NEW n \in Nat, NEW S \in SUBSET (1 .. n), NEW K \in Nat
    PROVE  LET kept == {t \in S : Cardinality({u \in S : u > t}) < K} IN
           IsFiniteSet(kept) /\ Cardinality(kept) <= K
<1> DEFINE Above(t) == {u \in S : u > t}
           kept == {t \in S : Cardinality(Above(t)) < K}
<1> SUFFICES IsFiniteSet(kept) /\ Cardinality(kept) <= K
  OBVIOUS
<1>1. IsFiniteSet(1 .. n)
  BY FS_Interval
<1>2. IsFiniteSet(S)
  BY <1>1, FS_Subset
<1>3. kept \in SUBSET S /\ \A t \in S : Above(t) \in SUBSET S
  OBVIOUS
<1>4. \A t \in kept : t \in S /\ Cardinality(Above(t)) < K
  OBVIOUS
<1>5. ASSUME NEW m \in kept, \A t \in kept : ~(t < m), NEW t \in kept \ {m}
      PROVE  t \in Above(m)
  <2>1. t \in S /\ m \in S /\ t \in Nat /\ m \in Nat /\ t # m /\ ~(t < m)
    BY <1>5
  <2>2. t > m
    BY <2>1
  <2> QED BY <2>1, <2>2
<1> HIDE DEF kept, Above
<1>6. IsFiniteSet(kept)
  BY <1>2, <1>3, FS_Subset
<1>7. CASE kept = {}
  BY <1>7, FS_EmptySet
<1>8. CASE kept # {}
  <2>1. kept \in SUBSET Nat
    BY <1>3
  <2>2. PICK m \in kept : \A t \in kept : ~(t < m)
    BY <1>8, <2>1, LeastNumber
  <2>3. m \in S
    BY <1>4
  <2>4. IsFiniteSet(Above(m))
    BY <1>2, <1>3, <2>3, FS_Subset
  <2>5. Cardinality(Above(m)) \in Nat /\ Cardinality(Above(m)) < K
    BY <1>4, <2>4, FS_CardinalityType
  <2>6. Cardinality(kept \ {m}) <= Cardinality(Above(m))
    <3>1. kept \ {m} \in SUBSET Above(m)
      BY <1>5, <2>2
    <3> QED BY <2>4, <3>1, FS_Subset
  <2>7. Cardinality(kept \ {m}) = Cardinality(kept) - 1
    BY <1>6, <2>2, FS_RemoveElement
  <2>8. Cardinality(kept) \in Nat
    BY <1>6, FS_CardinalityType
  <2> QED BY <1>6, <2>5, <2>6, <2>7, <2>8
<1> QED BY <1>7, <1>8

\* What is not kept is older than what is.
LEMMA KeptAreNewer ==
    ASSUME NEW n \in Nat, NEW S \in SUBSET (1 .. n), NEW K \in Nat
    PROVE  LET kept == {t \in S : Cardinality({v \in S : v > t}) < K} IN
           \A t \in S \ kept, u \in kept : t < u
<1> SUFFICES ASSUME NEW t \in S, NEW u \in S,
                    ~(Cardinality({v \in S : v > t}) < K), Cardinality({v \in S : v > u}) < K
             PROVE  t < u
  OBVIOUS
<1> DEFINE Above(x) == {v \in S : v > x}
<1>1. IsFiniteSet(S)
  <2>1. IsFiniteSet(1 .. n)
    BY FS_Interval
  <2> QED BY <2>1, FS_Subset
<1>2. /\ IsFiniteSet(Above(t)) /\ IsFiniteSet(Above(u))
      /\ Cardinality(Above(t)) \in Nat /\ Cardinality(Above(u)) \in Nat
  BY <1>1, FS_Subset, FS_CardinalityType
<1>3. SUFFICES ASSUME u <= t PROVE FALSE
  OBVIOUS
<1>4. Above(t) \in SUBSET Above(u)
  <2>1. ASSUME NEW v \in Above(t) PROVE v \in Above(u)
    <3>1. v \in S /\ v \in Nat /\ t \in Nat /\ u \in Nat /\ v > t
      OBVIOUS
    <3>2. v > u
      BY <1>3, <3>1
    <3> QED BY <3>1, <3>2
  <2> HIDE DEF Above
  <2> QED BY <2>1
<1> HIDE DEF Above
<1>5. Cardinality(Above(t)) <= Cardinality(Above(u))
  BY <1>2, <1>4, FS_Subset
<1>6. ~(Cardinality(Above(t)) < K) /\ Cardinality(Above(u)) < K
  BY DEF Above
<1> QED BY <1>2, <1>5, <1>6

-----------------------------------------------------------------------------
(* Authentication: OAuth.                                                    *)

\* Every code a token goes back to was drawn, every parent was issued.
RootsAreKnown ==
    \A t \in DOMAIN issued :
        /\ issued[t].code \in DOMAIN drawn
        /\ issued[t].parent \in {0} \cup DOMAIN issued

\* A code that can still be exchanged bought nothing yet.
HeldCodesAreUnspent ==
    \A k \in DOMAIN codes, t \in DOMAIN issued :
        issued[t].parent = 0 => issued[t].code # k

\* What is in memory was signed with the key of this start.
MemoryIsOfThisStart == \A t \in access \cup refresh : issued[t].boot = boots

OAuthInv ==
    /\ OAuthTypeOK /\ MemoryIsOfThisStart
    /\ drawn \in Seq(GrantOf)
    /\ RootsAreKnown /\ HeldCodesAreUnspent
    /\ CodeBuysOnce /\ TokensKeepToTheirGrant
    /\ refresh \cap revoked = {}

LEMMA OAuthInitially == OAuthInit => OAuthInv
<1> SUFFICES ASSUME OAuthInit PROVE OAuthInv
  OBVIOUS
<1>1. DOMAIN issued = {} /\ DOMAIN codes = {} /\ DOMAIN drawn = {}
  BY DEF OAuthInit
<1>2. issued \in Seq(Token) /\ drawn \in Seq(GrantOf)
  BY EmptySeq DEF OAuthInit
<1> QED
  BY <1>1, <1>2, OAuthAssumption
     DEF OAuthInit, OAuthInv, OAuthTypeOK, RootsAreKnown, HeldCodesAreUnspent, CodeBuysOnce,
         TokensKeepToTheirGrant, MemoryIsOfThisStart

\* What is accepted follows from the types: what is in memory never decides.
LEMMA MemoryNeverDecides == OAuthTypeOK /\ MemoryIsOfThisStart => OnlyTimeEndsAccess
BY DEF OAuthTypeOK, MemoryIsOfThisStart, OnlyTimeEndsAccess, Accepts, AcceptedFromMemory,
   AcceptedAsJwt, SignedWithKey

LEMMA OAuthNextKeeps == OAuthInv /\ [OAuthNext]_oauthVars => OAuthInv'
<1> SUFFICES ASSUME OAuthInv, [OAuthNext]_oauthVars PROVE OAuthInv'
  OBVIOUS
<1>1. /\ registered \subseteq OClients
      /\ DOMAIN codes \subseteq DOMAIN drawn /\ DOMAIN drawn \subseteq Codes
      /\ \A k \in DOMAIN codes : codes[k] = drawn[k]
      /\ issued \in Seq(Token) /\ drawn \in Seq(GrantOf)
      /\ access \subseteq {t \in DOMAIN issued : issued[t].type = "access"}
      /\ refresh \subseteq {t \in DOMAIN issued : issued[t].type = "refresh"}
      /\ oldCodes \subseteq DOMAIN drawn /\ oldTokens \cup revoked \subseteq DOMAIN issued
      /\ keyIsSet \in BOOLEAN /\ boots \in 0 .. MaxBoots /\ MemoryIsOfThisStart
      /\ RootsAreKnown /\ HeldCodesAreUnspent /\ CodeBuysOnce /\ TokensKeepToTheirGrant
      /\ refresh \cap revoked = {}
  BY DEF OAuthInv, OAuthTypeOK
<1>2. /\ Len(issued) \in Nat /\ DOMAIN issued = 1 .. Len(issued)
      /\ Len(drawn) \in Nat /\ DOMAIN drawn = 1 .. Len(drawn)
      /\ \A t \in DOMAIN issued : issued[t] \in Token
      /\ \A k \in DOMAIN drawn : drawn[k] \in GrantOf
  BY <1>1, LenProperties, ElementOfSeq
\* A step that signs nothing and draws nothing, and only takes away.
<1>3. ASSUME UNCHANGED <<drawn, issued>>, registered' \subseteq OClients,
             UNCHANGED keyIsSet, boots' \in 0 .. MaxBoots,
             boots' = boots \/ access' \cup refresh' = {},
             DOMAIN codes' \subseteq DOMAIN codes, \A k \in DOMAIN codes' : codes'[k] = codes[k],
             access' \subseteq access, refresh' \subseteq refresh, oldCodes' \subseteq DOMAIN drawn,
             oldTokens' \cup revoked' \subseteq DOMAIN issued, refresh' \cap revoked' = {}
      PROVE  OAuthInv'
  <2>1. OAuthTypeOK' /\ drawn' \in Seq(GrantOf)
    BY <1>1, <1>2, <1>3 DEF OAuthTypeOK
  <2>2. RootsAreKnown' /\ HeldCodesAreUnspent' /\ CodeBuysOnce' /\ TokensKeepToTheirGrant'
    BY <1>1, <1>3 DEF RootsAreKnown, HeldCodesAreUnspent, CodeBuysOnce, TokensKeepToTheirGrant
  <2>3. MemoryIsOfThisStart'
    BY <1>1, <1>3 DEF MemoryIsOfThisStart
  <2> QED BY <1>3, <2>1, <2>2, <2>3 DEF OAuthInv
<1>4. ASSUME NEW f, NEW full
      PROVE  /\ DOMAIN LiveCodes(f, full) \subseteq DOMAIN f
             /\ \A k \in DOMAIN LiveCodes(f, full) : LiveCodes(f, full)[k] = f[k]
  BY DEF LiveCodes, Restrict
<1>5. \A S, full : LiveTokens(S, full) \subseteq S
  BY DEF LiveTokens
<1>6. \A k : /\ DOMAIN Spent(k) = DOMAIN codes \ {k}
             /\ \A j \in DOMAIN Spent(k) : Spent(k)[j] = codes[j]
  BY DEF Spent, Restrict
<1>7. ASSUME NEW c \in OClients, Register(c)
      PROVE  OAuthInv'
  BY <1>1, <1>3, <1>7 DEF Register
<1>8. ASSUME NEW c \in OClients, NEW k \in Codes, NEW s \in Scopes,
             NEW v \in Verifiers \cup {NoVerifier}, Authorize(c, k, s, v)
      PROVE  OAuthInv'
  <2> DEFINE full == Cardinality(DOMAIN codes) > CodeCap
             grant == [client |-> c, scope |-> s, challenge |-> v]
  <2>1. /\ c \in registered /\ k = Len(drawn) + 1
        /\ codes' = Put(LiveCodes(codes, full), k, grant)
        /\ drawn' = Append(drawn, grant)
        /\ access' \subseteq access /\ refresh' \subseteq refresh
        /\ UNCHANGED <<registered, issued, oldCodes, oldTokens, revoked, keyIsSet, boots>>
    BY <1>5, <1>8 DEF Authorize
  <2>2. grant \in GrantOf
    BY DEF GrantOf
  <2> HIDE DEF full, grant
  <2>3. /\ drawn' \in Seq(GrantOf) /\ DOMAIN drawn' = 1 .. Len(drawn) + 1
        /\ drawn'[k] = grant /\ \A j \in DOMAIN drawn : drawn'[j] = drawn[j]
    BY <1>1, <1>2, <2>1, <2>2, AppendProperties, LenProperties
  <2>4. /\ DOMAIN codes' \subseteq DOMAIN codes \cup {k}
        /\ \A j \in DOMAIN codes' : codes'[j] = drawn'[j]
    BY <1>1, <1>2, <1>4, <2>1, <2>3 DEF Put
  <2>5. DOMAIN drawn \subseteq DOMAIN drawn' /\ k \in DOMAIN drawn' /\ k \notin DOMAIN drawn
    BY <1>2, <2>1, <2>3
  <2>6. DOMAIN drawn' \subseteq Codes
    BY <1>1, <1>2, <2>1, <2>3, OAuthAssumption DEF Codes
  <2>7. OAuthTypeOK'
    <3>1. \A j \in DOMAIN drawn' : drawn'[j] \in GrantOf
      BY <2>3, ElementOfSeq, LenProperties
    <3>2. DOMAIN codes' \subseteq DOMAIN drawn'
      BY <1>1, <2>4, <2>5
    <3> QED BY <1>1, <2>1, <2>4, <2>5, <2>6, <3>1, <3>2 DEF OAuthTypeOK
  <2>8. RootsAreKnown' /\ CodeBuysOnce'
    BY <1>1, <2>1, <2>5 DEF RootsAreKnown, CodeBuysOnce
  <2>9. HeldCodesAreUnspent'
    BY <1>1, <2>1, <2>4, <2>5 DEF HeldCodesAreUnspent, RootsAreKnown
  <2>10. TokensKeepToTheirGrant'
    BY <1>1, <2>1, <2>3 DEF TokensKeepToTheirGrant, RootsAreKnown
  <2>11. MemoryIsOfThisStart'
    BY <1>1, <2>1 DEF MemoryIsOfThisStart
  <2> QED BY <1>1, <2>1, <2>3, <2>7, <2>8, <2>9, <2>10, <2>11 DEF OAuthInv
<1>9. ASSUME NEW k \in Codes, NEW c \in OClients, NEW v \in Verifiers \cup {NoVerifier},
             Exchange(k, c, v)
      PROVE  OAuthInv'
  <2> DEFINE n == Len(issued)
             full == Cardinality(access) > TokenCap \/ Cardinality(refresh) > TokenCap
             Bought(type) == [type |-> type, client |-> c, scope |-> codes[k].scope,
                              code |-> k, parent |-> 0, boot |-> boots]
  <2>1. /\ k \in DOMAIN codes /\ codes[k].client = c /\ n + 2 <= MaxIssued
        /\ issued' = issued \o <<Bought("access"), Bought("refresh")>>
        /\ access' \subseteq access \cup {n + 1} /\ refresh' \subseteq refresh \cup {n + 2}
        /\ codes' = LiveCodes(Spent(k), full)
        /\ UNCHANGED <<registered, drawn, oldCodes, oldTokens, revoked, keyIsSet, boots>>
    BY <1>5, <1>9 DEF Exchange, Fits
  <2>2. codes[k] = drawn[k] /\ drawn[k] \in GrantOf /\ k \in DOMAIN drawn
    BY <1>1, <1>2, <2>1
  <2>3. Bought("access") \in Token /\ Bought("refresh") \in Token
    BY <1>1, <2>2, OAuthAssumption DEF Token, GrantOf
  <2>4. /\ issued' \in Seq(Token) /\ DOMAIN issued' = 1 .. n + 2
        /\ \A t \in DOMAIN issued : issued'[t] = issued[t]
        /\ issued'[n + 1] = Bought("access") /\ issued'[n + 2] = Bought("refresh")
    BY <1>1, <1>2, <2>1, <2>3
  <2>5. /\ DOMAIN issued \subseteq DOMAIN issued'
        /\ n + 1 \in DOMAIN issued' \ DOMAIN issued /\ n + 2 \in DOMAIN issued' \ DOMAIN issued
        /\ \A t \in DOMAIN issued' : t \in DOMAIN issued \/ t = n + 1 \/ t = n + 2
    BY <1>2, <2>4
  <2>6. /\ issued'[n + 1].type = "access" /\ issued'[n + 2].type = "refresh"
        /\ \A t \in {n + 1, n + 2} :
             /\ issued'[t].parent = 0 /\ issued'[t].code = k /\ issued'[t].boot = boots
             /\ issued'[t].client = drawn[k].client /\ issued'[t].scope = drawn[k].scope
    BY <2>1, <2>2, <2>4
  <2>7. /\ DOMAIN codes' \subseteq DOMAIN codes \ {k}
        /\ \A j \in DOMAIN codes' : codes'[j] = codes[j]
    <3>1. /\ DOMAIN codes' \subseteq DOMAIN Spent(k)
          /\ \A j \in DOMAIN codes' : codes'[j] = Spent(k)[j]
      BY <2>1 DEF LiveCodes, Restrict
    <3> QED BY <1>6, <3>1
  <2> HIDE DEF Bought, n, full
  <2>8. OAuthTypeOK'
    <3>1. access' \subseteq {t \in DOMAIN issued' : issued'[t].type = "access"}
      BY SMTT(30), <1>1, <2>1, <2>4, <2>5, <2>6
    <3>2. refresh' \subseteq {t \in DOMAIN issued' : issued'[t].type = "refresh"}
      BY SMTT(30), <1>1, <2>1, <2>4, <2>5, <2>6
    <3>3. /\ DOMAIN codes' \subseteq DOMAIN drawn'
          /\ \A j \in DOMAIN codes' : codes'[j] = drawn'[j]
      BY <1>1, <2>1, <2>7
    <3>4. oldTokens' \cup revoked' \subseteq DOMAIN issued'
      BY <1>1, <2>1, <2>5
    <3> QED BY <1>1, <1>2, <2>1, <2>4, <3>1, <3>2, <3>3, <3>4 DEF OAuthTypeOK
  <2>9. RootsAreKnown'
    BY SMTT(30), <1>1, <2>1, <2>2, <2>4, <2>5, <2>6 DEF RootsAreKnown
  <2>10. HeldCodesAreUnspent'
    <3>1. SUFFICES ASSUME NEW j \in DOMAIN codes', NEW t \in DOMAIN issued',
                          issued'[t].parent = 0
                   PROVE  issued'[t].code # j
      BY DEF HeldCodesAreUnspent
    <3>2. j \in DOMAIN codes /\ j # k
      BY <2>7
    <3>3. CASE t \in DOMAIN issued
      BY <1>1, <2>4, <3>1, <3>2, <3>3 DEF HeldCodesAreUnspent
    <3>4. CASE t \notin DOMAIN issued
      BY <2>5, <2>6, <3>2, <3>4
    <3> QED BY <3>3, <3>4
  <2>11. CodeBuysOnce'
    <3>1. SUFFICES ASSUME NEW t \in DOMAIN issued', NEW u \in DOMAIN issued',
                          issued'[t].parent = 0, issued'[u].parent = 0,
                          issued'[t].code = issued'[u].code, issued'[t].type = issued'[u].type
                   PROVE  t = u
      BY DEF CodeBuysOnce
    <3>2. \A x \in DOMAIN issued : issued'[x].parent = 0 => issued'[x].code # k
      BY <1>1, <2>1, <2>4 DEF HeldCodesAreUnspent
    <3>3. CASE t \in DOMAIN issued /\ u \in DOMAIN issued
      BY <1>1, <2>4, <3>1, <3>3 DEF CodeBuysOnce
    <3>4. CASE t \notin DOMAIN issued \/ u \notin DOMAIN issued
      BY <2>5, <2>6, <3>1, <3>2, <3>4
    <3> QED BY <3>3, <3>4
  <2>12. TokensKeepToTheirGrant'
    <3>1. SUFFICES ASSUME NEW t \in DOMAIN issued'
                   PROVE  /\ issued'[t].client = drawn'[issued'[t].code].client
                          /\ issued'[t].scope = drawn'[issued'[t].code].scope
                          /\ issued'[t].parent # 0 => issued'[issued'[t].parent].type = "refresh"
      BY DEF TokensKeepToTheirGrant
    <3>2. CASE t \in DOMAIN issued
      BY <1>1, <2>1, <2>4, <3>2 DEF TokensKeepToTheirGrant, RootsAreKnown
    <3>3. CASE t \notin DOMAIN issued
      BY <2>1, <2>5, <2>6, <3>3
    <3> QED BY <3>2, <3>3
  <2>13. refresh' \cap revoked' = {}
    BY <1>1, <2>1, <2>5
  <2>14. MemoryIsOfThisStart'
    <3>1. SUFFICES ASSUME NEW t \in access' \cup refresh' PROVE issued'[t].boot = boots
      BY <2>1 DEF MemoryIsOfThisStart
    <3>2. CASE t \in access \cup refresh
      BY <1>1, <2>4, <3>2 DEF MemoryIsOfThisStart
    <3>3. CASE t \in {n + 1, n + 2}
      BY <2>6, <3>3
    <3> QED BY <2>1, <3>2, <3>3
  <2> QED BY <1>1, <2>1, <2>8, <2>9, <2>10, <2>11, <2>12, <2>13, <2>14 DEF OAuthInv
<1>10. ASSUME NEW k \in Codes, ExchangeExpired(k)
       PROVE  OAuthInv'
  BY <1>1, <1>3, <1>6, <1>10 DEF ExchangeExpired
<1>11. ASSUME NEW t \in DOMAIN issued, NEW c \in OClients, Refresh(t, c)
       PROVE  OAuthInv'
  <2> DEFINE n == Len(issued)
  <2>1. /\ t \in refresh /\ n < MaxIssued
        /\ issued' = Append(issued, Renewed(t))
        /\ access' = Trimmed(access) \cup {n + 1}
        /\ UNCHANGED <<registered, codes, drawn, refresh, oldCodes, oldTokens, revoked, keyIsSet, boots>>
    BY <1>11 DEF Refresh, Known
  <2>2. Trimmed(access) \subseteq access
    BY <1>5 DEF Trimmed, Newest
  <2>3. /\ Renewed(t) \in Token /\ Renewed(t).type = "access" /\ Renewed(t).parent = t
        /\ Renewed(t).code = issued[t].code /\ Renewed(t).client = issued[t].client
        /\ Renewed(t).scope = issued[t].scope /\ Renewed(t).boot = boots
    <3>1. t \in 0 .. MaxIssued /\ issued[t] \in Token
      BY <1>2, <2>1, OAuthAssumption
    <3> QED BY <1>1, <3>1 DEF Renewed, Token
  <2>4. t \in DOMAIN issued /\ issued[t].type = "refresh" /\ t # 0
    BY <1>1, <1>2, <2>1
  <2>5. /\ issued' \in Seq(Token) /\ DOMAIN issued' = 1 .. n + 1
        /\ \A x \in DOMAIN issued : issued'[x] = issued[x]
        /\ issued'[n + 1] = Renewed(t)
    BY <1>1, <1>2, <2>1, <2>3, AppendProperties, LenProperties
  <2>6. /\ DOMAIN issued \subseteq DOMAIN issued'
        /\ n + 1 \in DOMAIN issued' \ DOMAIN issued
        /\ \A x \in DOMAIN issued' : x \in DOMAIN issued \/ x = n + 1
    BY <1>2, <2>5
  <2> HIDE DEF n
  <2>7. OAuthTypeOK'
    <3>1. access' \subseteq {x \in DOMAIN issued' : issued'[x].type = "access"}
      BY <1>1, <2>1, <2>2, <2>3, <2>5, <2>6
    <3>2. refresh' \subseteq {x \in DOMAIN issued' : issued'[x].type = "refresh"}
      BY <1>1, <2>1, <2>5, <2>6
    <3>3. oldTokens' \cup revoked' \subseteq DOMAIN issued'
      BY <1>1, <2>1, <2>6
    <3> QED BY <1>1, <1>2, <2>1, <2>5, <3>1, <3>2, <3>3 DEF OAuthTypeOK
  <2>8. RootsAreKnown'
    BY <1>1, <2>1, <2>3, <2>4, <2>5, <2>6 DEF RootsAreKnown
  <2>9. HeldCodesAreUnspent'
    BY <1>1, <2>1, <2>3, <2>4, <2>5, <2>6 DEF HeldCodesAreUnspent
  <2>10. CodeBuysOnce'
    BY SMTT(30), <1>1, <2>3, <2>4, <2>5, <2>6 DEF CodeBuysOnce
  <2>11. TokensKeepToTheirGrant'
    <3>1. SUFFICES ASSUME NEW x \in DOMAIN issued'
                   PROVE  /\ issued'[x].client = drawn'[issued'[x].code].client
                          /\ issued'[x].scope = drawn'[issued'[x].code].scope
                          /\ issued'[x].parent # 0 => issued'[issued'[x].parent].type = "refresh"
      BY DEF TokensKeepToTheirGrant
    <3>2. /\ issued[t].client = drawn[issued[t].code].client
          /\ issued[t].scope = drawn[issued[t].code].scope
      BY <1>1, <2>4 DEF TokensKeepToTheirGrant
    <3>3. CASE x \in DOMAIN issued
      <4>1. /\ issued[x].client = drawn[issued[x].code].client
            /\ issued[x].scope = drawn[issued[x].code].scope
            /\ issued[x].parent # 0 => issued[issued[x].parent].type = "refresh"
        BY <1>1, <3>3 DEF TokensKeepToTheirGrant
      <4>2. issued[x].parent # 0 => issued[x].parent \in DOMAIN issued
        BY <1>1, <3>3 DEF RootsAreKnown
      <4>3. issued'[x] = issued[x] /\ drawn' = drawn
        BY <2>1, <2>5, <3>3
      <4> QED BY <2>5, <4>1, <4>2, <4>3
    <3>4. CASE x = n + 1
      <4>1. issued'[x] = Renewed(t) /\ issued'[t] = issued[t] /\ drawn' = drawn
        BY <2>1, <2>4, <2>5, <3>4
      <4> QED BY <2>3, <2>4, <3>2, <4>1
    <3> QED BY <2>6, <3>1, <3>3, <3>4
  <2>12. MemoryIsOfThisStart'
    BY <1>1, <2>1, <2>2, <2>3, <2>5 DEF MemoryIsOfThisStart
  <2> QED BY <1>1, <2>1, <2>7, <2>8, <2>9, <2>10, <2>11, <2>12 DEF OAuthInv
<1>12. ASSUME NEW t \in DOMAIN issued, RefreshExpired(t)
       PROVE  OAuthInv'
  BY <1>1, <1>3, <1>12 DEF RefreshExpired
<1>13. ASSUME NEW t \in DOMAIN issued, Revoke(t)
       PROVE  OAuthInv'
  BY <1>1, <1>3, <1>13 DEF Revoke
<1>14. ASSUME NEW t \in DOMAIN issued, ExpireToken(t)
       PROVE  OAuthInv'
  BY <1>1, <1>3, <1>14 DEF ExpireToken
<1>15. ASSUME NEW k \in DOMAIN codes, ExpireCode(k)
       PROVE  OAuthInv'
  BY <1>1, <1>3, <1>15 DEF ExpireCode
<1>16. ASSUME Reboot
       PROVE  OAuthInv'
  <2>1. /\ boots' = boots + 1 /\ boots < MaxBoots /\ registered' = {Claude}
        /\ DOMAIN codes' = {} /\ access' = {} /\ refresh' = {}
        /\ UNCHANGED <<drawn, issued, oldCodes, oldTokens, revoked, keyIsSet>>
    BY <1>16 DEF Reboot
  <2>2. boots' \in 0 .. MaxBoots /\ registered' \subseteq OClients
    BY <1>1, <2>1, OAuthAssumption
  <2> QED BY <1>1, <1>3, <2>1, <2>2
<1>17. CASE UNCHANGED oauthVars
  BY <1>1, <1>3, <1>17 DEF oauthVars
<1> QED BY <1>7, <1>8, <1>9, <1>10, <1>11, <1>12, <1>13, <1>14, <1>15, <1>16, <1>17
        DEF OAuthNext

\* A refresh token that is dead when a token is signed is not what it came from.
LEMMA DeadTokensBuyNothing ==
    ASSUME OAuthInv, [OAuthNext]_oauthVars
    PROVE  \A t \in DOMAIN issued' \ DOMAIN issued :
             /\ issued'[t].parent \notin revoked \cup oldTokens
             /\ issued'[t].parent # 0 => issued'[t].parent \in refresh
<1> SUFFICES ASSUME NEW t \in DOMAIN issued' \ DOMAIN issued
             PROVE  /\ issued'[t].parent \notin revoked \cup oldTokens
                    /\ issued'[t].parent # 0 => issued'[t].parent \in refresh
  OBVIOUS
<1>1. /\ issued \in Seq(Token) /\ Len(issued) \in Nat /\ DOMAIN issued = 1 .. Len(issued)
      /\ oldTokens \cup revoked \subseteq DOMAIN issued /\ refresh \cap revoked = {}
  BY LenProperties DEF OAuthInv, OAuthTypeOK
<1>2. ASSUME NEW k \in Codes, NEW c \in OClients, NEW v \in Verifiers \cup {NoVerifier},
             Exchange(k, c, v)
      PROVE  issued'[t].parent = 0
  <2> DEFINE Bought(type) == [type |-> type, client |-> c, scope |-> codes[k].scope,
                              code |-> k, parent |-> 0, boot |-> boots]
  <2>1. issued' = issued \o <<Bought("access"), Bought("refresh")>>
    BY <1>2 DEF Exchange
  <2> DEFINE n == Len(issued)
  <2>2. t = n + 1 \/ t = n + 2
    BY <1>1, <2>1
  <2>3. issued'[n + 1] = Bought("access") /\ issued'[n + 2] = Bought("refresh")
    BY <1>1, <2>1
  <2> QED BY <2>2, <2>3
<1>3. ASSUME NEW p \in DOMAIN issued, NEW c \in OClients, Refresh(p, c)
      PROVE  issued'[t].parent = p /\ p \in refresh /\ p \notin oldTokens
  <2>1. p \in refresh /\ p \notin oldTokens /\ issued' = Append(issued, Renewed(p))
    BY <1>3 DEF Refresh, Known
  <2>2. issued[p] \in Token
    BY <1>1, ElementOfSeq
  <2>3. Renewed(p).parent = p
    BY <2>2 DEF Renewed, Token
  <2>4. t = Len(issued) + 1 /\ issued'[t] = Renewed(p)
    BY <1>1, <2>1
  <2> QED BY <2>1, <2>3, <2>4
<1>4. CASE issued' = issued
  BY <1>4
<1>5. CASE issued' # issued
  <2>1. \/ \E k \in Codes, c \in OClients, v \in Verifiers \cup {NoVerifier} : Exchange(k, c, v)
        \/ \E p \in DOMAIN issued, c \in OClients : Refresh(p, c)
    BY <1>5 DEF OAuthNext, oauthVars, Register, Authorize, ExchangeExpired, RefreshExpired,
                Revoke, ExpireToken, ExpireCode, Reboot
  <2> QED BY <1>1, <1>2, <1>3, <2>1
<1> QED BY <1>4, <1>5

\* A live access token leaves for its age only.
LEMMA EvictsByAge ==
    ASSUME OAuthInv, [OAuthNext]_oauthVars, issued' # issued
    PROVE  \A t \in access \ (access' \cup oldTokens), u \in access' : t < u
<1> SUFFICES ASSUME NEW t \in access \ (access' \cup oldTokens), NEW u \in access'
             PROVE  t < u
  OBVIOUS
<1>1. /\ issued \in Seq(Token) /\ Len(issued) \in Nat /\ DOMAIN issued = 1 .. Len(issued)
      /\ access \in SUBSET (1 .. Len(issued))
  BY LenProperties DEF OAuthInv, OAuthTypeOK
<1>2. ASSUME NEW k \in Codes, NEW c \in OClients, NEW v \in Verifiers \cup {NoVerifier},
             Exchange(k, c, v)
      PROVE  FALSE
  <2>1. PICK full : LiveTokens(access, full) \subseteq access'
    BY <1>2 DEF Exchange
  <2>2. t \in LiveTokens(access, full)
    BY DEF LiveTokens
  <2> QED BY <2>1, <2>2
<1>3. ASSUME NEW p \in DOMAIN issued, NEW c \in OClients, Refresh(p, c)
      PROVE  t < u
  <2> DEFINE alive == LiveTokens(access, Cardinality(access) > TokenCap)
  <2>1. access' = Trimmed(access) \cup {Len(issued) + 1}
    BY <1>3 DEF Refresh
  <2>2. t \in alive /\ t \notin Trimmed(access)
    BY <2>1 DEF LiveTokens
  <2>3. alive \in SUBSET (1 .. Len(issued))
    BY <1>1 DEF LiveTokens
  <2>4. CASE u = Len(issued) + 1
    BY <1>1, <2>4
  <2>5. CASE u \in Trimmed(access)
    <3> HIDE DEF alive
    <3>1. Trimmed(access) = Newest(alive, TokensKept)
      BY <2>2 DEF Trimmed, alive
    <3>2. Trimmed(access) = {v \in alive : Cardinality({w \in alive : w > v}) < TokensKept}
      BY <3>1 DEF Newest
    <3>3. TokensKept \in Nat
      BY OAuthAssumption
    <3>4. \A v \in alive \ Trimmed(access), w \in Trimmed(access) : v < w
      BY ZenonT(60), <1>1, <2>3, <3>2, <3>3, KeptAreNewer
    <3> QED BY <2>2, <2>5, <3>4
  <2> QED BY <2>1, <2>4, <2>5
<1>4. \/ \E k \in Codes, c \in OClients, v \in Verifiers \cup {NoVerifier} : Exchange(k, c, v)
      \/ \E p \in DOMAIN issued, c \in OClients : Refresh(p, c)
  BY DEF OAuthNext, oauthVars, Register, Authorize, ExchangeExpired, RefreshExpired,
         Revoke, ExpireToken, ExpireCode, Reboot
<1> QED BY <1>2, <1>3, <1>4

\* A code buys once and what was granted, an access token is accepted until it
\* expires and no other is, except that a restart ends all when AUTH_SECRET_KEY is
\* not set; a dead refresh token buys nothing, and access tokens
\* leave the dict by their age (oauth.py).
THEOREM GrantsStayKept == OAuthSpec => GrantsHold
<1>1. OAuthInit => OAuthInv
  BY OAuthInitially
<1>2. OAuthInv /\ [OAuthNext]_oauthVars => OAuthInv'
  BY OAuthNextKeeps
<1>3. OAuthInv =>
        OAuthTypeOK /\ CodeBuysOnce /\ TokensKeepToTheirGrant /\ OnlyTimeEndsAccess
  BY MemoryNeverDecides DEF OAuthInv
<1>4. OAuthInv /\ [OAuthNext]_oauthVars =>
        [\A t \in DOMAIN issued' \ DOMAIN issued :
             issued'[t].parent \notin revoked \cup oldTokens
             /\ (issued'[t].parent # 0 => issued'[t].parent \in refresh)]_oauthVars
  BY DeadTokensBuyNothing
<1>5. OAuthInv /\ [OAuthNext]_oauthVars =>
        [issued' # issued =>
             \A t \in access \ (access' \cup oldTokens), u \in access' : t < u]_oauthVars
  BY EvictsByAge
<1> QED BY <1>1, <1>2, <1>3, <1>4, <1>5, PTL
        DEF OAuthSpec, GrantsHold, DeadRefreshBuysNothing, EvictionIsByAge

-----------------------------------------------------------------------------
(* Authentication: API keys.                                                 *)

KeysInv ==
    /\ KeysTypeOK
    /\ withdrawn \subseteq known
    /\ RevokedKeyIsOut
    /\ SessionsWithinCap

\* What create_token keeps is within the cap, and what it drops is out of date
\* or older than all it keeps.
LEMMA KeptSessions ==
    ASSUME KeysTypeOK
    PROVE  /\ Kept(tokens) \subseteq tokens
           /\ IsFiniteSet(Kept(tokens)) /\ Cardinality(Kept(tokens)) <= SessionCap
           /\ \A t \in tokens \ (Kept(tokens) \cup oldSessions), u \in Kept(tokens) : t < u
<1> DEFINE live == tokens \ oldSessions
           n == Len(made)
<1>1. n \in Nat /\ tokens \in SUBSET (1 .. n) /\ live \in SUBSET (1 .. n)
  BY LenProperties DEF KeysTypeOK
<1>2. SessionsKept \in Nat /\ SessionCap \in Nat /\ SessionsKept <= SessionCap
  BY KeysAssumption
<1>3. IsFiniteSet(tokens) /\ IsFiniteSet(live)
  <2>1. IsFiniteSet(1 .. n)
    BY <1>1, FS_Interval
  <2> HIDE DEF live, n
  <2> QED BY <1>1, <2>1, FS_Subset
<1>4. CASE Cardinality(tokens) <= SessionCap
  BY <1>3, <1>4 DEF Kept
<1>5. CASE ~(Cardinality(tokens) <= SessionCap) /\ Cardinality(live) <= SessionCap
  <2>1. Kept(tokens) = live
    BY <1>5 DEF Kept
  <2> QED BY <1>3, <1>5, <2>1
<1>6. CASE ~(Cardinality(tokens) <= SessionCap) /\ ~(Cardinality(live) <= SessionCap)
  <2>1. Kept(tokens) = {t \in live : Cardinality({u \in live : u > t}) < SessionsKept}
    BY <1>6 DEF Kept, NewestSessions
  <2>2. Kept(tokens) \subseteq tokens
    <3>1. live \subseteq tokens
      OBVIOUS
    <3> HIDE DEF live
    <3> QED BY <2>1, <3>1
  <2> HIDE DEF live, n
  <2>3. IsFiniteSet(Kept(tokens)) /\ Cardinality(Kept(tokens)) <= SessionsKept
    BY <1>1, <1>2, <2>1, KeptAreFew
  <2>4. Cardinality(Kept(tokens)) \in Nat
    BY <2>3, FS_CardinalityType
  <2>5. \A t \in live \ Kept(tokens), u \in Kept(tokens) : t < u
    BY ZenonT(60), <1>1, <1>2, <2>1, KeptAreNewer
  <2>6. tokens \ (Kept(tokens) \cup oldSessions) = live \ Kept(tokens)
    BY DEF live
  <2> QED BY <1>2, <2>2, <2>3, <2>4, <2>5, <2>6
<1> QED BY <1>4, <1>5, <1>6

LEMMA KeysInitially == KeysInit => KeysInv
<1> SUFFICES ASSUME KeysInit PROVE KeysInv
  OBVIOUS
<1>1. made \in Seq(Keys) /\ Cardinality({}) = 0
  BY EmptySeq, FS_EmptySet DEF KeysInit
<1> QED BY <1>1, KeysAssumption
        DEF KeysInit, KeysInv, KeysTypeOK, RevokedKeyIsOut, SessionsWithinCap

LEMMA KeysNextKeeps == KeysInv /\ [KeysNext]_keysVars => KeysInv'
<1> SUFFICES ASSUME KeysInv, [KeysNext]_keysVars PROVE KeysInv'
  OBVIOUS
<1>1. /\ KeysTypeOK /\ withdrawn \subseteq known /\ RevokedKeyIsOut /\ SessionsWithinCap
      /\ active \subseteq known /\ known \subseteq Keys /\ oldKeys \subseteq Keys
      /\ made \in Seq(Keys) /\ tokens \cup oldSessions \subseteq DOMAIN made
      /\ withdrawn \subseteq Keys /\ starts \in 0 .. MaxStarts
  BY DEF KeysInv, KeysTypeOK
<1>2. /\ Len(made) \in Nat /\ DOMAIN made = 1 .. Len(made)
      /\ SessionCap \in Nat /\ Configured \subseteq Keys
  BY <1>1, LenProperties, KeysAssumption
<1>3. IsFiniteSet(tokens) /\ Cardinality(tokens) \in Nat
  <2>1. IsFiniteSet(1 .. Len(made))
    BY <1>2, FS_Interval
  <2> QED BY <1>1, <1>2, <2>1, FS_Subset, FS_CardinalityType
\* A step that makes no session token and lets none back in.
<1>4. ASSUME made' = made, tokens' \subseteq tokens,
             active' \subseteq known', known' \subseteq Keys, oldKeys' \subseteq Keys,
             oldSessions' \subseteq DOMAIN made, withdrawn' \subseteq known',
             starts' \in 0 .. MaxStarts, RevokedKeyIsOut'
      PROVE  KeysInv'
  <2>1. KeysTypeOK'
    BY <1>1, <1>4 DEF KeysTypeOK
  <2>2. Cardinality(tokens') <= Cardinality(tokens) /\ Cardinality(tokens') \in Nat
    BY <1>3, <1>4, FS_Subset, FS_CardinalityType
  <2>3. SessionsWithinCap'
    BY <1>1, <1>2, <1>3, <2>2 DEF SessionsWithinCap
  <2> QED BY <1>4, <2>1, <2>3 DEF KeysInv
<1>5. ASSUME made' = made, tokens' \subseteq tokens, withdrawn' = withdrawn,
             active' = active, oldKeys \subseteq oldKeys'
      PROVE  RevokedKeyIsOut'
  BY <1>1, <1>5 DEF RevokedKeyIsOut, ValidKey
<1>6. ASSUME NEW k \in Keys, CreateKey(k)
      PROVE  KeysInv'
  <2>1. RevokedKeyIsOut'
    BY <1>1, <1>6 DEF CreateKey, RevokedKeyIsOut, ValidKey
  <2> QED BY <1>1, <1>4, <1>6, <2>1 DEF CreateKey
<1>7. ASSUME NEW k \in Keys, CreateToken(k)
      PROVE  KeysInv'
  <2>1. /\ ValidKey(k) /\ made' = Append(made, k)
        /\ tokens' = Kept(tokens) \cup {Len(made) + 1}
        /\ UNCHANGED <<known, active, oldKeys, oldSessions, withdrawn, starts>>
    BY <1>7 DEF CreateToken
  <2>2. /\ Kept(tokens) \subseteq tokens
        /\ IsFiniteSet(Kept(tokens)) /\ Cardinality(Kept(tokens)) <= SessionCap
    BY <1>1, KeptSessions
  <2>3. /\ made' \in Seq(Keys) /\ DOMAIN made' = 1 .. Len(made) + 1
        /\ made'[Len(made) + 1] = k /\ \A t \in DOMAIN made : made'[t] = made[t]
    BY <1>1, <1>2, <2>1, AppendProperties, LenProperties
  <2>4. KeysTypeOK'
    BY <1>1, <1>2, <2>1, <2>2, <2>3 DEF KeysTypeOK
  <2>5. RevokedKeyIsOut'
    BY <1>1, <2>1, <2>2, <2>3 DEF RevokedKeyIsOut, ValidKey
  <2>6. SessionsWithinCap'
    <3>1. /\ Cardinality(Kept(tokens)) \in Nat
          /\ Cardinality(tokens') =
               IF Len(made) + 1 \in Kept(tokens) THEN Cardinality(Kept(tokens))
               ELSE Cardinality(Kept(tokens)) + 1
      BY <2>1, <2>2, FS_AddElement, FS_CardinalityType
    <3> QED BY <1>2, <2>2, <3>1 DEF SessionsWithinCap
  <2> QED BY <1>1, <2>1, <2>4, <2>5, <2>6 DEF KeysInv
<1>8. ASSUME NEW k \in Keys, RevokeKey(k)
      PROVE  KeysInv'
  <2>1. RevokedKeyIsOut'
    BY <1>1, <1>8 DEF RevokeKey, SessionsOf, RevokedKeyIsOut, ValidKey
  <2> QED BY <1>1, <1>4, <1>8, <2>1 DEF RevokeKey
<1>9. ASSUME NEW k \in known, ExpireKey(k)
      PROVE  KeysInv'
  BY <1>1, <1>4, <1>5, <1>9 DEF ExpireKey
<1>10. ASSUME NEW t \in DOMAIN made,
              PresentExpired(t) \/ RevokeSession(t) \/ ExpireSession(t)
       PROVE  KeysInv'
  BY <1>1, <1>4, <1>5, <1>10 DEF PresentExpired, RevokeSession, ExpireSession
<1>11. ASSUME Stats
       PROVE  KeysInv'
  BY <1>1, <1>4, <1>5, <1>11 DEF Stats
<1>12. ASSUME RestartServer
       PROVE  KeysInv'
  <2>1. RevokedKeyIsOut' /\ starts' \in 0 .. MaxStarts
    BY <1>1, <1>12, KeysAssumption DEF RestartServer, RevokedKeyIsOut
  <2> QED BY <1>1, <1>2, <1>4, <1>12, <2>1 DEF RestartServer, ActiveAtStart
<1>13. CASE UNCHANGED keysVars
  BY <1>1, <1>4, <1>5, <1>13 DEF keysVars
<1> QED BY <1>6, <1>7, <1>8, <1>9, <1>10, <1>11, <1>12, <1>13 DEF KeysNext

\* A session token that leaves when another is made leaves for its age.
LEMMA SessionsLeave ==
    ASSUME KeysInv, [KeysNext]_keysVars, made' # made
    PROVE  \A t \in tokens \ (tokens' \cup oldSessions), u \in tokens' : t < u
<1>1. PICK k \in Keys : CreateToken(k)
  BY DEF KeysNext, keysVars, CreateKey, RevokeKey, ExpireKey, PresentExpired, RevokeSession,
         ExpireSession, Stats, RestartServer
<1>2. tokens' = Kept(tokens) \cup {Len(made) + 1}
  BY <1>1 DEF CreateToken
<1>3. KeysTypeOK
  BY DEF KeysInv
<1>4. Len(made) \in Nat /\ tokens \subseteq 1 .. Len(made)
  BY <1>3, LenProperties DEF KeysTypeOK
<1> SUFFICES ASSUME NEW t \in tokens \ (tokens' \cup oldSessions), NEW u \in tokens'
             PROVE  t < u
  OBVIOUS
<1>5. CASE u \in Kept(tokens)
  BY <1>2, <1>3, <1>5, KeptSessions
<1>6. CASE u = Len(made) + 1
  BY <1>4, <1>6
<1> QED BY <1>2, <1>5, <1>6

\* A revoked key is out with every session made from it until a restart, the
\* session tokens keep to their cap, and one leaves for its age (auth.py).
THEOREM KeysStaySound == KeysSpec => KeysHold
<1>1. KeysInit => KeysInv
  BY KeysInitially
<1>2. KeysInv /\ [KeysNext]_keysVars => KeysInv'
  BY KeysNextKeeps
<1>3. KeysInv => KeysTypeOK /\ RevokedKeyIsOut /\ SessionsWithinCap
  BY DEF KeysInv
<1>4. KeysInv /\ [KeysNext]_keysVars =>
        [made' # made =>
             \A t \in tokens \ (tokens' \cup oldSessions), u \in tokens' : t < u]_keysVars
  BY SessionsLeave
<1> QED BY <1>1, <1>2, <1>3, <1>4, PTL DEF KeysSpec, KeysHold, SessionsLeaveByAge

\* Both ways in hold what they promise, side by side.
THEOREM AccessStaysGuarded == OAuthSpec /\ KeysSpec => AccessHolds
BY GrantsStayKept, KeysStaySound DEF AccessHolds

-----------------------------------------------------------------------------
(* Sessions and transport.                                                 *)

Points == Midway \cup {"new", "ready", "opened", "stream", "done"}

\* The connections the gauge should count, and the sessions being made.
Connected(r) ==
    \/ asking[r].path = "mcp" /\ point[r] \notin {"new", "done"}
    \/ asking[r].path = "sse" /\ point[r] \in {"opened", "stream"}
Connections == {r \in Reqs : Connected(r)}
Making == {r \in Reqs : point[r] = "create"}

\* The methods of the dict do not suspend.
OneIsMidway ==
    backend = "memory" =>
        \A q, r \in Reqs : point[q] \in Midway /\ point[r] \in Midway => q = r

\* What a request holds between finding a session and storing it again.
NamesAreMade ==
    \A r \in Reqs :
        point[r] \in {"lookup", "drop", "touch"} => asking[r].sid \in 1 .. sessionsMade
FoundIsStored ==
    backend = "memory" =>
        \A r \in Reqs : point[r] \in {"drop", "touch"} => asking[r].sid \in stored
TouchIsEarned ==
    \A r \in Reqs : point[r] = "touch" => asking[r].young \/ asking[r].path = "sse"

NoStreamCloses ==
    \A r \in Reqs : /\ asking[r].path = "close" => asking[r].wants = "call"
                    /\ point[r] \in {"opened", "stream"} => asking[r].wants = "stream"
RoomIsKept == sessionsMade + Cardinality(Making) <= MaxMade

TransportInv ==
    /\ TransportTypeOK
    /\ gauge = unstarted + Cardinality(Connections)
    /\ ClosedStaysClosed
    /\ OneIsMidway /\ NamesAreMade /\ FoundIsStored /\ TouchIsEarned
    /\ NoStreamCloses /\ RoomIsKept

\* A step of one request: what the others are at and work with stays.
StepOf(r) ==
    /\ point' \in [Reqs -> Points] /\ asking' \in [Reqs -> Request]
    /\ \A q \in Reqs \ {r} : point'[q] = point[q] /\ asking'[q] = asking[q]

\* Two sets of requests that differ in one of them at most.
LEMMA DifferAtOne ==
  ASSUME NEW S \in SUBSET Reqs, NEW T \in SUBSET Reqs, NEW r \in Reqs,
         S \ {r} = T \ {r}
  PROVE  /\ Cardinality(S) \in Nat /\ Cardinality(T) \in Nat
         /\ r \in S /\ r \notin T => Cardinality(S) = Cardinality(T) + 1
         /\ r \notin S /\ r \in T => Cardinality(T) = Cardinality(S) + 1
         /\ (r \in S <=> r \in T) => Cardinality(S) = Cardinality(T)
<1>1. IsFiniteSet(Reqs)
  BY FS_Interval, TransportAssumption DEF Reqs
<1>2. IsFiniteSet(S) /\ IsFiniteSet(T)
  BY <1>1, FS_Subset
<1>3. Cardinality(S) \in Nat /\ Cardinality(T) \in Nat
  BY <1>2, FS_CardinalityType
<1>4. ASSUME r \in S, r \notin T PROVE Cardinality(S) = Cardinality(T) + 1
  <2>1. S = T \cup {r}
    BY <1>4
  <2> QED BY <1>2, <1>4, <2>1, FS_AddElement
<1>5. ASSUME r \notin S, r \in T PROVE Cardinality(T) = Cardinality(S) + 1
  <2>1. T = S \cup {r}
    BY <1>5
  <2> QED BY <1>2, <1>5, <2>1, FS_AddElement
<1>6. ASSUME r \in S <=> r \in T PROVE S = T
  BY <1>6
<1> QED BY <1>3, <1>4, <1>5, <1>6

\* What a step of one request does to the two counts.
LEMMA CountsFollow ==
  ASSUME NEW r \in Reqs, StepOf(r)
  PROVE  /\ Cardinality(Connections) \in Nat /\ Cardinality(Making) \in Nat
         /\ Cardinality(Connections)' \in Nat /\ Cardinality(Making)' \in Nat
         /\ Connected(r)' /\ ~Connected(r) =>
              Cardinality(Connections)' = Cardinality(Connections) + 1
         /\ ~Connected(r)' /\ Connected(r) =>
              Cardinality(Connections) = Cardinality(Connections)' + 1
         /\ (Connected(r)' <=> Connected(r)) =>
              Cardinality(Connections)' = Cardinality(Connections)
         /\ point'[r] = "create" /\ point[r] # "create" =>
              Cardinality(Making)' = Cardinality(Making) + 1
         /\ point'[r] # "create" /\ point[r] = "create" =>
              Cardinality(Making) = Cardinality(Making)' + 1
         /\ (point'[r] = "create" <=> point[r] = "create") =>
              Cardinality(Making)' = Cardinality(Making)
<1>1. /\ Connections \subseteq Reqs /\ Making \subseteq Reqs
      /\ Connections' \subseteq Reqs /\ Making' \subseteq Reqs
  BY DEF Connections, Making
<1>2. \A q \in Reqs \ {r} : Connected(q)' <=> Connected(q)
  BY DEF StepOf, Connected
<1>3. Connections' \ {r} = Connections \ {r}
  BY <1>2 DEF Connections
<1>4. Making' \ {r} = Making \ {r}
  BY DEF Making, StepOf
<1>5. /\ r \in Connections <=> Connected(r)
      /\ r \in Connections' <=> Connected(r)'
      /\ r \in Making <=> point[r] = "create"
      /\ r \in Making' <=> point'[r] = "create"
  BY DEF Connections, Making
<1>6. /\ Cardinality(Connections) \in Nat /\ Cardinality(Connections') \in Nat
      /\ r \in Connections' /\ r \notin Connections =>
              Cardinality(Connections') = Cardinality(Connections) + 1
      /\ r \notin Connections' /\ r \in Connections =>
              Cardinality(Connections) = Cardinality(Connections') + 1
      /\ (r \in Connections' <=> r \in Connections) =>
              Cardinality(Connections') = Cardinality(Connections)
  BY <1>1, <1>3, DifferAtOne
<1>7. /\ Cardinality(Making) \in Nat /\ Cardinality(Making') \in Nat
      /\ r \in Making' /\ r \notin Making =>
              Cardinality(Making') = Cardinality(Making) + 1
      /\ r \notin Making' /\ r \in Making =>
              Cardinality(Making) = Cardinality(Making') + 1
      /\ (r \in Making' <=> r \in Making) =>
              Cardinality(Making') = Cardinality(Making)
  BY <1>1, <1>4, DifferAtOne
<1> QED BY <1>5, <1>6, <1>7

\* Nothing is counted, and no request under way, once the process is another.
LEMMA StartOverKeeps ==
  ASSUME TransportInv, StartOver, stored' \subseteq stored, idle' \subseteq stored',
         idle' \subseteq idle
  PROVE  TransportInv'
<1>1. /\ \A r \in Reqs : point'[r] \in {"new", "done"} /\ asking'[r] = Over
      /\ gauge' = 0 /\ unstarted' = 0
      /\ backend' = backend /\ sessionsMade' = sessionsMade /\ closed' = closed
  BY DEF StartOver
<1>2. Over \in Request
  BY TransportAssumption DEF Over, Request, Sids
<1>3. TransportTypeOK'
  BY <1>1, <1>2 DEF StartOver, TransportInv, TransportTypeOK
<1>4. Connections' = {} /\ Making' = {}
  BY <1>1 DEF Connections, Connected, Making, Over
<1>5. Cardinality(Connections)' = 0 /\ Cardinality(Making)' = 0
  BY <1>4, FS_EmptySet
<1>6. RoomIsKept'
  BY <1>1, <1>5, TransportAssumption
     DEF RoomIsKept, TransportInv, TransportTypeOK, Sids
<1>7. ClosedStaysClosed'
  BY <1>1 DEF TransportInv, ClosedStaysClosed
<1>8. OneIsMidway' /\ NamesAreMade' /\ FoundIsStored' /\ TouchIsEarned' /\ NoStreamCloses'
  BY <1>1 DEF OneIsMidway, NamesAreMade, FoundIsStored, TouchIsEarned, NoStreamCloses,
              Midway, Over
<1> QED BY <1>1, <1>3, <1>5, <1>6, <1>7, <1>8 DEF TransportInv

\* What a step does to the sessions while every request stays where it is.
LEMMA SessionsAlone ==
  ASSUME TransportInv,
         UNCHANGED <<backend, sessionsMade, closed, point, asking, gauge, unstarted>>,
         stored' \subseteq stored, idle' \subseteq stored',
         \/ stored' = stored \/ backend = "redis"
         \/ \A q \in Reqs : point[q] \notin Midway
  PROVE  TransportInv'
<1>1. TransportTypeOK'
  BY DEF TransportInv, TransportTypeOK
<1>2. Connections' = Connections /\ Making' = Making
  BY DEF Connections, Connected, Making
<1>3. ClosedStaysClosed' /\ OneIsMidway' /\ NamesAreMade' /\ TouchIsEarned' /\ NoStreamCloses'
  BY DEF TransportInv, ClosedStaysClosed, OneIsMidway, NamesAreMade, TouchIsEarned,
         NoStreamCloses
<1>4. FoundIsStored'
  BY DEF TransportInv, FoundIsStored, Midway
<1>5. RoomIsKept' /\ (gauge = unstarted + Cardinality(Connections))'
  BY <1>2 DEF TransportInv, RoomIsKept
<1> QED BY <1>1, <1>3, <1>4, <1>5 DEF TransportInv

\* A request that has its answer: its connection is taken off.
LEMMA LeaveKeeps ==
  ASSUME TransportInv, NEW r \in Reqs, Leave(r), point[r] \notin {"new", "opened", "stream", "done"},
         UNCHANGED <<backend, sessionsMade>>,
         stored' \subseteq stored, idle' \subseteq stored',
         closed' \subseteq 1 .. sessionsMade,
         backend = "memory" => closed' \cap stored' = {},
         \/ UNCHANGED stored \/ backend = "redis"
         \/ \A q \in Reqs \ {r} : point[q] \notin Midway
  PROVE  TransportInv'
<1>0. /\ point \in [Reqs -> Points] /\ asking \in [Reqs -> Request]
      /\ gauge = unstarted + Cardinality(Connections)
      /\ gauge \in Nat /\ unstarted \in Nat
      /\ sessionsMade \in Sids /\ RoomIsKept
  BY DEF TransportInv, TransportTypeOK, Points
<1>1. /\ point'[r] = "done" /\ asking'[r] = Over /\ Over \in Request
      /\ unstarted' = unstarted
  BY <1>0, TransportAssumption DEF Leave, MoveTo, Over, Request, Sids
<1>2. StepOf(r)
  BY <1>0, <1>1 DEF Leave, MoveTo, StepOf, Points
<1>3. Connected(r) <=> asking[r].path = "mcp"
  BY DEF Connected
<1>4. ~Connected(r)'
  BY <1>1 DEF Connected, Over
<1>5. gauge' \in Nat /\ gauge' = unstarted' + Cardinality(Connections)'
  <2>1. CASE asking[r].path = "mcp"
    <3>1. Cardinality(Connections) = Cardinality(Connections)' + 1
          /\ Cardinality(Connections)' \in Nat
      BY <1>2, <1>3, <1>4, <2>1, CountsFollow
    <3>2. gauge' = gauge - 1
      BY <2>1 DEF Leave
    <3> QED BY <1>0, <1>1, <3>1, <3>2
  <2>2. CASE asking[r].path # "mcp"
    <3>1. Cardinality(Connections)' = Cardinality(Connections)
      BY <1>2, <1>3, <1>4, <2>2, CountsFollow
    <3>2. gauge' = gauge
      BY <2>2 DEF Leave
    <3> QED BY <1>0, <1>1, <3>1, <3>2
  <2> QED BY <2>1, <2>2
<1>6. RoomIsKept'
  <2>1. /\ Cardinality(Making) \in Nat /\ Cardinality(Making)' \in Nat
        /\ Cardinality(Making)' <= Cardinality(Making)
    BY <1>1, <1>2, CountsFollow
  <2> QED BY <1>0, <2>1, TransportAssumption DEF RoomIsKept, Sids
<1>7. TransportTypeOK'
  BY <1>1, <1>2, <1>5 DEF TransportInv, TransportTypeOK, StepOf, Points
<1>8. ClosedStaysClosed'
  BY DEF TransportInv, ClosedStaysClosed
<1>9. OneIsMidway' /\ NamesAreMade' /\ TouchIsEarned' /\ NoStreamCloses'
  BY <1>1, <1>2 DEF TransportInv, StepOf, OneIsMidway, NamesAreMade, TouchIsEarned,
                    NoStreamCloses, Midway, Over
<1>10. FoundIsStored'
  BY <1>1, <1>2 DEF TransportInv, StepOf, FoundIsStored, Midway
<1> QED BY <1>5, <1>6, <1>7, <1>8, <1>9, <1>10 DEF TransportInv

LEMMA TransportTyped ==
  ASSUME TransportInv
  PROVE  /\ point \in [Reqs -> Points] /\ asking \in [Reqs -> Request]
         /\ gauge = unstarted + Cardinality(Connections)
         /\ gauge \in Nat /\ unstarted \in Nat /\ MaxMade \in Nat
         /\ sessionsMade \in Nat /\ sessionsMade <= MaxMade /\ Sids = 0 .. MaxMade
         /\ idle \subseteq stored /\ stored \subseteq 1 .. sessionsMade
         /\ closed \subseteq 1 .. sessionsMade
BY TransportAssumption DEF TransportInv, TransportTypeOK, Points, Sids

LEMMA ArriveKeeps ==
  ASSUME TransportInv, NEW r \in Reqs, NEW asked \in Asked, Arrive(r, asked)
  PROVE  TransportInv'
<1>0. /\ point \in [Reqs -> Points] /\ asking \in [Reqs -> Request]
      /\ gauge = unstarted + Cardinality(Connections)
      /\ gauge \in Nat /\ unstarted \in Nat /\ MaxMade \in Nat
      /\ sessionsMade \in Nat /\ sessionsMade <= MaxMade /\ Sids = 0 .. MaxMade
  BY TransportTyped
<1>1. /\ asked \in Request
      /\ asked.path = "close" => asked.wants = "call"
  <2>2. CASE \E w \in {"call", "stream"}, s \in Sids :
               asked = [path |-> "mcp", wants |-> w, sid |-> s, young |-> TRUE]
    BY <2>2 DEF Request
  <2>3. CASE \E s \in Sids :
               asked = [path |-> "sse", wants |-> "stream", sid |-> s, young |-> TRUE]
    BY <2>3 DEF Request
  <2>4. CASE \E s \in Sids :
               asked = [path |-> "close", wants |-> "call", sid |-> s, young |-> TRUE]
    BY <2>4 DEF Request
  <2> QED BY <2>2, <2>3, <2>4 DEF Asked
<1>2. /\ Turn(r) /\ point[r] = "new"
      /\ point'[r] = IF asked.sid = 0 THEN "create" ELSE "lookup"
      /\ asking'[r] = asked
      /\ unstarted' = unstarted /\ UNCHANGED sessionVars
  BY <1>0 DEF Arrive, MoveTo
<1>3. StepOf(r)
  BY <1>0, <1>1, <1>2 DEF Arrive, MoveTo, StepOf, Points, Midway
<1>4. ~Connected(r) /\ (Connected(r)' <=> asked.path = "mcp")
  BY <1>2 DEF Connected
<1>5. gauge' \in Nat /\ gauge' = unstarted' + Cardinality(Connections)'
  <2>1. gauge' = IF asked.path = "mcp" THEN gauge + 1 ELSE gauge
    BY DEF Arrive, CountsOnArrival
  <2>2. /\ Cardinality(Connections) \in Nat
        /\ Cardinality(Connections)' = IF asked.path = "mcp" THEN Cardinality(Connections) + 1
                                       ELSE Cardinality(Connections)
    BY <1>3, <1>4, CountsFollow
  <2> QED BY <1>0, <1>2, <2>1, <2>2
<1>6. RoomIsKept'
  <2>1. CASE asked.sid = 0
    <3>1. sessionsMade + Cardinality(Making) < MaxMade
      BY <2>1 DEF Arrive, MayCreate, Making
    <3>2. /\ Cardinality(Making) \in Nat
          /\ Cardinality(Making)' = Cardinality(Making) + 1
      BY <1>2, <1>3, <2>1, CountsFollow
    <3> QED BY <1>0, <1>2, <3>1, <3>2 DEF RoomIsKept, sessionVars
  <2>2. CASE asked.sid # 0
    <3>1. Cardinality(Making)' = Cardinality(Making)
      BY <1>2, <1>3, <2>2, CountsFollow
    <3> QED BY <1>2, <3>1 DEF TransportInv, RoomIsKept, sessionVars
  <2> QED BY <2>1, <2>2
<1>7. TransportTypeOK'
  BY <1>2, <1>3, <1>5 DEF TransportInv, TransportTypeOK, StepOf, Points, sessionVars
<1>8. ClosedStaysClosed'
  BY <1>2 DEF TransportInv, ClosedStaysClosed, sessionVars
<1>9. OneIsMidway'
  BY <1>2, <1>3 DEF Turn, OneIsMidway, StepOf, sessionVars
<1>10. NamesAreMade'
  <2>1. asked.sid # 0 => asked.sid \in 1 .. sessionsMade
    BY <1>0, <1>1 DEF Arrive, Request
  <2> QED BY <1>2, <1>3, <2>1 DEF TransportInv, NamesAreMade, StepOf, sessionVars
<1>11. FoundIsStored' /\ TouchIsEarned' /\ NoStreamCloses'
  BY <1>1, <1>2, <1>3 DEF TransportInv, FoundIsStored, TouchIsEarned, NoStreamCloses,
                          StepOf, sessionVars
<1> QED BY <1>5, <1>6, <1>7, <1>8, <1>9, <1>10, <1>11 DEF TransportInv

\* A request that is let on: neither its connection nor its wish changes.
LEMMA MoveKeeps ==
  ASSUME TransportInv, NEW r \in Reqs, StepOf(r), Turn(r), point[r] # "create",
         point'[r] \notin {"create", "opened", "stream"}, Connected(r)' <=> Connected(r),
         asking'[r].path = asking[r].path, asking'[r].wants = asking[r].wants,
         point'[r] \in Midway => point[r] \in Midway,
         point'[r] \in {"lookup", "drop", "touch"} => asking'[r].sid \in 1 .. sessionsMade,
         point'[r] \in {"drop", "touch"} /\ backend = "memory" => asking'[r].sid \in stored',
         point'[r] = "touch" => asking'[r].young \/ asking'[r].path = "sse",
         UNCHANGED <<backend, sessionsMade, closed, gauge, unstarted>>,
         stored \subseteq stored', idle' \subseteq stored', stored' \subseteq 1 .. sessionsMade,
         backend = "memory" => stored' = stored
  PROVE  TransportInv'
<1>0. /\ gauge = unstarted + Cardinality(Connections)
      /\ gauge \in Nat /\ unstarted \in Nat
  BY TransportTyped
<1>1. /\ Cardinality(Connections)' = Cardinality(Connections)
      /\ Cardinality(Making)' = Cardinality(Making)
  BY CountsFollow
<1>2. gauge' = unstarted' + Cardinality(Connections)' /\ RoomIsKept'
  BY <1>0, <1>1 DEF TransportInv, RoomIsKept
<1>3. TransportTypeOK'
  BY DEF TransportInv, TransportTypeOK, StepOf, Points
<1>4. ClosedStaysClosed'
  BY DEF TransportInv, ClosedStaysClosed
<1>5. OneIsMidway' /\ NamesAreMade' /\ FoundIsStored'
  BY DEF TransportInv, Turn, OneIsMidway, NamesAreMade, FoundIsStored, StepOf
<1>6. TouchIsEarned' /\ NoStreamCloses'
  BY DEF TransportInv, TouchIsEarned, NoStreamCloses, StepOf
<1> QED BY <1>2, <1>3, <1>4, <1>5, <1>6 DEF TransportInv

LEMMA FoundKeeps ==
  ASSUME TransportInv, NEW r \in Reqs, FoundSession(r)
  PROVE  TransportInv'
<1>0. /\ point \in [Reqs -> Points] /\ asking \in [Reqs -> Request]
      /\ idle \subseteq stored /\ stored \subseteq 1 .. sessionsMade
  BY TransportTyped
<1>1. /\ Turn(r) /\ point[r] = "lookup" /\ asking[r].sid \in stored
      /\ asking' = [asking EXCEPT ![r].young = asking[r].sid \notin idle]
      /\ point'[r] = IF Refused(r) THEN "drop" ELSE "touch"
      /\ UNCHANGED <<backend, sessionsMade, closed, gauge, unstarted, stored, idle>>
      /\ \A q \in Reqs \ {r} : point'[q] = point[q] /\ asking'[q] = asking[q]
      /\ point' \in [Reqs -> Points]
  BY <1>0 DEF FoundSession, MoveTo, sessionVars, Points, Midway
<1>2. /\ asking'[r].path = asking[r].path /\ asking'[r].wants = asking[r].wants
      /\ asking'[r].sid = asking[r].sid /\ asking'[r].young = (asking[r].sid \notin idle)
      /\ asking' \in [Reqs -> Request]
  <2> DEFINE young == asking[r].sid \notin idle
  <2>1. young \in BOOLEAN /\ asking' = [asking EXCEPT ![r].young = young]
    BY <1>1
  <2> HIDE DEF young
  <2>2. /\ asking'[r].path = asking[r].path /\ asking'[r].wants = asking[r].wants
        /\ asking'[r].sid = asking[r].sid /\ asking'[r].young = young
        /\ asking' \in [Reqs -> Request]
    BY <1>0, <2>1 DEF Request
  <2> QED BY <2>2 DEF young
<1>3. StepOf(r)
  BY <1>1, <1>2 DEF StepOf
<1>4. Connected(r)' <=> Connected(r)
  BY <1>1, <1>2 DEF Connected
<1>5. point'[r] = "touch" => asking'[r].young \/ asking'[r].path = "sse"
  BY <1>0, <1>1, <1>2 DEF Refused, Request
<1> QED BY <1>0, <1>1, <1>2, <1>3, <1>4, <1>5, MoveKeeps DEF Midway

LEMMA TouchKeeps ==
  ASSUME TransportInv, NEW r \in Reqs, Touch(r)
  PROVE  TransportInv'
<1>0. /\ point \in [Reqs -> Points] /\ asking \in [Reqs -> Request]
      /\ idle \subseteq stored /\ stored \subseteq 1 .. sessionsMade
  BY TransportTyped
<1>1. /\ Turn(r) /\ point[r] = "touch" /\ point'[r] = "ready"
      /\ UNCHANGED <<backend, sessionsMade, closed, asking, gauge, unstarted>>
      /\ \/ stored' = stored \cup {asking[r].sid} /\ idle' = idle \ {asking[r].sid}
         \/ backend = "redis" /\ UNCHANGED <<stored, idle>>
      /\ \A q \in Reqs \ {r} : point'[q] = point[q]
      /\ point' \in [Reqs -> Points]
  BY <1>0 DEF Touch, MoveTo, Points
<1>2. /\ asking[r].sid \in 1 .. sessionsMade
      /\ backend = "memory" => asking[r].sid \in stored
  BY <1>1 DEF TransportInv, NamesAreMade, FoundIsStored
<1>3. /\ stored \subseteq stored' /\ idle' \subseteq stored' /\ stored' \subseteq 1 .. sessionsMade
      /\ backend = "memory" => stored' = stored
  BY <1>0, <1>1, <1>2
<1>4. StepOf(r)
  BY <1>0, <1>1 DEF StepOf
<1>5. Connected(r)' <=> Connected(r)
  BY <1>1 DEF Connected
<1> QED BY <1>1, <1>3, <1>4, <1>5, MoveKeeps DEF Midway

LEMMA CreateKeeps ==
  ASSUME TransportInv, NEW r \in Reqs, Create(r)
  PROVE  TransportInv'
<1>0. /\ point \in [Reqs -> Points] /\ asking \in [Reqs -> Request]
      /\ gauge = unstarted + Cardinality(Connections)
      /\ gauge \in Nat /\ unstarted \in Nat /\ MaxMade \in Nat
      /\ sessionsMade \in Nat /\ sessionsMade <= MaxMade /\ Sids = 0 .. MaxMade
      /\ idle \subseteq stored /\ stored \subseteq 1 .. sessionsMade
      /\ closed \subseteq 1 .. sessionsMade
  BY TransportTyped
<1> DEFINE n == sessionsMade + 1
<1>1. /\ Turn(r) /\ point[r] = "create" /\ point'[r] = "ready"
      /\ sessionsMade' = n /\ asking' = [asking EXCEPT ![r].sid = n]
      /\ UNCHANGED <<backend, closed, gauge, unstarted>>
      /\ \A q \in Reqs \ {r} : point'[q] = point[q] /\ asking'[q] = asking[q]
      /\ point' \in [Reqs -> Points]
  BY <1>0 DEF Create, MoveTo, Points
<1>2. n <= MaxMade
  <2>1. r \in Making /\ Making \subseteq Reqs
    BY <1>1 DEF Making
  <2>2. Making \ {r} = (Making \ {r}) \ {r} /\ (Making \ {r}) \subseteq Reqs
    BY <2>1
  <2>3. /\ Cardinality(Making) = Cardinality(Making \ {r}) + 1
        /\ Cardinality(Making \ {r}) \in Nat
    BY <2>1, <2>2, DifferAtOne
  <2> QED BY <1>0, <2>3 DEF TransportInv, RoomIsKept
<1>3. /\ asking'[r].path = asking[r].path /\ asking'[r].wants = asking[r].wants
      /\ asking' \in [Reqs -> Request]
  <2>1. n \in Sids
    BY <1>0, <1>2
  <2>2. asking' = [asking EXCEPT ![r].sid = n]
    BY <1>1
  <2>3. asking \in [Reqs -> Request]
    BY <1>0
  <2> HIDE DEF n
  <2> QED BY <2>1, <2>2, <2>3 DEF Request
<1>4. StepOf(r)
  BY <1>1, <1>3 DEF StepOf
<1>5. Connected(r)' <=> Connected(r)
  BY <1>1, <1>3 DEF Connected
<1>6. /\ Cardinality(Connections)' = Cardinality(Connections)
      /\ Cardinality(Making) = Cardinality(Making)' + 1
      /\ Cardinality(Making)' \in Nat
  BY <1>1, <1>4, <1>5, CountsFollow
<1>7. gauge' = unstarted' + Cardinality(Connections)' /\ RoomIsKept'
  BY <1>0, <1>1, <1>6 DEF TransportInv, RoomIsKept
<1>8. /\ stored' \subseteq stored \cup {n} /\ idle' \subseteq stored' /\ idle' \subseteq idle
      /\ stored' \subseteq 1 .. n
  <2>1. \/ stored' = stored \cup {n} /\ idle' = idle
        \/ stored' = (stored \ idle) \cup {n} /\ idle' = {}
        \/ stored' = stored /\ idle' = idle
    BY <1>1 DEF Create
  <2>2. stored' \subseteq stored \cup {n} /\ idle' \subseteq stored' /\ idle' \subseteq idle
    BY <1>0, <2>1
  <2>3. 1 .. sessionsMade \subseteq 1 .. n /\ n \in 1 .. n
    BY <1>0
  <2> QED BY <1>0, <2>2, <2>3
<1>9. TransportTypeOK'
  <2>1. sessionsMade' \in Sids /\ closed' \subseteq 1 .. n
    BY <1>0, <1>1, <1>2
  <2> QED BY <1>0, <1>1, <1>3, <1>8, <2>1 DEF TransportInv, TransportTypeOK, Points
<1>10. ClosedStaysClosed'
  <2>1. n \notin closed
    BY <1>0
  <2> QED BY <1>1, <1>8, <2>1 DEF TransportInv, ClosedStaysClosed
<1>11. OneIsMidway' /\ TouchIsEarned' /\ NoStreamCloses'
  BY <1>1, <1>3 DEF TransportInv, OneIsMidway, TouchIsEarned, NoStreamCloses, Midway
<1>12. FoundIsStored'
  BY <1>1 DEF Turn, FoundIsStored, Midway
<1>13. NamesAreMade'
  <2>1. 1 .. sessionsMade \subseteq 1 .. n
    BY <1>0
  <2> QED BY <1>1, <2>1 DEF TransportInv, NamesAreMade
<1> QED BY <1>7, <1>9, <1>10, <1>11, <1>12, <1>13 DEF TransportInv

\* A stream opens, starts, and ends: before it starts, without a trace.
LEMMA StreamKeeps ==
  ASSUME TransportInv, NEW r \in Reqs,
         OpenStream(r) \/ StartStream(r) \/ LoseStream(r) \/ CloseStream(r)
  PROVE  TransportInv'
<1>0. /\ point \in [Reqs -> Points] /\ asking \in [Reqs -> Request]
      /\ gauge = unstarted + Cardinality(Connections)
      /\ gauge \in Nat /\ unstarted \in Nat
  BY TransportTyped
<1>1. /\ Turn(r) /\ UNCHANGED sessionVars
      /\ point[r] \in {"ready", "opened", "stream"}
      /\ point'[r] \in {"opened", "stream", "done"}
      /\ asking'[r] \in {asking[r], Over}
  BY <1>0 DEF OpenStream, StartStream, LoseStream, CloseStream, MoveTo
<1>2. Over \in Request
  BY TransportAssumption DEF Over, Request, Sids
<1>3. StepOf(r)
  BY <1>0, <1>2 DEF OpenStream, StartStream, LoseStream, CloseStream, MoveTo, StepOf, Points
<1>4. asking[r].path \in {"mcp", "sse", "close"} /\ asking[r].wants \in {"call", "stream"}
  BY <1>0 DEF Request
<1>5. gauge' \in Nat /\ unstarted' \in Nat /\ gauge' = unstarted' + Cardinality(Connections)'
  <2>1. asking[r].wants = "stream" /\ asking[r].path # "close"
    BY <1>0, <1>1, <1>4 DEF TransportInv, NoStreamCloses, OpenStream, StartStream, LoseStream,
                           CloseStream
  <2>2. CASE OpenStream(r)
    <3>1. /\ asking'[r] = asking[r] /\ point[r] = "ready" /\ point'[r] = "opened"
          /\ gauge' = (IF asking[r].path = "sse" THEN gauge + 1 ELSE gauge)
          /\ unstarted' = unstarted
      BY <1>0, <2>2 DEF OpenStream, MoveTo
    <3>2. Connected(r)' /\ (Connected(r) <=> asking[r].path = "mcp")
      BY <1>4, <2>1, <3>1 DEF Connected
    <3>3. CASE asking[r].path = "mcp"
      BY <1>0, <1>3, <3>1, <3>2, <3>3, CountsFollow
    <3>4. CASE asking[r].path = "sse"
      <4>1. /\ Cardinality(Connections)' = Cardinality(Connections) + 1
            /\ Cardinality(Connections) \in Nat
        BY <1>3, <3>2, <3>4, CountsFollow
      <4> QED BY <1>0, <3>1, <3>4, <4>1
    <3> QED BY <1>4, <2>1, <3>3, <3>4
  <2>3. CASE StartStream(r)
    <3>1. /\ asking'[r] = asking[r] /\ point[r] = "opened" /\ point'[r] = "stream"
          /\ gauge' = gauge /\ unstarted' = unstarted
      BY <1>0, <2>3 DEF StartStream, MoveTo
    <3>2. Connected(r)' <=> Connected(r)
      BY <3>1 DEF Connected
    <3> QED BY <1>0, <1>3, <3>1, <3>2, CountsFollow
  <2>4. CASE LoseStream(r) \/ CloseStream(r)
    <3>1. /\ asking'[r] = Over /\ point[r] \in {"opened", "stream"} /\ point'[r] = "done"
          /\ \/ gauge' = gauge /\ unstarted' = unstarted + 1
             \/ gauge' = gauge - 1 /\ unstarted' = unstarted
      BY <1>0, <2>4 DEF LoseStream, CloseStream, MoveTo
    <3>2. Connected(r) /\ ~Connected(r)'
      BY <1>4, <2>1, <3>1 DEF Connected
    <3>3. /\ Cardinality(Connections) = Cardinality(Connections)' + 1
          /\ Cardinality(Connections)' \in Nat
      BY <1>3, <3>2, CountsFollow
    <3> QED BY <1>0, <3>1, <3>3
  <2> QED BY <2>2, <2>3, <2>4
<1>6. RoomIsKept'
  <2>1. Cardinality(Making)' = Cardinality(Making)
    BY <1>1, <1>3, CountsFollow
  <2> QED BY <1>1, <2>1 DEF TransportInv, RoomIsKept, sessionVars
<1>7. TransportTypeOK'
  BY <1>1, <1>3, <1>5 DEF TransportInv, TransportTypeOK, StepOf, Points, sessionVars
<1>8. ClosedStaysClosed' /\ OneIsMidway' /\ FoundIsStored'
  BY <1>1, <1>3 DEF TransportInv, ClosedStaysClosed, OneIsMidway, FoundIsStored, StepOf,
                    Midway, sessionVars
<1>9. NamesAreMade' /\ TouchIsEarned'
  BY <1>1, <1>3 DEF TransportInv, NamesAreMade, TouchIsEarned, StepOf, sessionVars
<1>10. NoStreamCloses'
  <2>1. \/ asking'[r] = asking[r] /\ asking[r].wants = "stream"
        \/ asking'[r] = Over /\ point'[r] = "done"
    BY <1>0, <1>1 DEF TransportInv, NoStreamCloses, OpenStream, StartStream, LoseStream,
                      CloseStream, MoveTo
  <2> QED BY <1>3, <2>1 DEF TransportInv, NoStreamCloses, StepOf, Over
<1> QED BY <1>5, <1>6, <1>7, <1>8, <1>9, <1>10 DEF TransportInv

LEMMA DropKeeps ==
  ASSUME TransportInv, NEW r \in Reqs, Drop(r)
  PROVE  TransportInv'
<1>0. /\ idle \subseteq stored /\ stored \subseteq 1 .. sessionsMade
      /\ closed \subseteq 1 .. sessionsMade
  BY TransportTyped
<1>1. /\ Turn(r) /\ point[r] = "drop" /\ Leave(r)
      /\ UNCHANGED <<backend, sessionsMade>>
      /\ \/ stored' = stored \ {asking[r].sid} /\ idle' = idle \ {asking[r].sid}
         \/ backend = "redis" /\ UNCHANGED <<stored, idle>>
      /\ \/ closed' = closed \cup {asking[r].sid}
         \/ closed' = closed
  BY DEF Drop
<1>2. asking[r].sid \in 1 .. sessionsMade
  BY <1>1 DEF TransportInv, NamesAreMade
<1>3. stored' \subseteq stored /\ idle' \subseteq stored' /\ closed' \subseteq 1 .. sessionsMade
  BY <1>0, <1>1, <1>2
<1>4. backend = "memory" => closed' \cap stored' = {}
  BY <1>1 DEF TransportInv, ClosedStaysClosed
<1>5. \/ backend = "redis"
      \/ \A q \in Reqs \ {r} : point[q] \notin Midway
  <2>1. backend \in {"memory", "redis"}
    BY TransportAssumption DEF TransportInv, TransportTypeOK
  <2> QED BY <1>1, <2>1 DEF Turn
<1> QED BY <1>1, <1>3, <1>4, <1>5, LeaveKeeps

LEMMA AnswerKeeps ==
  ASSUME TransportInv, NEW r \in Reqs, NotFound(r) \/ AnswerRequest(r)
  PROVE  TransportInv'
<1>1. /\ point[r] \in {"lookup", "ready"} /\ Leave(r) /\ UNCHANGED sessionVars
  BY DEF NotFound, AnswerRequest
<1>2. /\ idle \subseteq stored /\ stored \subseteq 1 .. sessionsMade
      /\ closed \subseteq 1 .. sessionsMade
  BY TransportTyped
<1>3. backend = "memory" => closed' \cap stored' = {}
  BY <1>1 DEF TransportInv, ClosedStaysClosed, sessionVars
<1> QED BY <1>1, <1>2, <1>3, LeaveKeeps DEF sessionVars

LEMMA TransportInitHolds == TransportInit => TransportInv
<1> SUFFICES ASSUME TransportInit PROVE TransportInv
  OBVIOUS
<1>1. Over \in Request /\ 0 \in Sids
  BY TransportAssumption DEF Over, Request, Sids
<1>2. /\ point = [r \in Reqs |-> "new"] /\ asking = [r \in Reqs |-> Over]
      /\ sessionsMade = 0 /\ gauge = 0 /\ unstarted = 0
      /\ stored = {} /\ idle = {} /\ closed = {} /\ backend \in Backends
  BY DEF TransportInit
<1>3. TransportTypeOK
  BY <1>1, <1>2 DEF TransportTypeOK
<1>4. Connections = {} /\ Making = {}
  BY <1>2 DEF Connections, Connected, Making
<1>5. Cardinality(Connections) = 0 /\ Cardinality(Making) = 0
  BY <1>4, FS_EmptySet
<1>6. RoomIsKept
  BY <1>2, <1>5, TransportAssumption DEF RoomIsKept
<1>7. /\ ClosedStaysClosed /\ OneIsMidway /\ NamesAreMade /\ FoundIsStored
      /\ TouchIsEarned /\ NoStreamCloses
  BY <1>2 DEF ClosedStaysClosed, OneIsMidway, NamesAreMade, FoundIsStored, TouchIsEarned,
              NoStreamCloses, Midway, Over
<1> QED BY <1>2, <1>3, <1>5, <1>6, <1>7 DEF TransportInv

LEMMA TransportNextKeeps == TransportInv /\ [TransportNext]_transportVars => TransportInv'
<1> SUFFICES ASSUME TransportInv, [TransportNext]_transportVars PROVE TransportInv'
  OBVIOUS
<1>0. idle \subseteq stored
  BY TransportTyped
<1>1. ASSUME NEW r \in Reqs, RequestStep(r) \/ CloseStream(r) PROVE TransportInv'
  BY <1>1, AnswerKeeps, FoundKeeps, DropKeeps, TouchKeeps, CreateKeeps, StreamKeeps
     DEF RequestStep
<1>2. ASSUME NEW s \in stored, Age(s) PROVE TransportInv'
  BY <1>0, <1>2, SessionsAlone DEF Age
<1>3. ASSUME NEW s \in stored, Lapse(s) PROVE TransportInv'
  BY <1>0, <1>3, SessionsAlone DEF Lapse
<1>4. CASE Sweep
  BY <1>4, SessionsAlone DEF Sweep
<1>5. CASE Shutdown \/ Crash
  BY <1>0, <1>5, StartOverKeeps DEF Shutdown, Crash
<1>6. CASE UNCHANGED transportVars
  BY <1>0, <1>6, SessionsAlone DEF transportVars, sessionVars
<1> QED BY <1>1, <1>2, <1>3, <1>4, <1>5, <1>6, ArriveKeeps DEF TransportNext

LEMMA TransportInvariant == TransportSpec => []TransportInv
<1>1. TransportInit => TransportInv
  BY TransportInitHolds
<1>2. TransportInv /\ [TransportNext]_transportVars => TransportInv'
  BY TransportNextKeeps
<1> QED BY <1>1, <1>2, PTL DEF TransportSpec

\* Of the sessions grown old only /sse makes one active again.
LEMMA AgedStayAged ==
  ASSUME TransportInv, TransportNext, NEW s \in idle, s \notin idle', s \in stored'
  PROVE  \E r \in Reqs : /\ point[r] = "touch" /\ asking[r].sid = s
                         /\ asking[r].young \/ asking[r].path = "sse"
<1>0. /\ idle \subseteq stored /\ stored \subseteq 1 .. sessionsMade
      /\ sessionsMade \in Nat
  BY TransportTyped
<1>1. ASSUME NEW r \in Reqs, Touch(r)
      PROVE  /\ point[r] = "touch" /\ asking[r].sid = s
             /\ asking[r].young \/ asking[r].path = "sse"
  BY <1>1 DEF Touch, TransportInv, TouchIsEarned
<1>2. ASSUME NEW r \in Reqs, Create(r) PROVE FALSE
  <2>1. s # sessionsMade + 1
    BY <1>0
  <2> QED BY <1>2, <2>1 DEF Create
<1>3. ASSUME NEW r \in Reqs,
             \/ NotFound(r) \/ FoundSession(r) \/ Drop(r) \/ AnswerRequest(r)
             \/ OpenStream(r) \/ StartStream(r) \/ LoseStream(r) \/ CloseStream(r)
      PROVE  FALSE
  BY <1>3 DEF NotFound, FoundSession, Drop, AnswerRequest, OpenStream, StartStream,
              LoseStream, CloseStream, sessionVars
<1>4. ASSUME NEW r \in Reqs, NEW asked \in Asked, Arrive(r, asked) PROVE FALSE
  BY <1>4 DEF Arrive, sessionVars
<1>5. ASSUME NEW x \in stored, Age(x) \/ Lapse(x) PROVE FALSE
  BY <1>5 DEF Age, Lapse
<1>6. ~Sweep /\ ~Shutdown /\ ~Crash
  BY DEF Sweep, Shutdown, Crash
<1> QED BY <1>1, <1>2, <1>3, <1>4, <1>5, <1>6 DEF TransportNext, RequestStep

\* The gauge counts the connections there are, a closed session stays closed in
\* memory, and only /sse revives an aged one: SessionsHold.
THEOREM SessionsStaySound == TransportSpec => SessionsHold
<1>1. TransportInv => TransportTypeOK /\ GaugeIsExact /\ ClosedStaysClosed
  BY DEF TransportInv, GaugeIsExact, Connections, Connected
<1>2. TransportInv /\ [TransportNext]_transportVars =>
        [\A s \in idle : s \notin idle' /\ s \in stored' =>
           \E r \in Reqs : /\ point[r] = "touch" /\ asking[r].sid = s
                           /\ asking[r].young \/ asking[r].path = "sse"]_transportVars
  BY AgedStayAged
<1> QED BY <1>1, <1>2, TransportInvariant, PTL
        DEF SessionsHold, AgedIsRevivedBySseOnly, TransportSpec

-----------------------------------------------------------------------------
(* TrafficLog.                                                             *)

\* The ring is the end of the log, as much of it as fits.
RingIsLatest ==
    /\ Len(ring) = IF Len(logged) < Capacity THEN Len(logged) ELSE Capacity
    /\ \A k \in 1 .. Len(ring) : ring[k] = logged[Len(logged) - Len(ring) + k]

\* A call's id is its place in the log.
Numbered == \A i \in 1 .. Len(logged) : logged[i].id = i

\* A subscriber's feed is of calls there were, each after the one before.
Feed(l) == delivered[l] \o queue[l]
Rising(feed) == \A i, j \in 1 .. Len(feed) : i < j => feed[i].id < feed[j].id
Past(feed) == \A i \in 1 .. Len(feed) : feed[i].id <= Len(logged)

TrafficInv ==
    /\ TrafficTypeOK /\ RingIsLatest
    /\ Len(logged) <= MaxLogged /\ Numbered
    /\ \A l \in DOMAIN queue :
          delivered[l] \in Seq(LoggedCall) /\ Rising(Feed(l)) /\ Past(Feed(l))

\* What is appended to a rising feed of past calls is newer than all of it.
LEMMA FeedGrows ==
  ASSUME NEW sent \in Seq(LoggedCall), NEW q \in Seq(LoggedCall), NEW e \in LoggedCall,
         NEW n \in Nat, e.id = n + 1,
         Rising(sent \o q), \A i \in 1 .. Len(sent \o q) : (sent \o q)[i].id <= n
  PROVE  /\ Rising(sent \o Append(q, e))
         /\ \A i \in 1 .. Len(sent \o Append(q, e)) : (sent \o Append(q, e))[i].id <= n + 1
<1> DEFINE a == sent \o q
           b == sent \o Append(q, e)
           m == Len(sent) + Len(q)
<1>1. /\ Len(sent) \in Nat /\ Len(q) \in Nat /\ a \in Seq(LoggedCall) /\ Len(a) = m
      /\ \A i \in 1 .. m : a[i] = IF i <= Len(sent) THEN sent[i] ELSE q[i - Len(sent)]
  BY LenProperties, ConcatProperties
<1>2. /\ Append(q, e) \in Seq(LoggedCall) /\ Len(Append(q, e)) = Len(q) + 1
      /\ \A i \in 1 .. Len(q) : Append(q, e)[i] = q[i]
      /\ Append(q, e)[Len(q) + 1] = e
  BY AppendProperties
<1>3. /\ Len(b) = m + 1
      /\ \A i \in 1 .. m + 1 :
            b[i] = IF i <= Len(sent) THEN sent[i] ELSE Append(q, e)[i - Len(sent)]
  <2>1. /\ Len(b) = Len(sent) + Len(Append(q, e))
        /\ \A i \in 1 .. Len(sent) + Len(Append(q, e)) :
              b[i] = IF i <= Len(sent) THEN sent[i] ELSE Append(q, e)[i - Len(sent)]
    BY <1>2, ConcatProperties
  <2>2. Len(sent) + Len(Append(q, e)) = m + 1
    BY <1>1, <1>2
  <2> HIDE DEF b, m
  <2> QED BY <2>1, <2>2
<1>4. \A i \in 1 .. m : b[i] = a[i]
  <2> SUFFICES ASSUME NEW i \in 1 .. m PROVE b[i] = a[i]
    OBVIOUS
  <2>1. CASE i <= Len(sent)
    BY <1>1, <1>3, <2>1
  <2>2. CASE i > Len(sent)
    <3>1. i - Len(sent) \in 1 .. Len(q)
      BY <1>1, <2>2
    <3> QED BY <1>1, <1>2, <1>3, <2>2, <3>1
  <2> QED BY <1>1, <2>1, <2>2
<1>5. b[m + 1] = e
  <2>1. m + 1 \in 1 .. m + 1 /\ m + 1 > Len(sent) /\ m + 1 - Len(sent) = Len(q) + 1
    BY <1>1
  <2>2. b[m + 1] = Append(q, e)[m + 1 - Len(sent)]
    <3> HIDE DEF b, m
    <3> QED BY <1>1, <1>3, <2>1
  <2> QED BY <1>2, <2>1, <2>2
<1>6. \A i \in 1 .. m : a[i] \in LoggedCall /\ a[i].id \in Nat /\ a[i].id <= n
  <2>1. \A i \in 1 .. m : a[i].id <= n
    BY <1>1
  <2> HIDE DEF a, m
  <2>2. \A i \in 1 .. m : a[i] \in LoggedCall
    BY <1>1, ElementOfSeq
  <2> QED BY <2>1, <2>2 DEF LoggedCall
<1>7. m \in Nat /\ Rising(a)
  BY <1>1
<1> HIDE DEF a, b, m
<1>8. Rising(b)
  <2> SUFFICES ASSUME NEW i \in 1 .. m + 1, NEW j \in 1 .. m + 1, i < j
               PROVE  b[i].id < b[j].id
    BY <1>3 DEF Rising
  <2>1. i \in 1 .. m
    BY <1>7
  <2>2. CASE j = m + 1
    BY <1>4, <1>5, <1>6, <2>1, <2>2
  <2>3. CASE j # m + 1
    <3>1. j \in 1 .. m
      BY <1>7, <2>3
    <3>2. a[i].id < a[j].id
      BY <1>1, <1>7, <2>1, <3>1 DEF Rising
    <3> QED BY <1>4, <2>1, <3>1, <3>2
  <2> QED BY <2>2, <2>3
<1>9. \A i \in 1 .. m + 1 : b[i].id <= n + 1
  <2> SUFFICES ASSUME NEW i \in 1 .. m + 1 PROVE b[i].id <= n + 1
    OBVIOUS
  <2>1. CASE i = m + 1
    BY <1>5, <2>1
  <2>2. CASE i # m + 1
    BY <1>4, <1>6, <1>7, <2>2
  <2> QED BY <2>1, <2>2
<1> QED BY <1>3, <1>8, <1>9 DEF b

\* Sending the head of the queue leaves the feed as it is.
LEMMA FeedMoves ==
  ASSUME NEW sent \in Seq(LoggedCall), NEW q \in Seq(LoggedCall), q # << >>
  PROVE  Append(sent, Head(q)) \o Tail(q) = sent \o q
<1>1. /\ Head(q) \in LoggedCall /\ Tail(q) \in Seq(LoggedCall) /\ Len(Tail(q)) = Len(q) - 1
      /\ \A i \in 1 .. Len(Tail(q)) : Tail(q)[i] = q[i + 1]
  BY HeadTailProperties
<1>2. Len(q) \in Nat \ {0} /\ Len(sent) \in Nat /\ Head(q) = q[1]
  BY LenProperties, EmptySeq
<1> DEFINE more == Append(sent, Head(q))
           a == more \o Tail(q)
           b == sent \o q
           m == Len(sent) + Len(q)
<1>3. /\ more \in Seq(LoggedCall) /\ Len(more) = Len(sent) + 1
      /\ \A i \in 1 .. Len(sent) : more[i] = sent[i]
      /\ more[Len(sent) + 1] = Head(q)
  BY <1>1, AppendProperties
<1> HIDE DEF more
<1>4. /\ a \in Seq(LoggedCall) /\ Len(a) = m
      /\ \A i \in 1 .. m : a[i] = IF i <= Len(sent) + 1 THEN more[i]
                                  ELSE Tail(q)[i - (Len(sent) + 1)]
  <2>1. /\ a \in Seq(LoggedCall) /\ Len(a) = Len(more) + Len(Tail(q))
        /\ \A i \in 1 .. Len(more) + Len(Tail(q)) :
              a[i] = IF i <= Len(more) THEN more[i] ELSE Tail(q)[i - Len(more)]
    <3>1. more \in Seq(LoggedCall) /\ Tail(q) \in Seq(LoggedCall)
      BY <1>1, <1>3
    <3> QED BY <3>1, ConcatProperties
  <2>2. Len(more) + Len(Tail(q)) = m
    BY <1>1, <1>2, <1>3
  <2> QED BY <1>3, <2>1, <2>2
<1>5. /\ b \in Seq(LoggedCall) /\ Len(b) = m
      /\ \A i \in 1 .. m : b[i] = IF i <= Len(sent) THEN sent[i] ELSE q[i - Len(sent)]
  BY ConcatProperties
<1> HIDE DEF a, b
<1>6. \A i \in 1 .. m : a[i] = b[i]
  <2> SUFFICES ASSUME NEW i \in 1 .. m PROVE a[i] = b[i]
    OBVIOUS
  <2>1. CASE i <= Len(sent)
    <3>1. i \in 1 .. Len(sent)
      BY <1>2, <2>1
    <3>2. a[i] = more[i] /\ b[i] = sent[i]
      BY <1>2, <1>4, <1>5, <2>1
    <3> QED BY <1>3, <3>1, <3>2
  <2>2. CASE i = Len(sent) + 1
    BY <1>2, <1>3, <1>4, <1>5, <2>2
  <2>3. CASE i > Len(sent) + 1
    <3>1. /\ i - (Len(sent) + 1) \in 1 .. Len(Tail(q))
          /\ i - (Len(sent) + 1) + 1 = i - Len(sent)
      BY <1>1, <1>2, <2>3
    <3>2. a[i] = Tail(q)[i - (Len(sent) + 1)] /\ b[i] = q[i - Len(sent)]
      BY <1>2, <1>4, <1>5, <2>3
    <3> QED BY <1>1, <3>1, <3>2
  <2> QED BY <1>2, <2>1, <2>2, <2>3
<1>7. a = b
  <2>1. a \in [1 .. m -> LoggedCall] /\ b \in [1 .. m -> LoggedCall]
    BY <1>4, <1>5, LenProperties
  <2> QED BY <1>6, <2>1
<1> QED BY <1>7 DEF a, b, more

LEMMA TrafficInitially == TrafficInit => TrafficInv
<1> SUFFICES ASSUME TrafficInit PROVE TrafficInv
  OBVIOUS
<1>1. /\ logged = << >> /\ ring = << >> /\ queue = << >> /\ delivered = << >>
      /\ DOMAIN queue = {} /\ Len(logged) = 0 /\ Len(ring) = 0
  BY DEF TrafficInit
<1>2. TrafficTypeOK
  BY <1>1, TrafficAssumption, EmptySeq DEF TrafficTypeOK
<1>3. RingIsLatest /\ Len(logged) <= MaxLogged /\ Numbered
  BY <1>1, TrafficAssumption DEF RingIsLatest, Numbered
<1> QED BY <1>1, <1>2, <1>3 DEF TrafficInv

LEMMA TrafficNextKeeps == TrafficInv /\ [TrafficNext]_trafficVars => TrafficInv'
<1> SUFFICES ASSUME TrafficInv, [TrafficNext]_trafficVars PROVE TrafficInv'
  OBVIOUS
<1>1. /\ logged \in Seq(LoggedCall) /\ ring \in Seq(LoggedCall) /\ Len(ring) <= Capacity
      /\ DOMAIN queue = DOMAIN delivered
      /\ \A l \in DOMAIN queue : queue[l] \in Seq(LoggedCall) /\ Len(queue[l]) <= QueueSize
      /\ RingIsLatest /\ Len(logged) <= MaxLogged /\ Numbered
      /\ \A l \in DOMAIN queue :
            delivered[l] \in Seq(LoggedCall) /\ Rising(Feed(l)) /\ Past(Feed(l))
  BY DEF TrafficInv, TrafficTypeOK
<1>2. /\ Len(logged) \in Nat /\ Len(ring) \in Nat
      /\ Capacity \in Nat \ {0} /\ QueueSize \in Nat \ {0} /\ MaxLogged \in Nat
  BY <1>1, LenProperties, TrafficAssumption
<1>3. ASSUME NEW t \in Tools, NEW st \in {"success", "error"}, RecordCall(t, st)
      PROVE  TrafficInv'
  <2> DEFINE n == Len(logged)
             e == [id |-> n + 1, tool |-> t, status |-> st]
  <2>1. /\ n < MaxLogged /\ logged' = Append(logged, e) /\ ring' = Appended(ring, e)
        /\ queue' = [l \in DOMAIN queue |-> Offered(queue[l], e)]
        /\ delivered' = delivered
    BY <1>3 DEF RecordCall
  <2>2. e \in LoggedCall /\ e.id = n + 1
    BY <1>2, <2>1 DEF LoggedCall
  <2>3. n \in Nat /\ n = Len(logged)
    BY <1>2
  <2> HIDE DEF e, n
  <2>4. /\ logged' \in Seq(LoggedCall) /\ Len(logged') = n + 1
        /\ \A i \in 1 .. n : logged'[i] = logged[i]
        /\ logged'[n + 1] = e
    BY <1>1, <2>1, <2>2, <2>3, AppendProperties
  <2>5. /\ ring' \in Seq(LoggedCall) /\ Len(ring') <= Capacity /\ RingIsLatest'
    <3>1. CASE Len(ring) < Capacity
      <4>1. /\ ring' \in Seq(LoggedCall) /\ Len(ring') = Len(ring) + 1
            /\ \A k \in 1 .. Len(ring) : ring'[k] = ring[k]
            /\ ring'[Len(ring) + 1] = e
        BY <1>1, <2>1, <2>2, <3>1, AppendProperties DEF Appended
      <4>2. Len(ring) = n /\ n < Capacity
        BY <1>1, <1>2, <2>3, <3>1 DEF RingIsLatest
      <4>3. \A k \in 1 .. n : ring[k] = logged[k]
        BY <1>1, <2>3, <4>2 DEF RingIsLatest
      <4>4. Len(ring') = n + 1 /\ n + 1 <= Capacity
        BY <1>2, <2>3, <4>1, <4>2
      <4>5. \A k \in 1 .. n + 1 : ring'[k] = logged'[n + 1 - (n + 1) + k]
        <5> SUFFICES ASSUME NEW k \in 1 .. n + 1
                     PROVE  ring'[k] = logged'[n + 1 - (n + 1) + k]
          OBVIOUS
        <5>1. n + 1 - (n + 1) + k = k
          BY <2>3
        <5>2. CASE k = n + 1
          BY <2>4, <4>1, <4>2, <5>1, <5>2
        <5>3. CASE k # n + 1
          <6>1. k \in 1 .. n
            BY <2>3, <5>3
          <6> QED BY <2>4, <4>1, <4>2, <4>3, <5>1, <6>1
        <5> QED BY <5>2, <5>3
      <4>6. Len(ring') = IF Len(logged') < Capacity THEN Len(logged') ELSE Capacity
        BY <1>2, <2>3, <2>4, <4>4
      <4>7. \A k \in 1 .. Len(ring') : ring'[k] = logged'[Len(logged') - Len(ring') + k]
        <5> SUFFICES ASSUME NEW k \in 1 .. Len(ring')
                     PROVE  ring'[k] = logged'[Len(logged') - Len(ring') + k]
          OBVIOUS
        <5>1. Len(logged') = n + 1 /\ Len(ring') = n + 1
          BY <2>4, <4>4
        <5>2. k \in 1 .. n + 1
          BY <5>1
        <5>3. Len(logged') - Len(ring') + k = n + 1 - (n + 1) + k
          BY <1>2, <2>3, <5>1, <5>2
        <5> QED BY <4>5, <5>2, <5>3
      <4>8. ring' \in Seq(LoggedCall) /\ Len(ring') <= Capacity
        BY <4>1, <4>4
      <4> QED BY <4>6, <4>7, <4>8 DEF RingIsLatest
    <3>2. CASE ~(Len(ring) < Capacity)
      <4>1. Len(ring) = Capacity /\ n >= Capacity /\ ring # << >>
        BY <1>1, <1>2, <2>3, <3>2, EmptySeq DEF RingIsLatest
      <4>2. /\ Tail(ring) \in Seq(LoggedCall) /\ Len(Tail(ring)) = Capacity - 1
            /\ \A i \in 1 .. Capacity - 1 : Tail(ring)[i] = ring[i + 1]
        BY <1>1, <4>1, HeadTailProperties
      <4>3. /\ ring' \in Seq(LoggedCall) /\ Len(ring') = Capacity - 1 + 1
            /\ \A k \in 1 .. Capacity - 1 : ring'[k] = Tail(ring)[k]
            /\ ring'[Capacity - 1 + 1] = e
        BY <2>1, <2>2, <3>2, <4>2, AppendProperties DEF Appended
      <4>4. Len(ring') = Capacity /\ Capacity - 1 + 1 = Capacity
        BY <1>2, <4>3
      <4>5. \A k \in 1 .. Capacity : ring'[k] = logged'[n + 1 - Capacity + k]
        <5> SUFFICES ASSUME NEW k \in 1 .. Capacity
                     PROVE  ring'[k] = logged'[n + 1 - Capacity + k]
          OBVIOUS
        <5>1. CASE k = Capacity
          <6>1. n + 1 - Capacity + k = n + 1
            BY <1>2, <2>3, <5>1
          <6> QED BY <2>4, <4>3, <4>4, <5>1, <6>1
        <5>2. CASE k # Capacity
          <6>1. /\ k \in 1 .. Capacity - 1 /\ k + 1 \in 1 .. Len(ring)
                /\ n - Len(ring) + (k + 1) = n + 1 - Capacity + k
                /\ n + 1 - Capacity + k \in 1 .. n
            BY <1>2, <2>3, <4>1, <5>2
          <6>2. ring'[k] = ring[k + 1]
            BY <4>2, <4>3, <6>1
          <6>3. ring[k + 1] = logged[n + 1 - Capacity + k]
            BY <1>1, <2>3, <6>1 DEF RingIsLatest
          <6> QED BY <2>4, <6>1, <6>2, <6>3
        <5> QED BY <5>1, <5>2
      <4>6. Len(ring') = IF Len(logged') < Capacity THEN Len(logged') ELSE Capacity
        BY <1>2, <2>3, <2>4, <4>1, <4>4
      <4>7. \A k \in 1 .. Len(ring') : ring'[k] = logged'[Len(logged') - Len(ring') + k]
        <5> SUFFICES ASSUME NEW k \in 1 .. Len(ring')
                     PROVE  ring'[k] = logged'[Len(logged') - Len(ring') + k]
          OBVIOUS
        <5>1. Len(logged') = n + 1 /\ Len(ring') = Capacity
          BY <2>4, <4>4
        <5>2. k \in 1 .. Capacity
          BY <5>1
        <5>3. Len(logged') - Len(ring') + k = n + 1 - Capacity + k
          BY <1>2, <2>3, <5>1, <5>2
        <5> QED BY <4>5, <5>2, <5>3
      <4>8. ring' \in Seq(LoggedCall) /\ Len(ring') <= Capacity
        BY <1>2, <4>3, <4>4
      <4> QED BY <4>6, <4>7, <4>8 DEF RingIsLatest
    <3> QED BY <3>1, <3>2
  <2>6. Len(logged') <= MaxLogged /\ Numbered'
    <3>1. Len(logged') <= MaxLogged
      BY <1>2, <2>1, <2>3, <2>4
    <3>2. \A i \in 1 .. n + 1 : logged'[i].id = i
      BY <1>1, <2>2, <2>3, <2>4 DEF Numbered
    <3> QED BY <2>4, <3>1, <3>2 DEF Numbered
  <2>7. ASSUME NEW l \in DOMAIN queue
        PROVE  /\ queue'[l] \in Seq(LoggedCall) /\ Len(queue'[l]) <= QueueSize
               /\ Rising(delivered[l] \o queue'[l])
               /\ \A i \in 1 .. Len(delivered[l] \o queue'[l]) :
                     (delivered[l] \o queue'[l])[i].id <= n + 1
    <3> DEFINE q == queue[l]
               sent == delivered[l]
    <3>1. /\ q \in Seq(LoggedCall) /\ Len(q) <= QueueSize /\ sent \in Seq(LoggedCall)
          /\ Rising(sent \o q) /\ \A i \in 1 .. Len(sent \o q) : (sent \o q)[i].id <= n
      BY <1>1, <2>3 DEF Feed, Past
    <3>2. queue'[l] = Offered(q, e)
      BY <2>1
    <3> HIDE DEF q
    <3>3. CASE Len(q) < QueueSize
      <4>1. queue'[l] = Append(q, e)
        BY <3>2, <3>3 DEF Offered
      <4>2. Append(q, e) \in Seq(LoggedCall) /\ Len(Append(q, e)) = Len(q) + 1 /\ Len(q) \in Nat
        BY <2>2, <3>1, AppendProperties, LenProperties
      <4>3. /\ Rising(sent \o Append(q, e))
            /\ \A i \in 1 .. Len(sent \o Append(q, e)) : (sent \o Append(q, e))[i].id <= n + 1
        <5> HIDE DEF sent
        <5> QED BY <2>2, <2>3, <3>1, FeedGrows
      <4>4. Len(Append(q, e)) <= QueueSize
        BY <1>2, <3>3, <4>2
      <4> QED BY <4>1, <4>2, <4>3, <4>4
    <3>4. CASE ~(Len(q) < QueueSize)
      <4>1. queue'[l] = q
        BY <3>2, <3>4 DEF Offered
      <4>2. \A i \in 1 .. Len(sent \o q) : (sent \o q)[i] \in LoggedCall
        <5> HIDE DEF sent
        <5>1. sent \o q \in Seq(LoggedCall)
          BY <3>1, ConcatProperties
        <5> QED BY <5>1, ElementOfSeq
      <4>3. \A i \in 1 .. Len(sent \o q) : (sent \o q)[i].id <= n + 1
        <5> HIDE DEF sent
        <5> QED BY <2>3, <3>1, <4>2 DEF LoggedCall
      <4> QED BY <3>1, <4>1, <4>3
    <3> QED BY <3>3, <3>4
  <2>8. DOMAIN queue' = DOMAIN queue
    BY <2>1
  <2>9. TrafficTypeOK'
    BY <1>1, <2>1, <2>4, <2>5, <2>7, <2>8 DEF TrafficTypeOK
  <2>10. \A l \in DOMAIN queue' :
           delivered'[l] \in Seq(LoggedCall) /\ Rising(Feed(l))' /\ Past(Feed(l))'
    <3> SUFFICES ASSUME NEW l \in DOMAIN queue
                 PROVE  delivered'[l] \in Seq(LoggedCall) /\ Rising(Feed(l))' /\ Past(Feed(l))'
      BY <2>8
    <3>1. Feed(l)' = delivered[l] \o queue'[l] /\ delivered'[l] = delivered[l]
      BY <2>1 DEF Feed
    <3> QED BY <1>1, <2>4, <2>7, <3>1 DEF Rising, Past
  <2> QED BY <2>5, <2>6, <2>9, <2>10 DEF TrafficInv
<1>4. ASSUME NEW l \in Subscribers, Subscribe(l)
      PROVE  TrafficInv'
  <2>1. /\ l \notin DOMAIN queue /\ UNCHANGED <<logged, ring>>
        /\ queue' = [x \in DOMAIN queue \cup {l} |-> IF x = l THEN << >> ELSE queue[x]]
        /\ delivered' = [x \in DOMAIN delivered \cup {l} |->
                            IF x = l THEN << >> ELSE delivered[x]]
    BY <1>4 DEF Subscribe
  <2>2. /\ DOMAIN queue' = DOMAIN queue \cup {l} /\ DOMAIN delivered' = DOMAIN queue'
        /\ queue'[l] = << >> /\ delivered'[l] = << >>
        /\ \A x \in DOMAIN queue : queue'[x] = queue[x] /\ delivered'[x] = delivered[x]
    BY <1>1, <2>1
  <2>3. /\ << >> \in Seq(LoggedCall) /\ Len(<< >>) = 0 /\ << >> \o << >> \in Seq(LoggedCall)
        /\ Len(<< >> \o << >>) = 0
    BY EmptySeq, ConcatProperties
  <2>4. TrafficTypeOK'
    BY <1>1, <1>2, <2>1, <2>2, <2>3 DEF TrafficTypeOK
  <2>5. RingIsLatest'
    BY <1>1, <2>1 DEF RingIsLatest
  <2>6. \A x \in DOMAIN queue' :
          delivered'[x] \in Seq(LoggedCall) /\ Rising(Feed(x))' /\ Past(Feed(x))'
    <3> SUFFICES ASSUME NEW x \in DOMAIN queue'
                 PROVE  delivered'[x] \in Seq(LoggedCall) /\ Rising(Feed(x))' /\ Past(Feed(x))'
      OBVIOUS
    <3>1. CASE x = l
      <4>1. Feed(x)' = << >> \o << >>
        BY <2>2, <3>1 DEF Feed
      <4>2. Len(Feed(x)') = 0
        BY <2>3, <4>1
      <4> QED BY <2>2, <2>3, <3>1, <4>2 DEF Rising, Past
    <3>2. CASE x # l
      <4>1. x \in DOMAIN queue
        BY <2>2, <3>2
      <4>2. Feed(x)' = Feed(x) /\ delivered'[x] = delivered[x]
        BY <2>2, <4>1 DEF Feed
      <4> QED BY <1>1, <2>1, <4>1, <4>2 DEF Rising, Past
    <3> QED BY <3>1, <3>2
  <2>7. Len(logged') <= MaxLogged /\ Numbered'
    BY <1>1, <2>1 DEF Numbered
  <2> QED BY <2>4, <2>5, <2>6, <2>7 DEF TrafficInv
<1>5. ASSUME NEW l \in Subscribers, Deliver(l)
      PROVE  TrafficInv'
  <2>1. /\ l \in DOMAIN queue /\ queue[l] # << >> /\ UNCHANGED <<logged, ring>>
        /\ queue' = [queue EXCEPT ![l] = Tail(@)]
        /\ delivered' = [delivered EXCEPT ![l] = Append(@, Head(queue[l]))]
    BY <1>5 DEF Deliver
  <2>2. /\ DOMAIN queue' = DOMAIN queue /\ DOMAIN delivered' = DOMAIN queue'
        /\ queue'[l] = Tail(queue[l]) /\ delivered'[l] = Append(delivered[l], Head(queue[l]))
        /\ \A x \in DOMAIN queue :
              x # l => queue'[x] = queue[x] /\ delivered'[x] = delivered[x]
    BY <1>1, <2>1
  <2>3. /\ queue[l] \in Seq(LoggedCall) /\ Len(queue[l]) <= QueueSize
        /\ delivered[l] \in Seq(LoggedCall)
    BY <1>1, <2>1
  <2>4. /\ Head(queue[l]) \in LoggedCall /\ Tail(queue[l]) \in Seq(LoggedCall)
        /\ Len(Tail(queue[l])) = Len(queue[l]) - 1 /\ Len(queue[l]) \in Nat
    BY <2>1, <2>3, HeadTailProperties, LenProperties
  <2>5. /\ queue'[l] \in Seq(LoggedCall) /\ Len(queue'[l]) <= QueueSize
        /\ delivered'[l] \in Seq(LoggedCall)
    <3>1. Len(queue'[l]) <= QueueSize
      BY <1>2, <2>2, <2>3, <2>4
    <3>2. delivered'[l] \in Seq(LoggedCall)
      BY <2>2, <2>3, <2>4, AppendProperties
    <3> QED BY <2>2, <2>4, <3>1, <3>2
  <2>6. \A x \in DOMAIN queue : Feed(x)' = Feed(x)
    <3> SUFFICES ASSUME NEW x \in DOMAIN queue PROVE Feed(x)' = Feed(x)
      OBVIOUS
    <3>1. CASE x = l
      <4>1. Append(delivered[l], Head(queue[l])) \o Tail(queue[l]) = delivered[l] \o queue[l]
        BY <2>1, <2>3, FeedMoves
      <4> QED BY <2>2, <3>1, <4>1 DEF Feed
    <3>2. CASE x # l
      BY <2>2, <3>2 DEF Feed
    <3> QED BY <3>1, <3>2
  <2>7. TrafficTypeOK'
    <3>1. \A x \in DOMAIN queue' :
             queue'[x] \in Seq(LoggedCall) /\ Len(queue'[x]) <= QueueSize
      BY <1>1, <2>2, <2>5
    <3> QED BY <1>1, <2>1, <2>2, <3>1 DEF TrafficTypeOK
  <2>8. RingIsLatest' /\ Len(logged') <= MaxLogged /\ Numbered'
    BY <1>1, <2>1 DEF RingIsLatest, Numbered
  <2>9. \A x \in DOMAIN queue' :
          delivered'[x] \in Seq(LoggedCall) /\ Rising(Feed(x))' /\ Past(Feed(x))'
    BY <1>1, <2>1, <2>2, <2>5, <2>6 DEF Rising, Past
  <2> QED BY <2>7, <2>8, <2>9 DEF TrafficInv
<1>6. ASSUME NEW l \in Subscribers, Unsubscribe(l)
      PROVE  TrafficInv'
  <2>1. /\ UNCHANGED <<logged, ring>>
        /\ queue' = [x \in DOMAIN queue \ {l} |-> queue[x]]
        /\ delivered' = [x \in DOMAIN delivered \ {l} |-> delivered[x]]
    BY <1>6 DEF Unsubscribe
  <2>2. /\ DOMAIN queue' = DOMAIN queue \ {l} /\ DOMAIN delivered' = DOMAIN queue'
        /\ \A x \in DOMAIN queue' : queue'[x] = queue[x] /\ delivered'[x] = delivered[x]
    BY <1>1, <2>1
  <2>3. TrafficTypeOK'
    BY <1>1, <2>1, <2>2 DEF TrafficTypeOK
  <2>4. RingIsLatest' /\ Len(logged') <= MaxLogged /\ Numbered'
    BY <1>1, <2>1 DEF RingIsLatest, Numbered
  <2>5. \A x \in DOMAIN queue' : Feed(x)' = Feed(x)
    BY <2>2 DEF Feed
  <2>6. \A x \in DOMAIN queue' :
          delivered'[x] \in Seq(LoggedCall) /\ Rising(Feed(x))' /\ Past(Feed(x))'
    BY <1>1, <2>1, <2>2, <2>5 DEF Rising, Past
  <2> QED BY <2>3, <2>4, <2>6 DEF TrafficInv
<1>7. CASE UNCHANGED trafficVars
  <2>1. /\ logged' = logged /\ ring' = ring /\ queue' = queue /\ delivered' = delivered
    BY <1>7 DEF trafficVars
  <2>2. TrafficTypeOK' /\ RingIsLatest' /\ Numbered'
    BY <1>1, <2>1 DEF TrafficTypeOK, RingIsLatest, Numbered
  <2>3. \A l \in DOMAIN queue' :
          delivered'[l] \in Seq(LoggedCall) /\ Rising(Feed(l))' /\ Past(Feed(l))'
    BY <1>1, <2>1 DEF Feed, Rising, Past
  <2> QED BY <1>1, <2>1, <2>2, <2>3 DEF TrafficInv
<1> QED BY <1>3, <1>4, <1>5, <1>6, <1>7 DEF TrafficNext

\* A call that can still be in the ring is in the answer when fewer calls of its
\* tool than the limit were logged after it.
LEMMA RecentAnswers ==
  ASSUME TrafficInv, NEW t \in Tools, NEW limit \in 1 .. Capacity,
         NEW i \in DOMAIN logged, logged[i].tool = t, i + Capacity > Len(logged)
  PROVE  (\E k \in DOMAIN ListRecent(limit, t) : ListRecent(limit, t)[k] = logged[i])
         <=> limit > Cardinality({j \in i + 1 .. Len(logged) : logged[j].tool = t})
<1> DEFINE n == Len(ring)
           L == Len(logged)
           R == Reverse(ring)
           I == {k \in DOMAIN R : R[k].tool = t}
           p == L - i + 1
           found == Picked(R, I)
           m == IF Len(found) < limit THEN Len(found) ELSE limit
           Since == {j \in i + 1 .. L : logged[j].tool = t}
           A == {k \in I : k <= p}
<1>1. /\ logged \in Seq(LoggedCall) /\ ring \in Seq(LoggedCall) /\ Numbered
      /\ L \in Nat /\ n \in Nat /\ Capacity \in Nat /\ DOMAIN logged = 1 .. L
      /\ n = (IF L < Capacity THEN L ELSE Capacity) /\ n <= L
      /\ \A k \in 1 .. n : ring[k] = logged[L - n + k]
      /\ \A k \in 1 .. n : ring[k] \in LoggedCall
  <2>1. logged \in Seq(LoggedCall) /\ ring \in Seq(LoggedCall) /\ Numbered /\ RingIsLatest
    BY DEF TrafficInv, TrafficTypeOK
  <2>2. /\ L \in Nat /\ n \in Nat /\ Capacity \in Nat /\ DOMAIN logged = 1 .. L
        /\ \A k \in 1 .. n : ring[k] \in LoggedCall
    BY <2>1, TrafficAssumption, LenProperties, ElementOfSeq
  <2>3. /\ n = (IF L < Capacity THEN L ELSE Capacity)
        /\ \A k \in 1 .. n : ring[k] = logged[L - n + k]
    BY <2>1 DEF RingIsLatest
  <2>4. n <= L
    BY <2>2, <2>3
  <2> QED BY <2>1, <2>2, <2>3, <2>4
<1> HIDE DEF n, L
<1>2. /\ R \in Seq(LoggedCall) /\ Len(R) = n /\ DOMAIN R = 1 .. n
      /\ \A k \in 1 .. n : R[k] = logged[L - k + 1] /\ L - k + 1 \in 1 .. L
  <2>1. R = [k \in 1 .. n |-> ring[(n - k) + 1]]
    BY DEF Reverse, n
  <2>2. \A k \in 1 .. n : (n - k) + 1 \in 1 .. n
    BY <1>1
  <2>3. R \in [1 .. n -> LoggedCall]
    BY <1>1, <2>1, <2>2
  <2>4. R \in Seq(LoggedCall) /\ Len(R) = n /\ DOMAIN R = 1 .. n
    <3>1. R \in Seq(LoggedCall)
      BY <1>1, <2>3, SeqDef
    <3> QED BY <1>1, <2>3, <3>1, LenProperties
  <2>5. ASSUME NEW k \in 1 .. n
        PROVE  R[k] = logged[L - k + 1] /\ L - k + 1 \in 1 .. L
    <3>1. R[k] = ring[(n - k) + 1] /\ (n - k) + 1 \in 1 .. n
      BY <2>1, <2>2
    <3>2. L - n + ((n - k) + 1) = L - k + 1 /\ L - k + 1 \in 1 .. L
      <4>1. k \in Int /\ 1 <= k /\ k <= n /\ n <= L /\ n \in Nat /\ L \in Nat
        BY <1>1
      <4> QED BY <4>1
    <3>3. ring[(n - k) + 1] = logged[L - n + ((n - k) + 1)]
      BY <1>1, <3>1
    <3> QED BY <3>1, <3>2, <3>3
  <2> QED BY <2>4, <2>5
<1>3. i \in 1 .. L /\ p \in 1 .. n /\ L - p + 1 = i
  BY <1>1
<1> HIDE DEF R
<1>4. I \in SUBSET (1 .. Len(R)) /\ \A k \in I : k \in 1 .. n /\ logged[L - k + 1].tool = t
  BY <1>2
<1>5. p \in I /\ R[p] = logged[i]
  BY <1>2, <1>3
<1> HIDE DEF p
<1>6. /\ found \in Seq(LoggedCall) /\ Len(found) = Cardinality(I)
      /\ Cardinality(I) \in Nat /\ DOMAIN found = 1 .. Cardinality(I)
      /\ Rank(I, p) \in 1 .. Cardinality(I) /\ found[Rank(I, p)] = logged[i]
      /\ \A k \in 1 .. Cardinality(I) :
           Nth(I, k) \in I /\ Rank(I, Nth(I, k)) = k /\ found[k] = R[Nth(I, k)]
  <2> HIDE DEF I
  <2> QED BY <1>2, <1>4, <1>5, PickedElements
<1>7. Rank(I, p) = Cardinality(Since) + 1 /\ Cardinality(Since) \in Nat
  <2> DEFINE f == [k \in A \ {p} |-> L - k + 1]
  <2>1. IsFiniteSet(A) /\ p \in A
    <3>1. \A q : IsFiniteSet({k \in I : k <= q})
      <4> HIDE DEF I
      <4> QED BY <1>1, <1>2, <1>4, IndexesAreFinite
    <3>2. p <= p
      BY <1>3, <1>1
    <3> QED BY <1>5, <3>1, <3>2
  <2>2. /\ IsFiniteSet(A \ {p}) /\ Cardinality(A \ {p}) = Cardinality(A) - 1
        /\ Cardinality(A \ {p}) \in Nat /\ Cardinality(A) \in Nat
    <3> HIDE DEF A
    <3> QED BY <2>1, FS_RemoveElement, FS_CardinalityType
  <2>3. f \in [A \ {p} -> Since]
    <3> SUFFICES ASSUME NEW k \in A \ {p} PROVE L - k + 1 \in Since
      OBVIOUS
    <3>0. k \in 1 .. n /\ k <= p /\ k # p /\ p \in 1 .. n
      BY <1>3, <1>4
    <3>1. logged[L - k + 1].tool = t /\ L - k + 1 \in 1 .. L
      BY <1>2, <1>4, <3>0
    <3>2. L - k + 1 \in i + 1 .. L
      <4>1. k \in Int /\ p \in Int /\ k < p /\ L \in Nat /\ i \in Int /\ L - p + 1 = i
            /\ L - k + 1 <= L
        BY <1>1, <1>3, <3>0, <3>1
      <4> QED BY <4>1
    <3> QED BY <3>1, <3>2
  <2>4. \A x, y \in A \ {p} : f[x] = f[y] => x = y
    <3>1. \A x \in A : x \in Int
      BY <1>4
    <3> HIDE DEF A
    <3> QED BY <1>1, <3>1
  <2>5. \A j \in Since : \E x \in A \ {p} : f[x] = j
    <3> SUFFICES ASSUME NEW j \in Since PROVE \E x \in A \ {p} : f[x] = j
      OBVIOUS
    <3>1. /\ L - j + 1 \in 1 .. n /\ L - j + 1 < p /\ L - (L - j + 1) + 1 = j
          /\ L - j + 1 <= p /\ L - j + 1 # p
      BY <1>1, <1>3
    <3>2. R[L - j + 1].tool = t
      BY <1>2, <3>1
    <3>3. L - j + 1 \in A \ {p}
      BY <1>2, <3>1, <3>2
    <3> QED BY <3>1, <3>3
  <2>6. Cardinality(Since) = Cardinality(A \ {p})
    <3> HIDE DEF A, Since, f
    <3> QED BY <2>2, <2>3, <2>4, <2>5, SameSize
  <2>7. Rank(I, p) = Cardinality(A)
    BY DEF Rank
  <2> HIDE DEF A, Since
  <2> QED BY <2>2, <2>6, <2>7
<1>8. /\ m \in 0 .. Cardinality(I) /\ DOMAIN ListRecent(limit, t) = 1 .. m
      /\ \A k \in 1 .. m : ListRecent(limit, t)[k] = found[k]
  <2>1. ListRecent(limit, t) = SubSeq(found, 1, m)
    BY DEF ListRecent, R
  <2>2. m \in 0 .. Cardinality(I) /\ m \in Nat /\ Capacity \in Nat
    BY <1>1, <1>6
  <2>3. SubSeq(found, 1, m) = [k \in 1 .. m |-> found[1 + k - 1]]
    BY <2>2 DEF SubSeq
  <2>4. \A k \in 1 .. m : 1 + k - 1 = k
    BY <2>2
  <2> HIDE DEF m, found
  <2> QED BY <2>1, <2>2, <2>3, <2>4
<1> HIDE DEF found, Since
<1>9. ASSUME NEW k \in DOMAIN ListRecent(limit, t), ListRecent(limit, t)[k] = logged[i]
      PROVE  limit > Cardinality(Since)
  <2>0. k \in 1 .. m /\ m \in Nat /\ m <= Cardinality(I) /\ m <= limit
    BY <1>1, <1>6, <1>8, <1>9
  <2>1. k \in 1 .. Cardinality(I) /\ k <= limit /\ found[k] = logged[i]
    <3> HIDE DEF m
    <3> QED BY <1>6, <1>8, <1>9, <2>0
  <2>2. Nth(I, k) \in 1 .. n /\ logged[L - Nth(I, k) + 1] = logged[i]
    BY <1>2, <1>4, <1>6, <2>1
  <2>3. L - Nth(I, k) + 1 = i
    <3>1. L - Nth(I, k) + 1 \in 1 .. L
      BY <1>2, <2>2
    <3> QED BY <1>1, <1>3, <2>2, <3>1 DEF Numbered, L
  <2>4. Nth(I, k) = p
    <3>1. Nth(I, k) \in Int /\ p \in Int /\ L \in Int /\ i \in Int /\ L - p + 1 = i
      BY <1>1, <1>3, <2>2
    <3> QED BY <2>3, <3>1
  <2>5. k = Rank(I, p)
    BY <1>6, <2>1, <2>4
  <2> QED BY <1>1, <1>7, <2>1, <2>5
<1>10. ASSUME limit > Cardinality(Since)
       PROVE  \E k \in DOMAIN ListRecent(limit, t) : ListRecent(limit, t)[k] = logged[i]
  <2>1. Rank(I, p) \in 1 .. m
    BY <1>1, <1>6, <1>7, <1>10
  <2> HIDE DEF m
  <2> QED BY <1>6, <1>8, <2>1
<1> QED BY <1>9, <1>10 DEF Since, L

\* A subscriber is sent calls in the order they were made and none twice, however
\* slow it is, and /recent answers with the latest calls of the tool asked for:
\* TrafficHolds, about the log of MCP calls (mcp_traffic.py).
THEOREM TrafficStaysInOrder == TrafficSpec => []TrafficHolds
<1>1. TrafficInit => TrafficInv
  BY TrafficInitially
<1>2. TrafficInv /\ [TrafficNext]_trafficVars => TrafficInv'
  BY TrafficNextKeeps
<1>3. TrafficInv => TrafficTypeOK /\ FeedInOrder
  <2> SUFFICES ASSUME TrafficInv PROVE FeedInOrder
    BY DEF TrafficInv
  <2> SUFFICES ASSUME NEW l \in DOMAIN queue,
                      NEW i \in DOMAIN Feed(l), NEW j \in DOMAIN Feed(l), i < j
               PROVE  Feed(l)[i].id < Feed(l)[j].id
    BY DEF FeedInOrder, Feed
  <2>1. /\ delivered[l] \in Seq(LoggedCall) /\ queue[l] \in Seq(LoggedCall)
        /\ Rising(Feed(l))
    BY DEF TrafficInv, TrafficTypeOK
  <2>2. DOMAIN Feed(l) = 1 .. Len(Feed(l))
    BY <2>1, ConcatProperties, LenProperties DEF Feed
  <2> QED BY <2>1, <2>2 DEF Rising
<1>4. TrafficInv => RecentIsLatest
  BY RecentAnswers DEF RecentIsLatest
<1>5. TrafficInv => TrafficHolds
  BY <1>3, <1>4 DEF TrafficHolds
<1> QED BY <1>1, <1>2, <1>5, PTL DEF TrafficSpec
-----------------------------------------------------------------------------
(* JsonRpc.                                                                  *)

\* Which messages of a body get a response.
Due(b) == {i \in DOMAIN b : b[i] \notin {"notice", "reply"}}

\* What an answer promises of its body.
Answers(b, r) ==
    /\ r.status \in {0, 200, 202, 400, 500}
    /\ r.status = 200 =>
         /\ Len(r.responses) = Cardinality(Due(b))
         /\ \A i \in Due(b) : b[i] = "ok" => r.responses[Rank(Due(b), i)] = "result"
    /\ r.status = 202 => \A i \in DOMAIN b : ~IsRequest(b[i])

RpcInv ==
    /\ path \in {"/", "/mcp"} /\ isBatch \in BOOLEAN
    /\ body \in Seq(Messages)
    /\ ~isBatch => Len(body) <= 1
    /\ Answers(body, reply)

LEMMA BatchIsAnswered ==
    ASSUME NEW b \in Seq(Messages)
    PROVE  Answers(b, BatchAnswer(b))
<1>1. CASE b = << >> \/ Len(b) > MaxBatch
  BY <1>1 DEF BatchAnswer, Answers, Single
<1>2. CASE ~(b = << >> \/ Len(b) > MaxBatch) /\ ~HasRequests(b)
  BY <1>2 DEF BatchAnswer, Answers, NoBody, HasRequests
<1>3. CASE ~(b = << >> \/ Len(b) > MaxBatch) /\ HasRequests(b)
  <2> DEFINE asked == Picked(b, Due(b))
  <2>1. Due(b) = {i \in DOMAIN b : Answered(b[i])}
    BY DEF Due, Answered
  <2>2. BatchAnswer(b) = [status |-> 200,
                          responses |-> [i \in DOMAIN asked |-> ResponseTo(asked[i])]]
    BY <1>3, <2>1 DEF BatchAnswer
  <2>3. Due(b) \in SUBSET (1 .. Len(b))
    BY LenProperties DEF Due
  <2>4. /\ asked \in Seq(Messages) /\ DOMAIN asked = 1 .. Cardinality(Due(b))
        /\ Cardinality(Due(b)) \in Nat
        /\ \A i \in Due(b) : Rank(Due(b), i) \in DOMAIN asked /\ asked[Rank(Due(b), i)] = b[i]
    <3>1. /\ asked \in Seq(Messages) /\ DOMAIN asked = 1 .. Cardinality(Due(b))
          /\ Cardinality(Due(b)) \in 0 .. Len(b)
          /\ \A i \in Due(b) : Rank(Due(b), i) \in DOMAIN asked /\ asked[Rank(Due(b), i)] = b[i]
      BY <2>3, PickedElements
    <3> QED BY <3>1
  <2> HIDE DEF asked
  <2> DEFINE rs == [i \in DOMAIN asked |-> ResponseTo(asked[i])]
  <2>5. Len(rs) = Cardinality(Due(b))
    <3> DEFINE said == {ResponseTo(asked[i]) : i \in DOMAIN asked}
    <3>1. rs \in [1 .. Cardinality(Due(b)) -> said]
      BY <2>4
    <3> HIDE DEF rs, said
    <3> QED BY <2>4, <3>1, FunctionIsSeq
  <2>6. \A i \in Due(b) : b[i] = "ok" => rs[Rank(Due(b), i)] = "result"
    <3>1. ResponseTo("ok") = "result"
      BY DEF ResponseTo, Processed
    <3> QED BY <2>4, <3>1
  <2>7. BatchAnswer(b) = [status |-> 200, responses |-> rs]
    BY <2>2
  <2> HIDE DEF rs
  <2> QED BY <2>5, <2>6, <2>7 DEF Answers
<1> QED BY <1>1, <1>2, <1>3

LEMMA SingleIsAnswered ==
    ASSUME NEW b \in Seq(Messages), Len(b) = 1, NEW p \in {"/", "/mcp"}
    PROVE  Answers(b, SingleAnswer(p, b[1]))
<1>1. DOMAIN b = {1} /\ b[1] \in Messages
  BY LenProperties, ElementOfSeq
<1>2. CASE b[1] \in {"notice", "reply"}
  BY <1>1, <1>2 DEF SingleAnswer, Answers, NoBody, IsRequest
<1>3. CASE b[1] = "junk"
  BY <1>3 DEF SingleAnswer, Answers, NoBody, Single
<1>4. CASE b[1] \in {"bad_request", "bare"}
  BY <1>4 DEF SingleAnswer, Answers, Single
<1>5. CASE b[1] \notin {"notice", "reply", "junk", "bad_request", "bare"}
  <2>1. SingleAnswer(p, b[1]) = [status |-> 200, responses |-> <<Processed(b[1])>>]
    BY <1>5 DEF SingleAnswer, Single
  <2>2. Due(b) = {1} /\ Cardinality(Due(b)) = 1
    <3>1. Due(b) = {1}
      BY <1>1, <1>5 DEF Due
    <3> QED BY <3>1, FS_Singleton
  <2>3. Rank(Due(b), 1) = 1
    <3>1. {j \in Due(b) : j <= 1} = {1}
      BY <2>2
    <3> QED BY <3>1, FS_Singleton DEF Rank
  <2>4. b[1] = "ok" => Processed(b[1]) = "result"
    BY DEF Processed
  <2> QED BY <2>1, <2>2, <2>3, <2>4 DEF Answers
<1> QED BY <1>2, <1>3, <1>4, <1>5

LEMMA RpcNextKeeps == RpcInv /\ [RpcNext]_rpcVars => RpcInv'
<1> SUFFICES ASSUME RpcInv, [RpcNext]_rpcVars PROVE RpcInv'
  OBVIOUS
<1>1. /\ path \in {"/", "/mcp"} /\ isBatch \in BOOLEAN
      /\ body \in Seq(Messages) /\ Len(body) \in Nat
      /\ (~isBatch => Len(body) <= 1) /\ Answers(body, reply)
  BY LenProperties DEF RpcInv
<1>2. ASSUME NEW m \in Messages, AddMessage(m) PROVE RpcInv'
  <2>1. /\ reply.status = 0 /\ reply' = reply /\ isBatch' = isBatch /\ path' = path
        /\ body' = Append(body, m) /\ (~isBatch => Len(body) < 1)
    BY <1>2 DEF AddMessage
  <2>2. body' \in Seq(Messages) /\ Len(body') = Len(body) + 1
    BY <1>1, <2>1, AppendProperties
  <2>3. Answers(body', reply')
    BY <1>1, <2>1 DEF Answers
  <2>4. ~isBatch' => Len(body') <= 1
    BY <1>1, <2>1, <2>2
  <2> QED BY <1>1, <2>1, <2>2, <2>3, <2>4 DEF RpcInv
<1>3. ASSUME AnswerBody PROVE RpcInv'
  <2>1. /\ (isBatch \/ body # << >>) /\ isBatch' = isBatch /\ path' = path /\ body' = body
        /\ reply' = IF isBatch THEN BatchAnswer(body) ELSE SingleAnswer(path, body[1])
    BY <1>3 DEF AnswerBody
  <2>2. CASE isBatch
    <3>1. Answers(body, BatchAnswer(body))
      BY <1>1, BatchIsAnswered
    <3> QED BY <1>1, <2>1, <2>2, <3>1 DEF RpcInv
  <2>3. CASE ~isBatch
    <3>0. body # << >>
      BY <2>1, <2>3
    <3>1. Len(body) = 1
      <4>1. Len(body) \in Nat \ {0}
        BY <1>1, <3>0, EmptySeq
      <4>2. Len(body) <= 1
        BY <1>1, <2>3
      <4> QED BY <4>1, <4>2
    <3>2. Answers(body, SingleAnswer(path, body[1]))
      BY <1>1, <3>1, SingleIsAnswered
    <3> QED BY <1>1, <2>1, <2>3, <3>2 DEF RpcInv
  <2> QED BY <2>2, <2>3
<1>4. CASE UNCHANGED rpcVars
  BY <1>1, <1>4 DEF RpcInv, rpcVars
<1> QED BY <1>2, <1>3, <1>4 DEF RpcNext

\* Every request of a body that is taken is answered, in its place among the
\* answers, and what is answered 202 holds none: BodiesAreAnswered, about the
\* endpoints / and /mcp (server.py).
THEOREM RequestsAreAnswered == RpcSpec => []BodiesAreAnswered
<1>1. RpcInit => RpcInv
  <2> SUFFICES ASSUME RpcInit PROVE RpcInv
    OBVIOUS
  <2>1. body = << >> /\ reply = [status |-> 0, responses |-> << >>] /\ Len(body) = 0
    BY DEF RpcInit, NoBody
  <2> QED BY <2>1, EmptySeq DEF RpcInit, RpcInv, Answers
<1>2. RpcInv /\ [RpcNext]_rpcVars => RpcInv'
  BY RpcNextKeeps
<1>3. RpcInv => BodiesAreAnswered
  <2> SUFFICES ASSUME RpcInv PROVE BodiesAreAnswered
    OBVIOUS
  <2>1. /\ Requested = {i \in DOMAIN body : IsRequest(body[i])}
        /\ Due(body) = {i \in DOMAIN body : body[i] \notin {"notice", "reply"}}
        /\ body \in Seq(Messages) /\ DOMAIN body = 1 .. Len(body) /\ Len(body) \in Nat
        /\ Answers(body, reply)
    BY LenProperties DEF Requested, Due, RpcInv
  <2>2. Requested \in SUBSET Due(body) /\ Due(body) \in SUBSET (1 .. Len(body))
    BY <2>1 DEF IsRequest
  <2>3. Cardinality(Requested) <= Cardinality(Due(body)) /\ Cardinality(Due(body)) \in Nat
        /\ Cardinality(Requested) \in Nat
    <3>1. IsFiniteSet(Due(body)) /\ Cardinality(Due(body)) \in Nat
      BY <2>1, <2>2, IndexesAreFinite
    <3>2. IsFiniteSet(Requested) /\ Cardinality(Requested) <= Cardinality(Due(body))
      BY <2>2, <3>1, FS_Subset
    <3> QED BY <3>1, <3>2, FS_CardinalityType
  <2>4. \A i \in DOMAIN body :
          {j \in 1 .. i : body[j] \notin {"notice", "reply"}} = {j \in Due(body) : j <= i}
    BY <2>1
  <2>5. EveryRequestIsAnswered
    <3> SUFFICES ASSUME reply.status = 200
                 PROVE  /\ Len(reply.responses) >= Cardinality(Requested)
                        /\ Len(reply.responses) = Cardinality(Due(body))
                        /\ \A i \in DOMAIN body :
                               body[i] = "ok" =>
                                 reply.responses[Cardinality({j \in 1 .. i :
                                     body[j] \notin {"notice", "reply"}})] = "result"
      BY <2>1 DEF EveryRequestIsAnswered
    <3>1. Len(reply.responses) = Cardinality(Due(body))
      BY <2>1 DEF Answers
    <3>2. ASSUME NEW i \in DOMAIN body, body[i] = "ok"
          PROVE  reply.responses[Cardinality({j \in 1 .. i :
                     body[j] \notin {"notice", "reply"}})] = "result"
      <4>1. i \in Due(body)
        BY <2>1, <3>2
      <4>2. reply.responses[Rank(Due(body), i)] = "result"
        BY <2>1, <3>2, <4>1 DEF Answers
      <4> QED BY <2>4, <4>2 DEF Rank
    <3> QED BY <2>3, <3>1, <3>2
  <2>6. AcceptedHoldsNoRequest
    BY <2>1 DEF Answers, AcceptedHoldsNoRequest
  <2> QED BY <2>5, <2>6 DEF BodiesAreAnswered
<1> QED BY <1>1, <1>2, <1>3, PTL DEF RpcSpec
=============================================================================
