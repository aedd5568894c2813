--------------------------- MODULE ProxyPipeline ---------------------------
(***************************************************************************)
(* POST /mcp of the MCP security proxy (mcp-security-proxy/                 *)
(* mcp_security_proxy/app.py, mcp_proxy): the checks a call goes through,   *)
(* and the daily usage counters it is held against.                         *)
(*                                                                          *)
(* A call runs on the event loop from one await to the next; at an await    *)
(* other calls run, and the policy may be replaced.  Every check reads the  *)
(* policy in force when it runs.  "at" is the await a call is in.           *)
(***************************************************************************)
EXTENDS Naturals, FiniteSets

CONSTANTS
    Calls,       \* requests
    ProxyPolicies,    \* policies, each a record of Policy
    UsageLimit,       \* daily limit of each kind of use, 0 for none
    Trial,       \* whether the tier is "trial", which only monitors limits
    MaxRetries,  \* isolated_executor_profile.max_retries
    MaxDay,      \* bound: days
    MaxProxyRestarts, \* bound: restarts
    MaxUnreadable, \* bound: reads of the usage file that fail
    MaxReloads   \* bound: replacements of the policy

Layers == {"llm_risk", "tool_intent"}
Uses  == Layers \cup {"mcp_calls"}

\* denied: calls the method, tool, pattern, upstream or attestation check
\* turns down; probes: whether unhealthy dependencies turn a call down;
\* strict: prevent_silent_bypass; routed: calls whose tool must run in the
\* isolated executor, which has an address; firm: a failed executor check turns
\* the call down and is not just recorded; onward: forward_on_success.  All
\* policies have the same limits
Policy == [denied : SUBSET Calls, probes : BOOLEAN, strict : BOOLEAN,
           layer : [Layers -> [licensed : BOOLEAN, enabled : BOOLEAN, enforce : BOOLEAN]],
           routed : SUBSET Calls, firm : BOOLEAN, onward : BOOLEAN]

ASSUME PipelineAssumption ==
    /\ ProxyPolicies \subseteq Policy
    /\ UsageLimit \in [Uses -> Nat]
    /\ Trial \in BOOLEAN
    /\ MaxRetries \in Nat
    /\ MaxDay \in Nat \ {0}
    /\ MaxProxyRestarts \in Nat
    /\ MaxUnreadable \in Nat
    /\ MaxReloads \in Nat

VARIABLES
    policy,   \* the policy in force
    at,       \* where each call is
    tools,    \* the calls seen whose method is tools/call
    hint,     \* the hint each layer gave on a call, "none" before
    route,    \* whether a call was routed to the executor
    attempts, \* posts of a call to the executor that failed
    ran,      \* calls the executor answered with success
    posted,   \* calls posted to the upstream server
    usage,    \* the usage counters in memory
    disk,     \* and in usage_counters.json
    today,    \* the date
    unreadable, \* reads of usage_counters.json that failed
    counted,  \* the periods each use of a call was counted and saved in
    policiesSeen,     \* the policies in force while a call was under way
    proxyRestarts, reloads

pipelineVars == <<policy, at, tools, hint, route, attempts, ran, posted, usage, disk, today,
          unreadable, counted, policiesSeen, proxyRestarts, reloads>>

Awaits == {"health", "llm_risk", "tool_intent", "executor", "upstream"}
Ends   == {"done", "denied", "error", "lost"}

Counter == [day : 1 .. MaxDay, count : [Uses -> Nat]]
Fresh   == [day |-> today, count |-> [k \in Uses |-> 0]]

\* A day, or what is left of it after a read of the file that failed, with
\* which the counters start again from zero
Period  == <<today, unreadable>>
Periods == (1 .. MaxDay) \X (0 .. MaxUnreadable)

PipelineInit ==
    /\ policy \in ProxyPolicies
    /\ at = [c \in Calls |-> "new"]
    /\ tools = {}
    /\ hint = [c \in Calls |-> [k \in Layers |-> "none"]]
    /\ route = [c \in Calls |-> FALSE]
    /\ attempts = [c \in Calls |-> 0]
    /\ ran = {}
    /\ posted = {}
    /\ today = 1
    /\ unreadable = 0
    /\ usage = Fresh
    /\ disk = Fresh
    /\ counted = [c \in Calls |-> [k \in Uses |-> {}]]
    /\ policiesSeen = [c \in Calls |-> {}]
    /\ proxyRestarts = 0
    /\ reloads = 0

----------------------------------------------------------------------------
(* Usage counters.                                                          *)

\* The counters of a former day are dropped when they are next looked at
Rolled(u) == IF u.day = today THEN u ELSE Fresh

Plus(u, kind) == [Rolled(u) EXCEPT !.count[kind] = @ + 1]

\* _check_usage_limit: the counters it leaves, and whether it denies
Checked(u, kind)   == IF UsageLimit[kind] > 0 THEN Rolled(u) ELSE u
OverLimitStrictly(u, kind) == ~Trial /\ UsageLimit[kind] > 0 /\ Rolled(u).count[kind] > UsageLimit[kind]
OverLimit(u, kind) == ~Trial /\ UsageLimit[kind] > 0 /\ Rolled(u).count[kind] >= UsageLimit[kind]

\* Mutant of Count: nothing is saved
CountInMemory(c, u, kind) ==
    /\ UNCHANGED disk
    /\ counted' = [counted EXCEPT ![c][kind] = @ \cup {Period}]

\* _increment_usage_counter: counted in memory, then saved, if the disk lets it
Count(c, u, kind) ==
    /\ disk' = Plus(u, kind)
    /\ counted' = [counted EXCEPT ![c][kind] = @ \cup {Period}]
CountUnsaved == UNCHANGED <<disk, counted>>

\* _load_usage_counters, of a file that can be read
Loaded == IF disk.day = today THEN disk ELSE Fresh

\* _load_usage_counters: of a file that cannot be read only a warning is left,
\* and the counters in memory start again from zero
LoadUsage ==
    \/ /\ usage' = Loaded
       /\ UNCHANGED unreadable
    \/ /\ unreadable < MaxUnreadable
       /\ unreadable' = unreadable + 1
       /\ usage' = Fresh

----------------------------------------------------------------------------
(* What follows a check that lets a call pass, up to the next await.  "u" are *)
(* the counters at that point; route' is set by then.                        *)

MoveOn(c, place, u) ==
    /\ at' = [at EXCEPT ![c] = place]
    /\ usage' = u

Stop(c, place, u) == MoveOn(c, place, u) /\ UNCHANGED posted

\* The call is posted to the upstream server, or to the executor unless the
\* provenance check turns that down
Forward(c, u) ==
    \/ ~route'[c] /\ MoveOn(c, "upstream", u) /\ posted' = posted \cup {c}
    \/ route'[c] /\ \E place \in {"executor", "denied"} : Stop(c, place, u)

AskIntent(c, u) ==
    LET layer == policy.layer["tool_intent"]
        over  == OverLimit(u, "tool_intent")
        left  == Checked(u, "tool_intent")
    IN  \/ ~layer.licensed /\ Forward(c, u)
        \/ layer.licensed /\ over /\ Stop(c, "denied", left)
        \/ layer.licensed /\ ~over /\ ~layer.enabled /\ Forward(c, left)
        \/ layer.licensed /\ ~over /\ layer.enabled /\ Stop(c, "tool_intent", left)

AskRisk(c, u) ==
    LET layer == policy.layer["llm_risk"]
        over  == OverLimit(u, "llm_risk")
        left  == Checked(u, "llm_risk")
    IN  \/ ~layer.licensed /\ AskIntent(c, u)
        \/ layer.licensed /\ over /\ Stop(c, "denied", left)
        \/ layer.licensed /\ ~over /\ ~layer.enabled /\ AskIntent(c, left)
        \/ layer.licensed /\ ~over /\ layer.enabled /\ Stop(c, "llm_risk", left)

----------------------------------------------------------------------------
(* The stages of a call.                                                    *)

\* Too large, not authorised or not a JSON object: counted nowhere
RefuseCall(c) ==
    /\ at[c] = "new"
    /\ \E place \in {"denied", "error"} : Stop(c, place, usage)
    /\ UNCHANGED <<policy, tools, hint, route, attempts, ran, disk, today, counted, policiesSeen,
                   unreadable, proxyRestarts, reloads>>

\* The daily limit and its counter, then the checks that need nobody's answer
ArriveCall(c) ==
    /\ at[c] = "new"
    /\ policiesSeen' = [policiesSeen EXCEPT ![c] = {policy}]
    /\ LET u == Checked(usage, "mcp_calls")
           v == Plus(u, "mcp_calls")
       IN  \/ /\ OverLimit(usage, "mcp_calls")
              /\ Stop(c, "denied", u)
              /\ UNCHANGED <<tools, disk, counted>>
           \/ /\ ~OverLimit(usage, "mcp_calls")
              /\ CountUnsaved
              /\ Stop(c, "error", v)
              /\ UNCHANGED tools
           \/ /\ ~OverLimit(usage, "mcp_calls")
              /\ Count(c, u, "mcp_calls")
              /\ \/ /\ c \in policy.denied
                    /\ Stop(c, "denied", v)
                    /\ UNCHANGED tools
                 \/ /\ c \notin policy.denied
                    /\ tools' = tools \cup {c}
                    /\ Stop(c, "health", v)
                 \/ /\ c \notin policy.denied
                    /\ UNCHANGED tools
                    /\ MoveOn(c, "upstream", v)
                    /\ posted' = posted \cup {c}
    /\ UNCHANGED <<policy, hint, route, attempts, ran, today, unreadable, proxyRestarts, reloads>>

\* The dependencies are probed, or known from the cache (the code does not
\* yield then; the model may).  Then the executor check sets the route, or
\* finds the call outside its limits
HealthAnswer(c) ==
    /\ at[c] = "health"
    /\ \/ /\ \E p \in policiesSeen[c] : p.probes
          /\ UNCHANGED route
          /\ Stop(c, "denied", usage)
       \/ /\ c \in policy.routed
          /\ UNCHANGED route
          /\ \/ policy.firm /\ Stop(c, "denied", usage)
             \/ ~policy.firm /\ AskRisk(c, usage)
       \/ /\ route' = [route EXCEPT ![c] = c \in policy.routed]
          /\ AskRisk(c, usage)
    /\ UNCHANGED <<policy, tools, hint, attempts, ran, disk, today, counted, policiesSeen,
                   unreadable, proxyRestarts, reloads>>

\* What the policy in force makes of a hint: "deny" stands for challenge too,
\* "unavailable" for the fallback with engine "none"
TurnsDownDeny(layer, h) == policy.layer[layer].enforce /\ h = "deny"
TurnsDown(layer, h) ==
    /\ policy.layer[layer].enforce
    /\ h = "deny" \/ (h = "unavailable" /\ policy.strict)

\* The model of a layer answers, or fails
LayerAnswer(c, layer) ==
    /\ at[c] = layer
    /\ UNCHANGED route
    /\ \E h \in {"allow", "deny", "unavailable"} :
          LET v == Plus(usage, layer)
          IN  \/ /\ UNCHANGED hint
                 /\ CountUnsaved
                 /\ Stop(c, "error", v)
              \/ /\ hint' = [hint EXCEPT ![c][layer] = h]
                 /\ Count(c, usage, layer)
                 /\ \/ TurnsDown(layer, h) /\ Stop(c, "denied", v)
                    \/ ~TurnsDown(layer, h) /\ layer = "llm_risk" /\ AskIntent(c, v)
                    \/ ~TurnsDown(layer, h) /\ layer = "tool_intent" /\ Forward(c, v)
    /\ UNCHANGED <<policy, tools, attempts, ran, today, policiesSeen, unreadable, proxyRestarts, reloads>>

\* A post to the executor that failed may be made again
RetryOnceMore(c) == attempts[c] <= MaxRetries
RetryLeft(c)     == attempts[c] < MaxRetries
AttemptForgotten(n) == IF n = 0 THEN 1 ELSE 0
NextAttempt(n)      == n + 1

\* Mutant of ExecutorAnswer: an executor that fails is left out
ExecutorOptional(c) ==
    /\ at[c] = "executor"
    /\ MoveOn(c, "upstream", usage)
    /\ posted' = posted \cup {c}
    /\ UNCHANGED <<policy, tools, hint, route, attempts, ran, disk, today, counted, policiesSeen,
                   unreadable, proxyRestarts, reloads>>

\* The executor answered with an error, or not at all, or with a result that
\* is rejected, returned, or followed by the call to the upstream server
ExecutorAnswer(c) ==
    /\ at[c] = "executor"
    /\ \/ /\ UNCHANGED <<attempts, ran>>
          /\ Stop(c, "error", usage)
       \/ /\ RetryLeft(c)
          /\ attempts' = [attempts EXCEPT ![c] = NextAttempt(@)]
          /\ UNCHANGED ran
          /\ Stop(c, "executor", usage)
       \/ /\ ran' = ran \cup {c}
          /\ UNCHANGED attempts
          /\ \/ \E place \in {"denied", "done"} : Stop(c, place, usage)
             \/ /\ \E p \in policiesSeen[c] : p.onward
                /\ MoveOn(c, "upstream", usage)
                /\ posted' = posted \cup {c}
    /\ UNCHANGED <<policy, tools, hint, route, disk, today, counted, policiesSeen, unreadable, proxyRestarts, reloads>>

\* Without an answer, a call the executor ran is answered with its result
UpstreamAnswer(c) ==
    /\ at[c] = "upstream"
    /\ \E place \in {"done"} \cup (IF c \in ran THEN {} ELSE {"error"}) : Stop(c, place, usage)
    /\ UNCHANGED <<policy, tools, hint, route, attempts, ran, disk, today, counted, policiesSeen,
                   unreadable, proxyRestarts, reloads>>

----------------------------------------------------------------------------
(* What happens beside the calls.                                           *)

UnderWay == {c \in Calls : at[c] \in Awaits}

ReplacePolicy(p) ==
    /\ reloads < MaxReloads
    /\ reloads' = reloads + 1
    /\ policy' = p
    /\ policiesSeen' = [c \in Calls |-> IF c \in UnderWay THEN policiesSeen[c] \cup {p} ELSE policiesSeen[c]]
    /\ UNCHANGED <<at, tools, hint, route, attempts, ran, posted, usage, disk, today,
                   counted, unreadable, proxyRestarts>>

\* Reading the usage, and the audit export, load the file into memory
PublicUsage ==
    /\ LoadUsage
    /\ UNCHANGED <<policy, at, tools, hint, route, attempts, ran, posted, disk, today,
                   counted, policiesSeen, proxyRestarts, reloads>>

NewDay ==
    /\ today < MaxDay
    /\ today' = today + 1
    /\ UNCHANGED <<policy, at, tools, hint, route, attempts, ran, posted, usage, disk,
                   counted, policiesSeen, unreadable, proxyRestarts, reloads>>

RestartProxy ==
    /\ proxyRestarts < MaxProxyRestarts
    /\ proxyRestarts' = proxyRestarts + 1
    /\ at' = [c \in Calls |-> IF c \in UnderWay THEN "lost" ELSE at[c]]
    /\ LoadUsage
    /\ UNCHANGED <<policy, tools, hint, route, attempts, ran, posted, disk, today, counted,
                   policiesSeen, reloads>>

AnswerAwait(c) ==
    \/ HealthAnswer(c)
    \/ \E layer \in Layers : LayerAnswer(c, layer)
    \/ ExecutorAnswer(c)
    \/ UpstreamAnswer(c)

PipelineNext ==
    \/ \E c \in Calls : RefuseCall(c) \/ ArriveCall(c) \/ AnswerAwait(c)
    \/ \E p \in ProxyPolicies : ReplacePolicy(p)
    \/ PublicUsage \/ NewDay \/ RestartProxy

PipelineSpec == PipelineInit /\ [][PipelineNext]_pipelineVars

\* Every await of a call has a timeout
PipelineFairness == \A c \in Calls : WF_pipelineVars(AnswerAwait(c))
PipelineFairSpec == PipelineSpec /\ PipelineFairness

----------------------------------------------------------------------------
(* Properties.                                                              *)

\* Every variable keeps to its type; a call is posted to the executor once
\* and retried max_retries times at most.
PipelineTypeOK ==
    /\ policy \in ProxyPolicies
    /\ at \in [Calls -> {"new"} \cup Awaits \cup Ends]
    /\ tools \subseteq Calls
    /\ hint \in [Calls -> [Layers -> {"none", "allow", "deny", "unavailable"}]]
    /\ route \in [Calls -> BOOLEAN]
    /\ attempts \in [Calls -> 0 .. MaxRetries]
    /\ ran \subseteq Calls
    /\ posted \subseteq Calls
    /\ today \in 1 .. MaxDay
    /\ usage \in Counter
    /\ disk \in Counter
    /\ unreadable \in 0 .. MaxUnreadable
    /\ counted \in [Calls -> [Uses -> SUBSET Periods]]
    /\ policiesSeen \in [Calls -> SUBSET ProxyPolicies]
    /\ proxyRestarts \in 0 .. MaxProxyRestarts
    /\ reloads \in 0 .. MaxReloads

\* Nothing leaves the proxy that every policy in force meanwhile turns down:
\* by its early checks, by the hint of a layer they all enforce, or because
\* such a layer gave no hint and they all prevent a silent bypass.
LeftTheProxy(c) == c \in posted \/ at[c] = "executor" \/ c \in ran
Enforced(p, layer) ==
    LET l == p.layer[layer] IN l.licensed /\ l.enabled /\ l.enforce
ForwardedWasCleared ==
    \A c \in Calls : LeftTheProxy(c) =>
        /\ \E p \in policiesSeen[c] : c \notin p.denied
        /\ \A layer \in Layers :
              c \in tools /\ (\A p \in policiesSeen[c] : Enforced(p, layer)) =>
                  /\ hint[c][layer] \in {"allow", "unavailable"}
                  /\ (\A p \in policiesSeen[c] : p.strict) => hint[c][layer] = "allow"

\* A call that every policy in force meanwhile holds to the isolated executor
\* reaches the upstream server only after the executor ran it.
ExecutorComesFirst ==
    \A c \in posted :
        c \in tools /\ (\A p \in policiesSeen[c] : c \in p.routed /\ p.firm) => c \in ran

\* No more calls pass in a day than max_mcp_calls_per_day, whatever restarts,
\* refused writes and reads of the usage come in between, as long as the file can
\* be read: after a read that failed as many may pass again.
CallsWithinQuota ==
    ~Trial /\ UsageLimit["mcp_calls"] > 0 =>
        \A p \in Periods :
            Cardinality({c \in Calls : p \in counted[c]["mcp_calls"]}) <= UsageLimit["mcp_calls"]

\* The counters, in memory or as loaded after a restart, never show less than
\* what was used today since the last read of the file that failed.
CountersCoverUse ==
    \A kind \in Uses :
        LET used == Cardinality({c \in Calls : Period \in counted[c][kind]})
        IN  used <= Rolled(usage).count[kind] /\ used <= Loaded.count[kind]

\* Every call is answered, unless a restart loses it, whatever the models, the
\* executor and the upstream server do.
EveryCallEnds ==
    \A c \in Calls : at[c] \in Awaits ~> at[c] \in Ends

(* Nothing goes on that a check of a policy in force meanwhile had not let *)
(* through, and what must run in the executor runs there first.            *)
CallsAreCleared == ForwardedWasCleared /\ ExecutorComesFirst

(* The quota of calls holds, and the counters cover what was used, across  *)
(* refused writes of the file, changes of day and restarts, from one read  *)
(* of the file that fails to the next.                                     *)
UseIsCounted == PipelineTypeOK /\ CallsWithinQuota /\ CountersCoverUse
=============================================================================
