------------------------ MODULE ProxyPipelineProofs ------------------------
(***************************************************************************)
(* Proofs about the calls of the security proxy, for every set of calls    *)
(* and policies, every limit, and any number of days, restarts, failed     *)
(* reads of the usage file and replacements of the policy.                 *)
(***************************************************************************)
EXTENDS ProxyPipeline, FiniteSetTheorems, TLAPS

-----------------------------------------------------------------------------
(* Where a call goes on to, and what its check leaves of the counters.     *)

\* A call moves to a place; it is posted when that is the upstream server.
Moved(c, place) ==
    /\ at' = [at EXCEPT ![c] = place]
    /\ posted' = IF place = "upstream" THEN posted \cup {c} ELSE posted

\* The counters a check leaves are those it looked at, rolled over or not.
SameCounts(u) == usage' \in Counter /\ Rolled(usage)' = Rolled(u)

LEMMA FreshType ==
  ASSUME PipelineTypeOK
  PROVE  Fresh \in Counter /\ Fresh.day = today
BY DEF Fresh, Counter, PipelineTypeOK

LEMMA PeriodType == PipelineTypeOK => Period \in Periods
BY DEF PipelineTypeOK, Period, Periods

LEMMA RolledType ==
  ASSUME PipelineTypeOK, NEW u \in Counter
  PROVE  /\ Rolled(u) \in Counter
         /\ Rolled(u).day = today
         /\ Rolled(u).count \in [Uses -> Nat]
         /\ Rolled(Rolled(u)) = Rolled(u)
         /\ \A k \in Uses : Checked(u, k) \in Counter /\ Rolled(Checked(u, k)) = Rolled(u)
<1>1. Rolled(u) \in Counter /\ Rolled(u).day = today
  BY FreshType DEF Rolled
<1>2. Rolled(Rolled(u)) = Rolled(u)
  BY <1>1 DEF Rolled
<1>3. QED
  BY <1>1, <1>2 DEF Checked, Counter

\* Counting a use leaves counters of today, one higher for its kind.
LEMMA PlusCounts ==
  ASSUME PipelineTypeOK, NEW u \in Counter, NEW kind \in Uses
  PROVE  /\ Plus(u, kind) \in Counter
         /\ Rolled(Plus(u, kind)) = Plus(u, kind)
         /\ Plus(u, kind).count[kind] = Rolled(u).count[kind] + 1
         /\ \A k \in Uses \ {kind} : Plus(u, kind).count[k] = Rolled(u).count[k]
         /\ Plus(u, kind).day = today
<1>1. /\ Rolled(u) \in Counter /\ Rolled(u).day = today
      /\ Rolled(u).count \in [Uses -> Nat]
  BY RolledType
<1> DEFINE v == Rolled(u)
<1> HIDE DEF v
<1>2. v \in Counter /\ v.day = today /\ v.count \in [Uses -> Nat]
  BY <1>1 DEF v
<1>3. Plus(u, kind) = [v EXCEPT !.count[kind] = v.count[kind] + 1]
  BY DEF Plus, v
<1>4. /\ Plus(u, kind) \in Counter
      /\ Plus(u, kind).day = today
      /\ Plus(u, kind).count = [v.count EXCEPT ![kind] = v.count[kind] + 1]
  BY <1>2, <1>3 DEF Counter
<1>5. Rolled(Plus(u, kind)) = Plus(u, kind)
  BY <1>4 DEF Rolled
<1>6. QED
  BY <1>2, <1>4, <1>5 DEF v

LEMMA LoadedType ==
  ASSUME PipelineTypeOK
  PROVE  Loaded \in Counter /\ Loaded = Rolled(disk) /\ Rolled(Loaded) = Rolled(disk)
<1>1. Loaded = Rolled(disk) /\ disk \in Counter
  BY DEF Loaded, Rolled, PipelineTypeOK
<1>2. QED
  BY <1>1, RolledType

LEMMA ForwardLeads ==
  ASSUME NEW c \in Calls, NEW u, Forward(c, u)
  PROVE  /\ usage' = u
         /\ \E place \in {"upstream", "executor", "denied"} :
              /\ Moved(c, place)
              /\ place = "upstream" => ~route'[c]
BY DEF Forward, Stop, MoveOn, Moved

\* A layer that is skipped is one the policy in force does not enforce.
LEMMA IntentLeads ==
  ASSUME NEW c \in Calls, NEW u, AskIntent(c, u)
  PROVE  /\ usage' \in {u, Checked(u, "tool_intent")}
         /\ \E place \in {"upstream", "executor", "denied", "tool_intent"} :
              /\ Moved(c, place)
              /\ place = "upstream" => ~route'[c]
              /\ place \in {"upstream", "executor"} => ~Enforced(policy, "tool_intent")
<1> DEFINE left == Checked(u, "tool_intent")
<1>1. CASE Stop(c, "denied", left) \/ Stop(c, "tool_intent", left)
  BY <1>1 DEF Stop, MoveOn, Moved
<1>2. CASE /\ Forward(c, u) \/ Forward(c, left)
           /\ ~Enforced(policy, "tool_intent")
  BY <1>2, ForwardLeads
<1>3. QED
  BY <1>1, <1>2 DEF AskIntent, Enforced

LEMMA RiskLeads ==
  ASSUME NEW c \in Calls, NEW u, AskRisk(c, u)
  PROVE  /\ \E v \in {u, Checked(u, "llm_risk")} :
              usage' \in {v, Checked(v, "tool_intent")}
         /\ \E place \in {"upstream", "executor", "denied", "llm_risk", "tool_intent"} :
              /\ Moved(c, place)
              /\ place = "upstream" => ~route'[c]
              /\ place \in {"upstream", "executor"} => ~Enforced(policy, "tool_intent")
              /\ place \in {"upstream", "executor", "tool_intent"}
                   => ~Enforced(policy, "llm_risk")
<1> DEFINE left == Checked(u, "llm_risk")
<1>1. CASE Stop(c, "denied", left) \/ Stop(c, "llm_risk", left)
  BY <1>1 DEF Stop, MoveOn, Moved
<1>2. CASE /\ AskIntent(c, u) \/ AskIntent(c, left)
           /\ ~Enforced(policy, "llm_risk")
  BY <1>2, IntentLeads
<1>3. QED
  BY <1>1, <1>2 DEF AskRisk, Enforced

LEMMA IntentCounts ==
  ASSUME PipelineTypeOK, NEW c \in Calls, NEW u \in Counter, AskIntent(c, u),
         UNCHANGED today
  PROVE  SameCounts(u)
<1>1. usage' \in {u, Checked(u, "tool_intent")}
  BY IntentLeads
<1>2. usage' \in Counter /\ Rolled(usage') = Rolled(u)
  BY <1>1, RolledType DEF Uses, Layers
<1>3. Rolled(usage)' = Rolled(usage')
  BY DEF Rolled, Fresh
<1>4. QED
  BY <1>2, <1>3 DEF SameCounts

LEMMA RiskCounts ==
  ASSUME PipelineTypeOK, NEW c \in Calls, NEW u \in Counter, AskRisk(c, u),
         UNCHANGED today
  PROVE  SameCounts(u)
<1>1. PICK v \in {u, Checked(u, "llm_risk")} : usage' \in {v, Checked(v, "tool_intent")}
  BY RiskLeads
<1>2. v \in Counter /\ Rolled(v) = Rolled(u)
  BY <1>1, RolledType DEF Uses, Layers
<1>3. usage' \in Counter /\ Rolled(usage') = Rolled(u)
  BY ZenonT(60), <1>1, <1>2, RolledType DEF Uses, Layers
<1>4. Rolled(usage)' = Rolled(usage')
  BY DEF Rolled, Fresh
<1>5. QED
  BY <1>3, <1>4 DEF SameCounts

-----------------------------------------------------------------------------
(* Every use is counted, and the quota of calls holds.                     *)

\* The calls whose use of a kind was counted and saved in a period.
UsedOn(kind, d) == {c \in Calls : d \in counted[c][kind]}

\* Only periods that have begun were counted, and finitely many calls in each.
UseIsDated ==
    \A kind \in Uses : \A d \in Periods :
        /\ IsFiniteSet(UsedOn(kind, d))
        /\ d[1] > today \/ d[2] > unreadable => UsedOn(kind, d) = {}

CountInv == PipelineTypeOK /\ UseIsDated /\ CallsWithinQuota /\ CountersCoverUse

LEMMA MovedType ==
  ASSUME PipelineTypeOK, NEW c \in Calls, NEW place \in Awaits \cup Ends,
         Moved(c, place)
  PROVE  /\ at' \in [Calls -> {"new"} \cup Awaits \cup Ends]
         /\ posted' \subseteq Calls
BY DEF Moved, PipelineTypeOK

\* A step that counts nothing keeps the invariant, if the counters in memory
\* still show every use of today.
LEMMA NothingCounted ==
  ASSUME CountInv, PipelineTypeOK', UNCHANGED <<today, unreadable, counted, disk>>,
         \A k \in Uses :
            Cardinality(UsedOn(k, Period)) <= Rolled(usage)'.count[k]
  PROVE  CountInv'
<1>0. Period' = Period
  BY DEF Period
<1>1. \A k \in Uses : \A d : UsedOn(k, d)' = UsedOn(k, d)
  BY DEF UsedOn
<1>2. Loaded' = Loaded
  BY DEF Loaded, Fresh
<1>3. UseIsDated' /\ CallsWithinQuota'
  BY <1>1 DEF CountInv, UseIsDated, CallsWithinQuota
<1>4. CountersCoverUse'
  BY <1>0, <1>1, <1>2 DEF CountInv, CountersCoverUse, UsedOn
<1>5. QED
  BY <1>3, <1>4 DEF CountInv

\* A check that lets the counters stand, or rolls them over, counts nothing.
LEMMA SameCountsKept ==
  ASSUME CountInv, PipelineTypeOK', UNCHANGED <<today, unreadable, counted, disk>>,
         SameCounts(usage)
  PROVE  CountInv'
<1>1. \A k \in Uses : Cardinality(UsedOn(k, Period)) <= Rolled(usage)'.count[k]
  BY DEF SameCounts, CountInv, CountersCoverUse, UsedOn
<1>2. QED
  BY <1>1, NothingCounted

\* A use that is counted but not saved only raises the counter in memory.
LEMMA UnsavedKept ==
  ASSUME CountInv, PipelineTypeOK', UNCHANGED <<today, unreadable, counted, disk>>,
         NEW kind \in Uses, Rolled(usage)' = Plus(usage, kind)
  PROVE  CountInv'
<1>0. PipelineTypeOK /\ usage \in Counter
  BY DEF CountInv, PipelineTypeOK
<1>1. \A k \in Uses : Rolled(usage)'.count[k]
                        \in {Rolled(usage).count[k], Rolled(usage).count[k] + 1}
  BY <1>0, PlusCounts
<1>2. \A k \in Uses : Rolled(usage).count[k] \in Nat
  BY <1>0, RolledType
<1>3. ASSUME NEW k \in Uses
      PROVE  Cardinality(UsedOn(k, Period)) <= Rolled(usage)'.count[k]
  <2>1. Cardinality(UsedOn(k, Period)) <= Rolled(usage).count[k]
    BY DEF CountInv, CountersCoverUse, UsedOn
  <2>2. Cardinality(UsedOn(k, Period)) \in Nat
    BY <1>0, PeriodType, FS_CardinalityType DEF CountInv, UseIsDated
  <2>3. QED
    BY <1>1, <1>2, <2>1, <2>2
<1>4. QED
  BY <1>3, NothingCounted

\* A use that is counted and saved adds one call at most to its day, and one
\* to both counters; a call is counted only below the quota.
LEMMA CountedOnce ==
  ASSUME CountInv, PipelineTypeOK', UNCHANGED <<today, unreadable>>,
         NEW c \in Calls, NEW kind \in Uses,
         counted' = [counted EXCEPT ![c][kind] = @ \cup {Period}],
         disk' = Plus(usage, kind), Rolled(usage)' = Plus(usage, kind),
         kind = "mcp_calls" => ~OverLimit(usage, "mcp_calls")
  PROVE  CountInv'
<1>0. /\ PipelineTypeOK /\ usage \in Counter /\ today \in 1 .. MaxDay
      /\ unreadable \in 0 .. MaxUnreadable /\ Period \in Periods /\ Period' = Period
      /\ unreadable' = unreadable /\ today' = today
      /\ counted \in [Calls -> [Uses -> SUBSET Periods]]
  BY DEF CountInv, PipelineTypeOK, Period, Periods
<1>1. /\ \A k \in Uses, d \in Periods :
           k # kind \/ d # Period => UsedOn(k, d)' = UsedOn(k, d)
      /\ UsedOn(kind, Period)' = UsedOn(kind, Period) \cup {c}
  BY <1>0 DEF UsedOn
<1>2. /\ \A k \in Uses, d \in Periods :
           IsFiniteSet(UsedOn(k, d)) /\ Cardinality(UsedOn(k, d)) \in Nat
      /\ IsFiniteSet(UsedOn(kind, Period)')
      /\ Cardinality(UsedOn(kind, Period)') \in Nat
      /\ Cardinality(UsedOn(kind, Period)') <= Cardinality(UsedOn(kind, Period)) + 1
  <2>1. \A k \in Uses, d \in Periods :
          IsFiniteSet(UsedOn(k, d)) /\ Cardinality(UsedOn(k, d)) \in Nat
    BY FS_CardinalityType DEF CountInv, UseIsDated
  <2>2. /\ IsFiniteSet(UsedOn(kind, Period) \cup {c})
        /\ Cardinality(UsedOn(kind, Period) \cup {c}) =
             IF c \in UsedOn(kind, Period) THEN Cardinality(UsedOn(kind, Period))
                                          ELSE Cardinality(UsedOn(kind, Period)) + 1
    BY <1>0, <2>1, FS_AddElement
  <2>3. QED
    BY <1>0, <1>1, <2>1, <2>2
<1>3. /\ Plus(usage, kind).count[kind] = Rolled(usage).count[kind] + 1
      /\ \A k \in Uses \ {kind} : Plus(usage, kind).count[k] = Rolled(usage).count[k]
      /\ Plus(usage, kind).day = today
      /\ \A k \in Uses : Rolled(usage).count[k] \in Nat
  BY <1>0, PlusCounts, RolledType
<1>4. \A k \in Uses : Cardinality(UsedOn(k, Period)) <= Rolled(usage).count[k]
  BY DEF CountInv, CountersCoverUse, UsedOn
<1>5. UseIsDated'
  <2>1. ASSUME NEW k \in Uses, NEW d \in Periods
        PROVE  /\ IsFiniteSet(UsedOn(k, d)')
               /\ d[1] > today \/ d[2] > unreadable => UsedOn(k, d)' = {}
    <3>1. d[1] > today \/ d[2] > unreadable => d # Period
      BY <1>0 DEF Period
    <3>2. CASE k = kind /\ d = Period
      BY <1>0, <1>2, <3>1, <3>2
    <3>3. CASE k # kind \/ d # Period
      BY <1>1, <1>2, <3>3 DEF CountInv, UseIsDated
    <3>4. QED
      BY <3>2, <3>3
  <2>2. QED
    BY <1>0, <2>1 DEF UseIsDated
<1>6. Loaded' = Plus(usage, kind)
  BY <1>3 DEF Loaded
<1>7. ASSUME NEW k \in Uses
      PROVE  Cardinality(UsedOn(k, Period)') <= Plus(usage, kind).count[k]
  <2>1. CASE k = kind
    BY <1>0, <1>2, <1>3, <1>4, <2>1
  <2>2. CASE k # kind
    BY <1>0, <1>1, <1>3, <1>4, <2>2
  <2>3. QED
    BY <2>1, <2>2
<1>8. CountersCoverUse'
  BY <1>0, <1>6, <1>7 DEF CountersCoverUse, UsedOn
<1>9. CallsWithinQuota'
  <2> SUFFICES ASSUME ~Trial, UsageLimit["mcp_calls"] > 0, NEW d \in Periods
               PROVE  Cardinality(UsedOn("mcp_calls", d)') <= UsageLimit["mcp_calls"]
    BY DEF CallsWithinQuota, UsedOn
  <2>0. "mcp_calls" \in Uses /\ UsageLimit["mcp_calls"] \in Nat
    BY PipelineAssumption DEF Uses
  <2>1. CASE kind = "mcp_calls" /\ d = Period
    <3>1. Rolled(usage).count["mcp_calls"] < UsageLimit["mcp_calls"]
      BY <1>3, <2>0, <2>1 DEF OverLimit
    <3>2. UsedOn("mcp_calls", d)' = UsedOn(kind, Period)'
      BY <1>0, <2>1 DEF UsedOn
    <3>3. /\ Cardinality(UsedOn(kind, Period)) <= Rolled(usage).count["mcp_calls"]
          /\ Cardinality(UsedOn(kind, Period)) \in Nat
          /\ Rolled(usage).count["mcp_calls"] \in Nat
      BY <1>0, <1>2, <1>3, <1>4, <2>0, <2>1
    <3>4. QED
      BY <1>2, <2>0, <3>1, <3>2, <3>3
  <2>2. CASE kind # "mcp_calls" \/ d # Period
    <3>1. Cardinality(UsedOn("mcp_calls", d)) <= UsageLimit["mcp_calls"]
      BY DEF CountInv, CallsWithinQuota, UsedOn
    <3>2. QED
      BY <1>1, <2>0, <2>2, <3>1
  <2>3. QED
    BY <2>1, <2>2
<1>10. QED
  BY <1>5, <1>8, <1>9 DEF CountInv

LEMMA CountInit == PipelineInit => CountInv
<1> SUFFICES ASSUME PipelineInit PROVE CountInv
  OBVIOUS
<1>1. today \in 1 .. MaxDay /\ 0 \in 0 .. MaxRetries /\ 0 \in 0 .. MaxUnreadable
      /\ 0 \in 0 .. MaxProxyRestarts /\ 0 \in 0 .. MaxReloads
  BY PipelineAssumption DEF PipelineInit
<1>2. Fresh \in Counter
  BY <1>1 DEF Fresh, Counter
<1>3. PipelineTypeOK
  BY <1>1, <1>2 DEF PipelineInit, PipelineTypeOK
<1>4. \A k \in Uses, d \in Periods :
        UsedOn(k, d) = {} /\ IsFiniteSet(UsedOn(k, d)) /\ Cardinality(UsedOn(k, d)) = 0
  <2>1. \A k \in Uses, d \in Periods : UsedOn(k, d) = {}
    BY DEF PipelineInit, UsedOn
  <2>2. QED
    BY <2>1, FS_EmptySet
<1>5. \A k \in Uses : Rolled(usage).count[k] = 0 /\ Loaded.count[k] = 0
  BY DEF PipelineInit, Rolled, Loaded, Fresh
<1>6. UseIsDated
  BY <1>4 DEF UseIsDated
<1>7. CountersCoverUse
  <2>1. \A k \in Uses : Cardinality({c \in Calls : Period \in counted[c][k]}) = 0
    BY <1>3, <1>4, PeriodType DEF UsedOn
  <2>2. QED
    BY <1>5, <2>1 DEF CountersCoverUse
<1>8. CallsWithinQuota
  <2>1. "mcp_calls" \in Uses
    BY DEF Uses
  <2>2. \A d \in Periods : Cardinality(UsedOn("mcp_calls", d)) = 0
    BY <1>4, <2>1
  <2>3. UsageLimit["mcp_calls"] > 0 => 0 <= UsageLimit["mcp_calls"]
    BY <2>1, PipelineAssumption
  <2>4. QED
    BY <2>2, <2>3 DEF CallsWithinQuota, UsedOn
<1>9. QED
  BY <1>3, <1>6, <1>7, <1>8 DEF CountInv

LEMMA CountArrive ==
  ASSUME CountInv, NEW c \in Calls, ArriveCall(c)
  PROVE  CountInv'
<1> DEFINE u == Checked(usage, "mcp_calls")
           v == Plus(u, "mcp_calls")
<1>0. /\ PipelineTypeOK /\ usage \in Counter /\ "mcp_calls" \in Uses
      /\ counted \in [Calls -> [Uses -> SUBSET Periods]]
      /\ today \in 1 .. MaxDay
  BY DEF CountInv, PipelineTypeOK, Uses
<1>1. u \in Counter /\ Rolled(u) = Rolled(usage)
  BY <1>0, RolledType
<1>2. v = Plus(usage, "mcp_calls") /\ v \in Counter /\ Rolled(v) = v
  BY <1>0, <1>1, PlusCounts DEF Plus
<1>3. /\ policy' \in ProxyPolicies
      /\ policiesSeen' \in [Calls -> SUBSET ProxyPolicies]
      /\ UNCHANGED <<hint, route, attempts, ran, today, unreadable, proxyRestarts, reloads>>
  BY <1>0 DEF ArriveCall, PipelineTypeOK
<1>4. ASSUME NEW w \in Counter, usage' = w
      PROVE  Rolled(usage)' = Rolled(w)
  BY <1>3, <1>4 DEF Rolled, Fresh
<1> HIDE DEF u, v
<1>5. CASE /\ Stop(c, "denied", u) /\ UNCHANGED <<tools, disk, counted>>
  <2>1. PipelineTypeOK'
    BY <1>0, <1>1, <1>3, <1>5 DEF Stop, MoveOn, PipelineTypeOK, Awaits, Ends
  <2>2. SameCounts(usage)
    BY <1>1, <1>4, <1>5 DEF Stop, MoveOn, SameCounts
  <2>3. QED
    BY <1>3, <1>5, <2>1, <2>2, SameCountsKept
<1>6. CASE CountUnsaved /\ Stop(c, "error", v) /\ UNCHANGED tools
  <2>1. PipelineTypeOK'
    BY <1>0, <1>2, <1>3, <1>6 DEF Stop, MoveOn, PipelineTypeOK, Awaits, Ends, CountUnsaved
  <2>2. Rolled(usage)' = Plus(usage, "mcp_calls")
    BY <1>2, <1>4, <1>6 DEF Stop, MoveOn
  <2>3. QED
    BY <1>0, <1>3, <1>6, <2>1, <2>2, UnsavedKept DEF CountUnsaved
<1>7. ASSUME ~OverLimit(usage, "mcp_calls"), Count(c, u, "mcp_calls"), usage' = v,
             tools' \subseteq Calls,
             at' \in [Calls -> {"new"} \cup Awaits \cup Ends], posted' \subseteq Calls
      PROVE  CountInv'
  <2>1. counted' \in [Calls -> [Uses -> SUBSET Periods]]
    BY <1>0, <1>7, PeriodType DEF Count
  <2>2. disk' = v /\ disk' = Plus(usage, "mcp_calls")
    BY <1>2, <1>7 DEF Count, v
  <2>3. PipelineTypeOK'
    BY <1>0, <1>2, <1>3, <1>7, <2>1, <2>2 DEF PipelineTypeOK
  <2>4. Rolled(usage)' = Plus(usage, "mcp_calls")
    BY <1>2, <1>4, <1>7
  <2>5. QED
    BY <1>0, <1>3, <1>7, <2>2, <2>3, <2>4, CountedOnce DEF Count
<1>8. CASE /\ ~OverLimit(usage, "mcp_calls")
           /\ Count(c, u, "mcp_calls")
           /\ \/ Stop(c, "denied", v) /\ UNCHANGED tools
              \/ tools' = tools \cup {c} /\ Stop(c, "health", v)
              \/ UNCHANGED tools /\ MoveOn(c, "upstream", v) /\ posted' = posted \cup {c}
  BY <1>0, <1>7, <1>8 DEF Stop, MoveOn, PipelineTypeOK, Awaits, Ends
<1>9. QED
  BY <1>5, <1>6, <1>8 DEF ArriveCall, u, v

LEMMA CountHealth ==
  ASSUME CountInv, NEW c \in Calls, HealthAnswer(c)
  PROVE  CountInv'
<1>0. /\ PipelineTypeOK /\ usage \in Counter
      /\ UNCHANGED <<policy, tools, hint, attempts, ran, disk, today, counted,
                     policiesSeen, unreadable, proxyRestarts, reloads>>
      /\ route' \in [Calls -> BOOLEAN]
  <2>1. /\ PipelineTypeOK /\ usage \in Counter
        /\ route \in [Calls -> BOOLEAN]
    BY DEF CountInv, PipelineTypeOK
  <2> DEFINE held == c \in policy.routed
  <2>2. held \in BOOLEAN
    OBVIOUS
  <2>3. route' = route \/ route' = [route EXCEPT ![c] = held]
    BY DEF HealthAnswer
  <2> HIDE DEF held
  <2>4. route' \in [Calls -> BOOLEAN]
    BY <2>1, <2>2, <2>3
  <2>5. QED
    BY <2>1, <2>4 DEF HealthAnswer
<1>1. CASE Stop(c, "denied", usage)
  <2>1. SameCounts(usage)
    BY <1>0, <1>1 DEF Stop, MoveOn, SameCounts, Rolled, Fresh
  <2>2. PipelineTypeOK'
    BY <1>0, <1>1 DEF Stop, MoveOn, PipelineTypeOK, Awaits, Ends
  <2>3. QED
    BY <1>0, <2>1, <2>2, SameCountsKept
<1>2. CASE AskRisk(c, usage)
  <2>1. SameCounts(usage)
    BY <1>0, <1>2, RiskCounts
  <2>2. at' \in [Calls -> {"new"} \cup Awaits \cup Ends] /\ posted' \subseteq Calls
    BY <1>0, <1>2, RiskLeads, MovedType DEF Awaits, Ends
  <2>3. PipelineTypeOK'
    BY <1>0, <2>1, <2>2 DEF PipelineTypeOK, SameCounts
  <2>4. QED
    BY <1>0, <2>1, <2>3, SameCountsKept
<1>3. QED
  BY <1>1, <1>2 DEF HealthAnswer

LEMMA CountLayer ==
  ASSUME CountInv, NEW c \in Calls, NEW layer \in Layers, LayerAnswer(c, layer)
  PROVE  CountInv'
<1> DEFINE v == Plus(usage, layer)
<1>0. /\ PipelineTypeOK /\ usage \in Counter /\ layer \in Uses
      /\ today \in 1 .. MaxDay
      /\ counted \in [Calls -> [Uses -> SUBSET Periods]]
      /\ UNCHANGED <<policy, tools, route, attempts, ran, today,
                     policiesSeen, unreadable, proxyRestarts, reloads>>
  BY DEF CountInv, PipelineTypeOK, LayerAnswer, Uses
<1>1. v \in Counter /\ Rolled(v) = v
  BY <1>0, PlusCounts
<1>2. PICK h \in {"allow", "deny", "unavailable"} :
        \/ UNCHANGED hint /\ CountUnsaved /\ Stop(c, "error", v)
        \/ /\ hint' = [hint EXCEPT ![c][layer] = h]
           /\ Count(c, usage, layer)
           /\ \/ Stop(c, "denied", v)
              \/ AskIntent(c, v)
              \/ Forward(c, v)
  BY DEF LayerAnswer
<1>r. Rolled(usage') = Rolled(usage)'
  BY <1>0 DEF Rolled, Fresh
<1> HIDE DEF v
<1>3. CASE UNCHANGED hint /\ CountUnsaved /\ Stop(c, "error", v)
  <2>1. PipelineTypeOK'
    BY <1>0, <1>1, <1>3 DEF Stop, MoveOn, CountUnsaved, PipelineTypeOK, Awaits, Ends
  <2>2. Rolled(usage)' = Plus(usage, layer)
    BY <1>1, <1>3, <1>r DEF Stop, MoveOn, v
  <2>3. QED
    BY <1>0, <1>3, <2>1, <2>2, UnsavedKept DEF CountUnsaved
<1>4. CASE /\ hint' = [hint EXCEPT ![c][layer] = h]
           /\ Count(c, usage, layer)
           /\ Stop(c, "denied", v) \/ AskIntent(c, v) \/ Forward(c, v)
  <2>1. SameCounts(v)
    <3>1. CASE AskIntent(c, v)
      BY <1>0, <1>1, <3>1, IntentCounts
    <3>2. CASE Stop(c, "denied", v) \/ Forward(c, v)
      BY <1>1, <1>r, <3>2, ForwardLeads DEF Stop, MoveOn, SameCounts
    <3>3. QED
      BY <1>4, <3>1, <3>2
  <2>2. at' \in [Calls -> {"new"} \cup Awaits \cup Ends] /\ posted' \subseteq Calls
    <3>1. CASE AskIntent(c, v) \/ Forward(c, v)
      BY <1>0, <3>1, IntentLeads, ForwardLeads, MovedType DEF Awaits, Ends
    <3>2. CASE Stop(c, "denied", v)
      BY <1>0, <3>2 DEF Stop, MoveOn, PipelineTypeOK, Awaits, Ends
    <3>3. QED
      BY <1>4, <3>1, <3>2
  <2>3. hint' \in [Calls -> [Layers -> {"none", "allow", "deny", "unavailable"}]]
    BY <1>0, <1>4 DEF PipelineTypeOK
  <2>4. counted' \in [Calls -> [Uses -> SUBSET Periods]]
    BY <1>0, <1>4, PeriodType DEF Count
  <2>5. disk' = v
    BY <1>4 DEF Count, v
  <2>6. PipelineTypeOK'
    BY <1>0, <1>1, <2>1, <2>2, <2>3, <2>4, <2>5 DEF PipelineTypeOK, SameCounts
  <2>7. Rolled(usage)' = Plus(usage, layer) /\ disk' = Plus(usage, layer)
    BY <1>1, <2>1, <2>5 DEF SameCounts, v
  <2>8. layer # "mcp_calls"
    BY DEF Layers
  <2>9. QED
    BY <1>0, <1>4, <2>6, <2>7, <2>8, CountedOnce DEF Count
<1>5. QED
  BY <1>2, <1>3, <1>4

\* The other stages of a call leave the counters alone.
LEMMA CountOther ==
  ASSUME CountInv, NEW c \in Calls,
         RefuseCall(c) \/ ExecutorAnswer(c) \/ UpstreamAnswer(c)
  PROVE  CountInv'
<1>0. /\ PipelineTypeOK /\ usage \in Counter /\ attempts[c] \in 0 .. MaxRetries
      /\ UNCHANGED <<policy, tools, hint, route, usage, disk, today, counted,
                     policiesSeen, unreadable, proxyRestarts, reloads>>
  BY DEF CountInv, PipelineTypeOK, RefuseCall, ExecutorAnswer, UpstreamAnswer, Stop, MoveOn
<1>1. /\ at' \in [Calls -> {"new"} \cup Awaits \cup Ends]
      /\ posted' \subseteq Calls /\ ran' \subseteq Calls
  BY <1>0 DEF RefuseCall, ExecutorAnswer, UpstreamAnswer, Stop, MoveOn, PipelineTypeOK,
              Awaits, Ends
<1>2. attempts' \in [Calls -> 0 .. MaxRetries]
  BY SMTT(30), <1>0, PipelineAssumption DEF RefuseCall, ExecutorAnswer, UpstreamAnswer, RetryLeft,
     NextAttempt, PipelineTypeOK
<1>3. PipelineTypeOK'
  BY <1>0, <1>1, <1>2 DEF PipelineTypeOK
<1>4. SameCounts(usage)
  BY <1>0 DEF SameCounts, Rolled, Fresh
<1>5. QED
  BY <1>0, <1>3, <1>4, SameCountsKept

LEMMA CountReplace ==
  ASSUME CountInv, NEW p \in ProxyPolicies, ReplacePolicy(p)
  PROVE  CountInv'
<1>0. /\ PipelineTypeOK /\ usage \in Counter
      /\ UNCHANGED <<usage, disk, today, unreadable, counted>>
  BY DEF CountInv, PipelineTypeOK, ReplacePolicy
<1>1. PipelineTypeOK'
  BY <1>0, PipelineAssumption DEF ReplacePolicy, PipelineTypeOK
<1>2. SameCounts(usage)
  BY <1>0 DEF SameCounts, Rolled, Fresh
<1>3. QED
  BY <1>0, <1>1, <1>2, SameCountsKept

\* A new period, of a new day or after a read that failed, starts from nothing.
LEMMA PeriodBegins ==
  ASSUME CountInv, PipelineTypeOK', UNCHANGED <<disk, counted>>,
         today' \in Nat, unreadable' \in Nat,
         \/ today' = today + 1 /\ UNCHANGED unreadable
         \/ unreadable' = unreadable + 1 /\ UNCHANGED today
  PROVE  CountInv'
<1>0. PipelineTypeOK /\ today \in 1 .. MaxDay /\ unreadable \in 0 .. MaxUnreadable
  BY DEF CountInv, PipelineTypeOK
<1>1. \A k \in Uses : \A d : UsedOn(k, d)' = UsedOn(k, d)
  BY DEF UsedOn
<1>2. /\ Period' \in Periods
      /\ Period'[1] > today \/ Period'[2] > unreadable
  BY <1>0 DEF PipelineTypeOK, Period, Periods
<1>3. \A k \in Uses : Cardinality(UsedOn(k, Period)') = 0
  <2>1. \A k \in Uses : UsedOn(k, Period)' = {}
    BY <1>2 DEF CountInv, UseIsDated, UsedOn
  <2>2. QED
    BY <2>1, FS_EmptySet
<1>4. UseIsDated'
  <2>1. \A d \in Periods : d[1] > today' \/ d[2] > unreadable' => d[1] > today \/ d[2] > unreadable
    BY <1>0 DEF Periods
  <2>2. Periods' = Periods
    OBVIOUS
  <2>3. QED
    BY <1>1, <2>1, <2>2 DEF CountInv, UseIsDated
<1>5. CountersCoverUse'
  <2>1. Rolled(usage)' \in Counter /\ Loaded' \in Counter
    BY DEF Rolled, Loaded, Fresh, Counter, PipelineTypeOK
  <2>2. \A k \in Uses : Rolled(usage)'.count[k] \in Nat /\ Loaded'.count[k] \in Nat
    BY <2>1 DEF Counter
  <2>3. QED
    BY <1>3, <2>2 DEF CountersCoverUse, UsedOn
<1>6. CallsWithinQuota'
  BY <1>1 DEF CountInv, CallsWithinQuota, UsedOn
<1>7. QED
  BY <1>4, <1>5, <1>6 DEF CountInv

\* Loading the file shows what was used in the period, or begins another.
LEMMA CountLoad ==
  ASSUME CountInv, PublicUsage \/ RestartProxy
  PROVE  CountInv'
<1>0. /\ PipelineTypeOK /\ usage \in Counter
      /\ Loaded \in Counter /\ Rolled(Loaded) = Rolled(disk) /\ Loaded = Rolled(disk)
      /\ unreadable \in 0 .. MaxUnreadable /\ today \in 1 .. MaxDay
      /\ UNCHANGED <<disk, today, counted>> /\ LoadUsage
      /\ Fresh \in Counter
  BY LoadedType, FreshType DEF CountInv, PipelineTypeOK, PublicUsage, RestartProxy
<1>1. unreadable' \in 0 .. MaxUnreadable /\ usage' \in Counter
  BY <1>0, PipelineAssumption DEF LoadUsage
<1>2. PipelineTypeOK'
  BY <1>0, <1>1, PipelineAssumption DEF PublicUsage, RestartProxy, PipelineTypeOK, Ends
<1>3. CASE usage' = Loaded /\ UNCHANGED unreadable
  <2>1. Rolled(usage') = Rolled(usage)'
    BY <1>0 DEF Rolled, Fresh
  <2>2. \A k \in Uses : Cardinality(UsedOn(k, Period)) <= Rolled(usage)'.count[k]
    BY <1>0, <1>3, <2>1 DEF CountInv, CountersCoverUse, UsedOn
  <2>3. QED
    BY <1>0, <1>2, <1>3, <2>2, NothingCounted
<1>4. CASE unreadable' = unreadable + 1
  BY <1>0, <1>1, <1>2, <1>4, PeriodBegins
<1>5. QED
  BY <1>0, <1>3, <1>4 DEF LoadUsage

LEMMA CountNewDay == CountInv /\ NewDay => CountInv'
<1> SUFFICES ASSUME CountInv, NewDay PROVE CountInv'
  OBVIOUS
<1>1. /\ PipelineTypeOK /\ today \in 1 .. MaxDay /\ today' = today + 1
      /\ today' \in 1 .. MaxDay
      /\ UNCHANGED <<usage, disk, counted, unreadable>> /\ unreadable \in 0 .. MaxUnreadable
  BY PipelineAssumption DEF CountInv, PipelineTypeOK, NewDay
<1>2. PipelineTypeOK'
  BY <1>1 DEF NewDay, PipelineTypeOK
<1>3. QED
  BY <1>1, <1>2, PeriodBegins

LEMMA CountNext == CountInv /\ [PipelineNext]_pipelineVars => CountInv'
<1> SUFFICES ASSUME CountInv, [PipelineNext]_pipelineVars PROVE CountInv'
  OBVIOUS
<1>1. CASE PipelineNext
  BY <1>1, CountArrive, CountHealth, CountLayer, CountOther, CountReplace, CountLoad, CountNewDay
     DEF PipelineNext, AnswerAwait
<1>2. CASE UNCHANGED pipelineVars
  BY ZenonT(60), <1>2 DEF pipelineVars, CountInv, PipelineTypeOK, UseIsDated, UsedOn, CallsWithinQuota,
     CountersCoverUse, Rolled, Loaded, Fresh, Counter, Period
<1>3. QED
  BY <1>1, <1>2

LEMMA CountInvariant == PipelineSpec => []CountInv
BY CountInit, CountNext, PTL DEF PipelineSpec

\* No more calls pass than the daily quota in a day, or between two reads of the
\* usage file that fail; and the counters, in memory or as a restart would load
\* them, cover what was used today since the last such read.
THEOREM UseStaysCounted == PipelineSpec => []UseIsCounted
<1>1. CountInv => UseIsCounted
  BY DEF CountInv, UseIsCounted
<1>2. QED
  BY <1>1, CountInvariant, PTL

-----------------------------------------------------------------------------
(* Nothing leaves the proxy that the policies in force had not let through. *)

\* What the hint of a layer must be once the call passed the layer.
ClearedBy(c, layer) ==
    (\A p \in policiesSeen[c] : Enforced(p, layer)) =>
        /\ hint[c][layer] \in {"allow", "unavailable"}
        /\ (\A p \in policiesSeen[c] : p.strict) => hint[c][layer] = "allow"

Out(c) == c \in posted \/ c \in ran

\* A call that has not arrived has left no trace.
NewIsUntouched(c) == at[c] = "new" => ~Out(c) /\ c \notin tools

\* The checks before the first await let the call through.
EarlyPassed(c) ==
    /\ at[c] \in Awaits => policy \in policiesSeen[c]
    /\ at[c] \in Awaits \/ Out(c) => \E p \in policiesSeen[c] : c \notin p.denied

\* Nothing of a call is out while a check of it is under way.
NotYetOut(c) == at[c] \in {"health", "llm_risk", "tool_intent"} => ~Out(c)

\* A layer that was passed had cleared the call.
RiskPassed(c) ==
    c \in tools /\ (at[c] \in {"tool_intent", "executor"} \/ Out(c)) =>
        ClearedBy(c, "llm_risk")
IntentPassed(c) ==
    c \in tools /\ (at[c] = "executor" \/ Out(c)) => ClearedBy(c, "tool_intent")

\* The executor check sent the call to the executor, if all policies hold it
\* to that.
HeldToExecutor(c) == \A p \in policiesSeen[c] : c \in p.routed /\ p.firm
RouteKept(c) ==
    at[c] \in {"llm_risk", "tool_intent"} /\ HeldToExecutor(c) => route[c]
RanBeforePost(c) == c \in posted /\ c \in tools /\ HeldToExecutor(c) => c \in ran

ClearedSoFar(c) ==
    /\ NewIsUntouched(c) /\ EarlyPassed(c) /\ NotYetOut(c)
    /\ RiskPassed(c) /\ IntentPassed(c) /\ RouteKept(c) /\ RanBeforePost(c)

ClearInv == \A c \in Calls : ClearedSoFar(c)

\* What is known of a call depends on its own state and the policy only.
LEMMA CallUntouched ==
  ASSUME NEW d \in Calls, ClearedSoFar(d),
         at'[d] = at[d], hint'[d] = hint[d], route'[d] = route[d],
         policiesSeen'[d] = policiesSeen[d], UNCHANGED policy,
         d \in tools' <=> d \in tools, d \in posted' <=> d \in posted,
         d \in ran' <=> d \in ran
  PROVE  ClearedSoFar(d)'
BY DEF ClearedSoFar, NewIsUntouched, EarlyPassed, NotYetOut, RiskPassed, IntentPassed,
       RouteKept, RanBeforePost, ClearedBy, Out, HeldToExecutor

\* A call that stops, or answers, with all that is out of it as before.
LEMMA StoppedKept ==
  ASSUME PipelineTypeOK, ClearInv, NEW c \in Calls, NEW place \in Ends,
         Moved(c, place),
         UNCHANGED <<policy, tools, ran, policiesSeen>>,
         \A d \in Calls \ {c} : hint'[d] = hint[d] /\ route'[d] = route[d],
         Out(c) => hint'[c] = hint[c]
  PROVE  ClearInv'
<1>1. /\ at'[c] = place /\ posted' = posted
      /\ \A d \in Calls \ {c} : at'[d] = at[d]
  BY DEF Moved, PipelineTypeOK, Ends
<1>2. ASSUME NEW d \in Calls \ {c} PROVE ClearedSoFar(d)'
  BY <1>1, CallUntouched DEF ClearInv
<1>3. ClearedSoFar(c)'
  BY <1>1 DEF ClearInv, ClearedSoFar, NewIsUntouched, EarlyPassed, NotYetOut, RiskPassed,
     IntentPassed, RouteKept, RanBeforePost, ClearedBy, Out, HeldToExecutor, Ends, Awaits
<1>4. QED
  BY <1>2, <1>3 DEF ClearInv

LEMMA ClearArrive ==
  ASSUME PipelineTypeOK, ClearInv, NEW c \in Calls, ArriveCall(c)
  PROVE  ClearInv'
<1>0. /\ at[c] = "new" /\ ~Out(c) /\ c \notin tools
      /\ UNCHANGED <<policy, hint, route, ran>>
      /\ policiesSeen' = [policiesSeen EXCEPT ![c] = {policy}]
  BY DEF ArriveCall, ClearInv, ClearedSoFar, NewIsUntouched
<1>1. PICK place \in {"denied", "error", "health", "upstream"} :
        /\ Moved(c, place)
        /\ place \in {"health", "upstream"} => c \notin policy.denied
        /\ tools' = tools \/ (place = "health" /\ tools' = tools \cup {c})
  BY DEF ArriveCall, Stop, MoveOn, Moved
<1>2. /\ at'[c] = place
      /\ place # "upstream" => posted' = posted
      /\ policiesSeen'[c] = {policy}
      /\ \A d \in Calls \ {c} :
           /\ at'[d] = at[d] /\ policiesSeen'[d] = policiesSeen[d]
           /\ d \in tools' <=> d \in tools
           /\ d \in posted' <=> d \in posted
  BY <1>0, <1>1 DEF Moved, PipelineTypeOK
<1>3. ASSUME NEW d \in Calls \ {c} PROVE ClearedSoFar(d)'
  BY <1>0, <1>2, CallUntouched DEF ClearInv
<1>4. ClearedSoFar(c)'
  BY <1>0, <1>1, <1>2 DEF ClearedSoFar, NewIsUntouched, EarlyPassed, NotYetOut, RiskPassed,
     IntentPassed, RouteKept, RanBeforePost, ClearedBy, Out, HeldToExecutor, Awaits
<1>5. QED
  BY <1>3, <1>4 DEF ClearInv

LEMMA ClearHealth ==
  ASSUME PipelineTypeOK, ClearInv, NEW c \in Calls, HealthAnswer(c)
  PROVE  ClearInv'
<1>0. /\ at[c] = "health" /\ ~Out(c) /\ policy \in policiesSeen[c]
      /\ \E p \in policiesSeen[c] : c \notin p.denied
      /\ UNCHANGED <<policy, tools, hint, ran, policiesSeen>>
      /\ ClearedSoFar(c)
  BY DEF HealthAnswer, ClearInv, ClearedSoFar, EarlyPassed, NotYetOut, Awaits
<1>1. \A d \in Calls \ {c} : route'[d] = route[d]
  BY DEF HealthAnswer, PipelineTypeOK
<1>2. CASE Stop(c, "denied", usage)
  <2>1. Moved(c, "denied")
    BY <1>2 DEF Stop, MoveOn, Moved
  <2>2. QED
    BY <1>0, <1>1, <2>1, StoppedKept DEF Ends
<1>3. CASE AskRisk(c, usage) /\ (HeldToExecutor(c) => route'[c])
  <2>1. PICK place \in {"upstream", "executor", "denied", "llm_risk", "tool_intent"} :
          /\ Moved(c, place)
          /\ place = "upstream" => ~route'[c]
          /\ place \in {"upstream", "executor"} => ~Enforced(policy, "tool_intent")
          /\ place \in {"upstream", "executor", "tool_intent"}
               => ~Enforced(policy, "llm_risk")
    BY <1>3, RiskLeads
  <2>2. /\ at'[c] = place
        /\ place # "upstream" => posted' = posted
        /\ \A d \in Calls \ {c} : at'[d] = at[d] /\ (d \in posted' <=> d \in posted)
    BY <2>1 DEF Moved, PipelineTypeOK
  <2>3. ASSUME NEW d \in Calls \ {c} PROVE ClearedSoFar(d)'
    BY <1>0, <1>1, <2>2, CallUntouched DEF ClearInv
  <2>4. /\ place \in {"upstream", "executor", "tool_intent"} => ClearedBy(c, "llm_risk")'
        /\ place \in {"upstream", "executor"} => ClearedBy(c, "tool_intent")'
    BY <1>0, <2>1 DEF ClearedBy, Enforced
  <2>5. ClearedSoFar(c)'
    BY <1>0, <1>3, <2>1, <2>2, <2>4 DEF ClearedSoFar, NewIsUntouched, EarlyPassed,
       NotYetOut, RiskPassed, IntentPassed, RouteKept, RanBeforePost, Out,
       HeldToExecutor, Awaits
  <2>6. QED
    BY <2>3, <2>5 DEF ClearInv
<1>4. QED
  <2>1. CASE route' = [route EXCEPT ![c] = c \in policy.routed] /\ AskRisk(c, usage)
    <3>1. HeldToExecutor(c) => c \in policy.routed
      BY <1>0 DEF HeldToExecutor
    <3>2. route'[c] = (c \in policy.routed)
      BY <2>1 DEF PipelineTypeOK
    <3>3. QED
      BY <1>3, <2>1, <3>1, <3>2
  <2>2. CASE ~policy.firm /\ AskRisk(c, usage)
    BY <1>0, <1>3, <2>2 DEF HeldToExecutor
  <2>3. QED
    BY <1>2, <2>1, <2>2 DEF HealthAnswer

\* A hint that does not turn the call down clears it for that layer.
LEMMA HintClears ==
  ASSUME PipelineTypeOK, NEW c \in Calls, NEW layer \in Layers,
         NEW h \in {"allow", "deny", "unavailable"},
         policy \in policiesSeen[c], ~TurnsDown(layer, h),
         hint' = [hint EXCEPT ![c][layer] = h], UNCHANGED policiesSeen
  PROVE  ClearedBy(c, layer)'
<1>1. hint'[c][layer] = h
  BY DEF PipelineTypeOK
<1>2. QED
  BY <1>1 DEF ClearedBy, Enforced, TurnsDown

LEMMA ClearLayer ==
  ASSUME PipelineTypeOK, ClearInv, NEW c \in Calls, NEW layer \in Layers,
         LayerAnswer(c, layer)
  PROVE  ClearInv'
<1> DEFINE v == Plus(usage, layer)
<1>0. /\ at[c] = layer /\ ~Out(c) /\ policy \in policiesSeen[c]
      /\ \E p \in policiesSeen[c] : c \notin p.denied
      /\ UNCHANGED <<policy, tools, route, ran, policiesSeen>>
      /\ ClearedSoFar(c)
  BY DEF LayerAnswer, ClearInv, ClearedSoFar, EarlyPassed, NotYetOut, Awaits, Layers
<1>1. PICK h \in {"allow", "deny", "unavailable"} :
        \/ UNCHANGED hint /\ Stop(c, "error", v)
        \/ /\ hint' = [hint EXCEPT ![c][layer] = h]
           /\ \/ Stop(c, "denied", v)
              \/ ~TurnsDown(layer, h) /\ layer = "llm_risk" /\ AskIntent(c, v)
              \/ ~TurnsDown(layer, h) /\ layer = "tool_intent" /\ Forward(c, v)
  BY DEF LayerAnswer
<1> HIDE DEF v
<1>2. \A d \in Calls \ {c} : hint'[d] = hint[d] /\ route'[d] = route[d]
  BY <1>0, <1>1 DEF PipelineTypeOK
<1>3. CASE Stop(c, "error", v) \/ Stop(c, "denied", v)
  <2>1. PICK place \in {"error", "denied"} : Moved(c, place)
    BY <1>3 DEF Stop, MoveOn, Moved
  <2>2. QED
    BY <1>0, <1>2, <2>1, StoppedKept DEF Ends
<1>4. ASSUME ~TurnsDown(layer, h), hint' = [hint EXCEPT ![c][layer] = h],
             NEW place \in {"upstream", "executor", "denied", "tool_intent"},
             Moved(c, place), place = "upstream" => ~route'[c],
             place = "tool_intent" => layer = "llm_risk",
             layer = "llm_risk" /\ place \in {"upstream", "executor"}
               => ~Enforced(policy, "tool_intent")
      PROVE  ClearInv'
  <2>1. /\ at'[c] = place
        /\ place # "upstream" => posted' = posted
        /\ \A d \in Calls \ {c} : at'[d] = at[d] /\ (d \in posted' <=> d \in posted)
    BY <1>4 DEF Moved, PipelineTypeOK
  <2>2. ASSUME NEW d \in Calls \ {c} PROVE ClearedSoFar(d)'
    BY <1>0, <1>2, <2>1, CallUntouched DEF ClearInv
  <2>3. ClearedBy(c, layer)'
    BY <1>0, <1>4, HintClears
  <2>4. CASE layer = "llm_risk"
    <3>1. place \in {"upstream", "executor"} => ClearedBy(c, "tool_intent")'
      BY <1>0, <1>4, <2>4 DEF ClearedBy, Enforced
    <3>2. QED
      BY <1>0, <1>4, <2>1, <2>2, <2>3, <2>4, <3>1 DEF ClearInv, ClearedSoFar,
         NewIsUntouched, EarlyPassed, NotYetOut, RiskPassed, IntentPassed, RouteKept,
         RanBeforePost, Out, HeldToExecutor, Awaits
  <2>5. CASE layer = "tool_intent"
    <3>1. c \in tools => ClearedBy(c, "llm_risk")'
      <4>1. hint'[c]["llm_risk"] = hint[c]["llm_risk"]
        BY <1>4, <2>5 DEF PipelineTypeOK, Layers
      <4>2. QED
        BY <1>0, <2>5, <4>1 DEF ClearedSoFar, RiskPassed, ClearedBy
    <3>2. QED
      BY <1>0, <1>4, <2>1, <2>2, <2>3, <2>5, <3>1 DEF ClearInv, ClearedSoFar,
         NewIsUntouched, EarlyPassed, NotYetOut, RiskPassed, IntentPassed, RouteKept,
         RanBeforePost, Out, HeldToExecutor, Awaits
  <2>6. QED
    BY <2>4, <2>5 DEF Layers
<1>5. CASE /\ hint' = [hint EXCEPT ![c][layer] = h] /\ ~TurnsDown(layer, h)
           /\ \/ layer = "llm_risk" /\ AskIntent(c, v)
              \/ layer = "tool_intent" /\ Forward(c, v)
  BY <1>4, <1>5, IntentLeads, ForwardLeads
<1>6. QED
  BY <1>1, <1>3, <1>5

LEMMA ClearExecutor ==
  ASSUME PipelineTypeOK, ClearInv, NEW c \in Calls, ExecutorAnswer(c)
  PROVE  ClearInv'
<1>0. /\ at[c] = "executor" /\ policy \in policiesSeen[c]
      /\ \E p \in policiesSeen[c] : c \notin p.denied
      /\ UNCHANGED <<policy, tools, hint, route, policiesSeen>>
      /\ ClearedSoFar(c)
  BY DEF ExecutorAnswer, ClearInv, ClearedSoFar, EarlyPassed, Awaits
<1>1. PICK place \in {"error", "executor", "denied", "done", "upstream"} :
        /\ Moved(c, place)
        /\ ran' \in {ran, ran \cup {c}}
        /\ place = "upstream" => c \in ran'
  BY DEF ExecutorAnswer, Stop, MoveOn, Moved
<1>2. /\ at'[c] = place
      /\ place # "upstream" => posted' = posted
      /\ posted \subseteq posted' /\ ran \subseteq ran'
      /\ \A d \in Calls \ {c} :
           /\ at'[d] = at[d] /\ (d \in posted' <=> d \in posted)
           /\ d \in ran' <=> d \in ran
  BY <1>1 DEF Moved, PipelineTypeOK
<1>3. ASSUME NEW d \in Calls \ {c} PROVE ClearedSoFar(d)'
  BY <1>0, <1>2, CallUntouched DEF ClearInv
<1>4. ClearedSoFar(c)'
  BY <1>0, <1>1, <1>2 DEF ClearedSoFar, NewIsUntouched, EarlyPassed, NotYetOut, RiskPassed,
     IntentPassed, RouteKept, RanBeforePost, ClearedBy, Out, HeldToExecutor, Awaits
<1>5. QED
  BY <1>3, <1>4 DEF ClearInv

\* A new policy is seen by every call under way: what cleared a call before
\* clears it still.
LEMMA ClearReplace ==
  ASSUME PipelineTypeOK, ClearInv, NEW p \in ProxyPolicies, ReplacePolicy(p)
  PROVE  ClearInv'
<1>0. /\ UNCHANGED <<at, tools, hint, route, ran, posted>>
      /\ policy' = p
      /\ policiesSeen' = [c \in Calls |-> IF c \in UnderWay THEN policiesSeen[c] \cup {p}
                                                            ELSE policiesSeen[c]]
  BY DEF ReplacePolicy
<1>1. ASSUME NEW c \in Calls PROVE ClearedSoFar(c)'
  <2>1. /\ policiesSeen[c] \subseteq policiesSeen'[c]
        /\ at[c] \in Awaits => p \in policiesSeen'[c]
    BY <1>0 DEF UnderWay
  <2>2. ClearedSoFar(c)
    BY DEF ClearInv
  <2>3. \A layer \in Layers : ClearedBy(c, layer) => ClearedBy(c, layer)'
    BY <1>0, <2>1 DEF ClearedBy, Enforced
  <2>4. HeldToExecutor(c)' => HeldToExecutor(c)
    BY <2>1 DEF HeldToExecutor
  <2>5. QED
    BY <1>0, <2>1, <2>2, <2>3, <2>4 DEF ClearedSoFar, NewIsUntouched, EarlyPassed, NotYetOut,
       RiskPassed, IntentPassed, RouteKept, RanBeforePost, Out, Layers
<1>2. QED
  BY <1>1 DEF ClearInv

LEMMA ClearRestart == ClearInv /\ RestartProxy => ClearInv'
BY DEF RestartProxy, UnderWay, ClearInv, ClearedSoFar, NewIsUntouched, EarlyPassed, NotYetOut,
   RiskPassed, IntentPassed, RouteKept, RanBeforePost, ClearedBy, Out, HeldToExecutor, Awaits

LEMMA ClearNext ==
  PipelineTypeOK /\ ClearInv /\ [PipelineNext]_pipelineVars => ClearInv'
<1> SUFFICES ASSUME PipelineTypeOK, ClearInv, [PipelineNext]_pipelineVars PROVE ClearInv'
  OBVIOUS
<1>1. ASSUME NEW c \in Calls, RefuseCall(c) \/ UpstreamAnswer(c)
      PROVE  ClearInv'
  <2>1. PICK place \in Ends : Moved(c, place)
    BY <1>1 DEF RefuseCall, UpstreamAnswer, Stop, MoveOn, Moved, Ends
  <2>2. UNCHANGED <<policy, tools, hint, route, ran, policiesSeen>>
    BY <1>1 DEF RefuseCall, UpstreamAnswer
  <2>3. QED
    BY <2>1, <2>2, StoppedKept
<1>2. CASE UNCHANGED <<policy, at, tools, hint, route, ran, posted, policiesSeen>>
  BY <1>2, CallUntouched DEF ClearInv
<1>3. CASE PublicUsage \/ NewDay \/ UNCHANGED pipelineVars
  BY <1>2, <1>3 DEF PublicUsage, NewDay, pipelineVars
<1>4. QED
  BY <1>1, <1>3, ClearArrive, ClearHealth, ClearLayer, ClearExecutor, ClearReplace,
     ClearRestart DEF PipelineNext, AnswerAwait

LEMMA ClearInit == PipelineInit => ClearInv
BY DEF PipelineInit, ClearInv, ClearedSoFar, NewIsUntouched, EarlyPassed, NotYetOut,
   RiskPassed, IntentPassed, RouteKept, RanBeforePost, Out, Awaits

LEMMA ClearInvariant == PipelineSpec => []ClearInv
<1>1. CountInv => PipelineTypeOK
  BY DEF CountInv
<1>2. QED
  BY <1>1, CountInvariant, ClearInit, ClearNext, PTL DEF PipelineSpec

\* Whatever the policy becomes while a call is under way, nothing of it goes on
\* that every policy in force meanwhile turns down; and a call they all hold to
\* the isolated executor runs there before it reaches the upstream server.
THEOREM CallsStayCleared == PipelineSpec => []CallsAreCleared
<1>1. CountInv /\ ClearInv => CallsAreCleared
  <2> SUFFICES ASSUME CountInv, ClearInv PROVE CallsAreCleared
    OBVIOUS
  <2>1. ForwardedWasCleared
    BY DEF ClearInv, ClearedSoFar, EarlyPassed, RiskPassed, IntentPassed, ClearedBy, Out,
       ForwardedWasCleared, LeftTheProxy, Layers, Awaits
  <2>2. ExecutorComesFirst
    BY DEF CountInv, PipelineTypeOK, ClearInv, ClearedSoFar, RanBeforePost, HeldToExecutor,
       ExecutorComesFirst
  <2>3. QED
    BY <2>1, <2>2 DEF CallsAreCleared
<1>2. QED
  BY <1>1, CountInvariant, ClearInvariant, PTL
=============================================================================
