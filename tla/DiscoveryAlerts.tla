-------------------------- MODULE DiscoveryAlerts --------------------------
(*****************************************************************************)
(* The discovery rules of the security proxy (mcp-security-proxy app.py):    *)
(* every denied call is kept, the rules of the policy count those of their   *)
(* window, and a rule that has enough raises an alert unless one of the same *)
(* kind is still cooling down.  Denials, alerts and cooldowns are saved to   *)
(* the history file after each of them and read back at a start.             *)
(*****************************************************************************)
EXTENDS Integers, Sequences, FiniteSets, Selection, SequencesExt, FiniteSetsExt

CONSTANTS
    Denials,       \* denied calls [tool, writes, reason, labelled]
    RuleLists,     \* discovery_rules of the policies there may be: sequences
                   \* of [signal, count, window, action, scope]
    EventsKept,    \* recent_denied_limit
    AlertsKept,    \* recent_discovery_alerts_limit
    Cooldown,      \* discovery_alert_cooldown_seconds
    DefaultWindow, \* the hour of a rule without a threshold
    TicksPerSecond, \* ticks of the clock in a second; windows and cooldowns are
                   \* whole seconds
    MaxTime, MaxDenials, MaxFaults, \* bounds on the clock, on denials and on
                                    \* writes that fail, restarts and purges
    MaxJudging     \* bound on the ticks that pass while a call is judged

AllRules == UNION {ToSet(list) : list \in RuleLists}

ASSUME DiscoveryAssumption ==
    /\ {EventsKept, AlertsKept, DefaultWindow, TicksPerSecond} \subseteq Nat \ {0}
    /\ {Cooldown, MaxTime, MaxDenials, MaxFaults, MaxJudging} \subseteq Nat
    /\ RuleLists # {} /\ RuleLists \subseteq Seq(AllRules)
    /\ \A rule \in AllRules : rule.count \in Nat /\ rule.window \in Nat

VARIABLES
    ruleList,   \* policy.discovery_rules
    time,       \* the clock, in ticks
    history,    \* what is kept in memory: [denied, alerts, last], the first
                \* two newest first, last the time each kind was fired
    onDisk,     \* the history file, its last content
    judgedAt,   \* after a denial whose rules were all evaluated, when its events
                \* were counted, or Never
    denialLog,  \* (history) the denials kept or evicted, oldest first
    alertLog,   \* (history) the alerts raised, oldest first
    faults      \* failed writes, restarts and purges so far

discoveryVars == <<ruleList, time, history, onDisk, judgedAt, denialLog, alertLog, faults>>

\* A kind of alert: _discovery_last_trigger_ts is keyed by it, without the
\* place of the rule.  Never: no time was stored for it
KindOf(rule) == <<rule.signal, rule.action, rule.scope>>
Never == -1
NothingKept ==
    [denied |-> <<>>, alerts |-> <<>>,
     last |-> [k \in {KindOf(r) : r \in AllRules} |-> Never]]
\* The file, and the two histories as far as it holds what they tell
NoHistory == [kept |-> NothingKept, log |-> <<>>, raised |-> <<>>]

DiscoveryInit ==
    /\ ruleList \in RuleLists
    /\ time = 0
    /\ history = NothingKept /\ onDisk = NoHistory
    /\ judgedAt = Never
    /\ denialLog = <<>> /\ alertLog = <<>> /\ faults = 0

-----------------------------------------------------------------------------
(* The rules                                                                 *)

WriteReasons == {"llm_risk", "tool_denied", "method_not_allowed", "blocked_pattern"}
AttackReasons == WriteReasons \cup {"llm_intent"}
\* Signals that are a family of reasons
Families ==
    {<<"untrusted_server_calls", "untrusted_server">>,
     <<"descriptor_drift_events", "descriptor">>,
     <<"execution_tool_attempts", "execution_tool">>,
     <<"sandbox_attestation_failures", "sandbox_attestation">>,
     <<"dependency_health_failures", "dependency_health">>,
     <<"security_layer_bypass_attempts", "security_layer">>,
     <<"isolated_executor_failures", "isolated_executor">>,
     <<"runtime_limits_violations", "runtime_limits">>,
     <<"rootless_verification_failures", "rootless">>,
     <<"filesystem_violations", "filesystem">>,
     <<"upstream_provenance_violations", "upstream">>,
     <<"upstream_provenance_violations", "egress_sensitive">>,
     <<"sensitive_egress_detected", "egress_sensitive">>}
\* _signal_event_matches
Matches(signal, e) ==
    \/ signal = "repeated_tool_denials"
    \/ signal = "write_tool_abuse" /\ e.writes /\ e.reason \in WriteReasons
    \/ signal = "attack_pattern_denials" /\ (e.reason \in AttackReasons \/ e.labelled)
    \/ <<signal, e.reason>> \in Families

\* A threshold that cannot be read, or has a zero in it, is the default
Readable(rule) == rule.count > 0 /\ rule.window > 0
Required(rule) ==
    IF Readable(rule) THEN rule.count
    ELSE IF rule.signal = "repeated_tool_denials" THEN 2 ELSE 1
\* (in ticks, as all that is compared with the clock)
WindowOf(rule) == (IF Readable(rule) THEN rule.window ELSE DefaultWindow) * TicksPerSecond
CooldownTicks == Cooldown * TicksPerSecond

\* What _event_ts_to_epoch makes of the timestamp of an event: strftime wrote
\* whole seconds, the clock it is compared with has fractions
Stamp(e) == e.at - (e.at % TicksPerSecond)

\* An event a rule counts: stamped in its window, of its scope, a match
Counts(rule, e, now) ==
    /\ Stamp(e) >= now - WindowOf(rule)
    /\ rule.scope = {} \/ e.call.tool \in rule.scope
    /\ Matches(rule.signal, e.call)
\* Mutant of CountedBy: at the edge of the window an event is out
CountedByShort(rule, events, now) ==
    Picked(events, {i \in DOMAIN events : /\ Counts(rule, events[i], now)
                                          /\ Stamp(events[i]) # now - WindowOf(rule)})
CountedBy(rule, events, now) ==
    Picked(events, {i \in DOMAIN events : Counts(rule, events[i], now)})

\* _build_discovery_alerts_from_events: the events come newest first, and the
\* tool named is that of the oldest
AlertOn(rule, events, now) ==
    LET matching == CountedBy(rule, events, now)
    IN  [asOf |-> now, at |-> now, kind |-> KindOf(rule), window |-> WindowOf(rule),
         required |-> Required(rule), observed |-> Len(matching),
         tool |-> Last(matching).call.tool]
\* Mutant of Due: one event short of the threshold
DueEarly(events, now) ==
    LET enough == Picked(ruleList,
                         {i \in DOMAIN ruleList : Len(CountedBy(ruleList[i], events, now)) + 1
                                                     >= Max({2, Required(ruleList[i])})})
    IN  [i \in DOMAIN enough |-> AlertOn(enough[i], events, now)]
Due(events, now) ==
    LET enough == Picked(ruleList,
                         {i \in DOMAIN ruleList : Len(CountedBy(ruleList[i], events, now))
                                                     >= Required(ruleList[i])})
    IN  [i \in DOMAIN enough |-> AlertOn(enough[i], events, now)]

CooldownOf(alert) == Min({alert.window, CooldownTicks})
\* (a kind that was never fired counts as fired at the epoch; a rule without a
\* cooldown never fires)
Cooling(last, alert) ==
    \/ CooldownOf(alert) = 0
    \/ last[alert.kind] # Never /\ alert.at - last[alert.kind] < CooldownOf(alert)

\* The clock is read when the events are counted, and again for each of the n
\* alerts that are due
Latest == Min({time + MaxJudging, MaxTime})
Readings(n, begun) ==
    {clock \in [0 .. n -> begun .. Latest] :
        clock[0] = begun /\ \A i \in 1 .. n : clock[i - 1] <= clock[i]}
FiredAt(due, clock) == [i \in DOMAIN due |-> [due[i] EXCEPT !.at = clock[i]]]

FirstOf(s, n) == SubSeq(s, 1, Min({n, Len(s)}))
\* _emit_discovery_alert, with the time it is fired stored before
Emit(h, alert) ==
    IF Cooling(h.kept.last, alert) THEN h
    ELSE [kept |-> [h.kept EXCEPT !.last[alert.kind] = alert.at,
                                     !.alerts = FirstOf(<<alert>> \o @, AlertsKept)],
          log |-> h.log, raised |-> Append(h.raised, alert)]
\* What there is after each of the alerts that are due
Evaluated(first, due) ==
    LET stage[i \in 0 .. Len(due)] == IF i = 0 THEN first ELSE Emit(stage[i - 1], due[i])
    IN  stage

-----------------------------------------------------------------------------
(* A denied call                                                             *)

\* Mutant of WithEvent: the newest is dropped when the buffer is full
WithEventDropped(d) ==
    IF Len(history.denied) >= EventsKept THEN history
    ELSE [history EXCEPT !.denied = <<[call |-> d, at |-> time]>> \o @]
WithEvent(d) ==
    [history EXCEPT !.denied = FirstOf(<<[call |-> d, at |-> time]>> \o @, EventsKept)]

\* Mutant of Restored: the cooldowns are not read back
RestoredHot(kept) == [kept EXCEPT !.last = NothingKept.last]
\* _load_runtime_history
Restored(kept) == kept
Remember(h) == history' = h.kept /\ denialLog' = h.log /\ alertLog' = h.raised

\* _record_denied_event and _evaluate_discovery_rules run to their end before
\* another call is served; time passes meanwhile.  The history is saved after the
\* event and after each alert, both in memory by then: a write that fails answers
\* 500 and ends the evaluation, a crash leaves what was saved last
DenyCall ==
    /\ Len(denialLog) < MaxDenials
    /\ \E d \in Denials, begun \in time .. Latest :
        LET recorded == WithEvent(d)
            first == [kept |-> recorded, raised |-> alertLog,
                      log |-> Append(denialLog, [call |-> d, at |-> time])]
            found == Due(recorded.denied, begun)
            n == Len(found)
        IN  \E clock \in Readings(n, begun) :
            LET stage == Evaluated(first, FiredAt(found, clock))
                before(i) == IF i = 0 THEN onDisk ELSE stage[i - 1]
                writes == {0} \cup {i \in 1 .. n : stage[i] # stage[i - 1]}
            IN  \/ /\ Remember(stage[n]) /\ onDisk' = stage[n] /\ time' = clock[n]
                   /\ judgedAt' = begun /\ UNCHANGED faults
                \/ /\ faults < MaxFaults /\ faults' = faults + 1
                   /\ judgedAt' = Never
                   /\ \E i \in writes :
                          /\ time' = clock[i]
                          /\ \/ Remember(stage[i]) /\ onDisk' = before(i)
                             \/ /\ Remember([stage[i] EXCEPT !.kept = Restored(@)])
                                /\ onDisk' = stage[i]
    /\ UNCHANGED ruleList

-----------------------------------------------------------------------------
(* Time, restarts, purges and policies                                       *)

TimePasses == time < MaxTime /\ time' = time + 1 /\ judgedAt' = Never
              /\ UNCHANGED <<ruleList, history, onDisk, denialLog, alertLog, faults>>

RestartDiscovery ==
    /\ faults < MaxFaults /\ faults' = faults + 1
    /\ Remember([onDisk EXCEPT !.kept = Restored(@)])
    /\ judgedAt' = Never
    /\ UNCHANGED <<ruleList, time, onDisk>>

\* _purge_runtime_history_store: the buffers and the cooldowns if that is
\* asked, then the file, which may be refused
PurgeHistory ==
    /\ faults < MaxFaults /\ faults' = faults + 1
    /\ \E buffers \in BOOLEAN :
        IF buffers THEN history' = NothingKept /\ denialLog' = <<>> /\ alertLog' = <<>>
        ELSE UNCHANGED <<history, denialLog, alertLog>>
    /\ onDisk' \in {onDisk, NoHistory}
    /\ judgedAt' = Never
    /\ UNCHANGED <<ruleList, time>>

ReplaceRules ==
    /\ ruleList' \in RuleLists \ {ruleList}
    /\ judgedAt' = Never
    /\ UNCHANGED <<time, history, onDisk, denialLog, alertLog, faults>>

DiscoveryNext ==
    \/ DenyCall \/ TimePasses \/ RestartDiscovery \/ PurgeHistory \/ ReplaceRules

DiscoverySpec == DiscoveryInit /\ [][DiscoveryNext]_discoveryVars

-----------------------------------------------------------------------------
(* Properties                                                                *)

DiscoveryTypeOK ==
    /\ Len(history.denied) <= EventsKept /\ Len(history.alerts) <= AlertsKept
    /\ DOMAIN history.last = {KindOf(r) : r \in AllRules}
    /\ ruleList \in RuleLists /\ judgedAt \in Nat \cup {Never}

\* Two alerts of one kind are a cooldown of the later apart, whichever rules
\* raised them and however many restarts, denials and changes of the policy lie
\* between; only a purge, or a restart before the first was ever saved, ends it
\* (_discovery_last_trigger_ts is saved with the alert).
AlertsCoolDown ==
    \A i, j \in DOMAIN alertLog :
        i < j /\ alertLog[i].kind = alertLog[j].kind =>
            alertLog[j].at - alertLog[i].at >= CooldownOf(alertLog[j])

\* A rule whose threshold was reached within the calls the buffer can hold, and
\* not in the second with which its window begins, has an alert of its kind,
\* raised since the events were counted or still cooling down then, when the call
\* that was denied is answered:
\* eviction, restarts and other rules hide none.  (Events carry the second they
\* fall in, the window starts at a fraction of one: what was denied in it may
\* count as before.)
InWindow(rule) ==
    {i \in DOMAIN denialLog :
        LET e == denialLog[i]
        IN  /\ e.at \in (judgedAt - WindowOf(rule) + TicksPerSecond - 1) .. judgedAt
            /\ e.call.tool \in rule.scope \/ rule.scope = {}
            /\ Matches(rule.signal, e.call)}
NoBurstIsMissed ==
    judgedAt # Never =>
        \A i \in DOMAIN ruleList :
            LET rule == ruleList[i]
            IN  /\ Cardinality(InWindow(rule)) >= Required(rule)
                /\ Cardinality({k \in DOMAIN denialLog :
                                   denialLog[k].at >= judgedAt - WindowOf(rule)}) <= EventsKept
                /\ Min({WindowOf(rule), CooldownTicks}) > 0
                => \E j \in DOMAIN alertLog :
                       /\ alertLog[j].kind = KindOf(rule)
                       /\ judgedAt - alertLog[j].at < Min({WindowOf(rule), CooldownTicks})

\* What an alert counts did happen in its window, the fraction of the second
\* included, in its scope, and was enough;
\* alerts still listed are the latest that were raised, newest first.
AlertsAreCounted ==
    /\ \A j \in DOMAIN alertLog :
        LET a == alertLog[j]
            within == {i \in DOMAIN denialLog :
                         LET e == denialLog[i]
                         IN  /\ e.at \in (a.asOf - a.window) .. a.asOf
                             /\ a.kind[3] = {} \/ e.call.tool \in a.kind[3]}
        IN  /\ a.required <= a.observed /\ a.observed <= Cardinality(within)
            /\ a.tool \in {denialLog[i].call.tool : i \in within}
    /\ history.alerts = FirstOf(Reverse(alertLog), AlertsKept)

\* Discovery alerts: never twice within a cooldown, never missed, and of denials
\* that were counted.
DiscoveryHolds ==
    DiscoveryTypeOK /\ AlertsCoolDown /\ NoBurstIsMissed /\ AlertsAreCounted
=============================================================================
