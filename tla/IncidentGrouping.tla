-------------------------- MODULE IncidentGrouping --------------------------
(*****************************************************************************)
(* Grouping of the alerts of an incident (services/phase3_langgraph/app/     *)
(* main.py, 288-585): a deterministic clustering, and the pause in which     *)
(* its result waits for the confirmation of an analyst.                      *)
(*                                                                           *)
(* Similarity is in hundredths.  A text left out of an alert is NoText, a    *)
(* time left out or unreadable is 0.                                         *)
(*****************************************************************************)
EXTENDS Integers, Sequences, FiniteSets, Selection, SequencesExt, FiniteSetsExt

CONSTANTS
    Alerts,     \* the alerts sent: [id, ts, rule, ip, agent, level]
    NoText,
    MaxAlerts,  \* bound: alerts of a request
    Threshold,  \* confidence_threshold
    WindowSize, \* window_minutes
    GroupRuns   \* bound: requests

ASSUME GroupingAssumption ==
    /\ MaxAlerts \in Nat /\ Threshold \in 0 .. 100 /\ WindowSize \in Nat /\ GroupRuns \in Nat
    /\ \A a \in Alerts : a.ts \in Nat /\ a.level \in Int

VARIABLES
    sentAlerts, \* the requests so far: the alerts of each, as sent
    held,       \* PENDING_GROUPINGS at the incident: the request that waits, 0 for none
    confirmed   \* what became of each request

groupingVars == <<sentAlerts, held, confirmed>>

GroupingInit == sentAlerts = <<>> /\ held = 0 /\ confirmed = <<>>

Distance(m, n) == IF m < n THEN n - m ELSE m - n
Same(left, right, field) == left[field] # NoText /\ left[field] = right[field]
Fingerprint(a) == <<a.rule, a.ip, a.agent, a.level>>

Similarity(left, right) ==
    IF Fingerprint(left) = Fingerprint(right) THEN 100
    ELSE (IF Same(left, right, "rule") THEN 45 ELSE 0)
         + (IF Same(left, right, "ip") THEN 35 ELSE 0)
         + (IF Same(left, right, "agent") THEN 15 ELSE 0)
         + (IF Distance(left.level, right.level) <= 1 THEN 5 ELSE 0)

\* Mutant of WithinWindow: of the first alert only
WithinOfFirst(a, g) ==
    a.ts = 0 \/ g.first = 0 \/ g.last = 0 \/ Distance(a.ts, g.first) <= WindowSize
WithinWindow(a, g) ==
    \/ a.ts = 0 \/ g.first = 0 \/ g.last = 0
    \/ Distance(a.ts, g.first) <= WindowSize
    \/ Distance(a.ts, g.last) <= WindowSize

\* The group an alert joins: in its window, nearest by its first alert and near
\* enough, the earliest made of those that tie; 0 when it starts one
Chosen(groups, a) ==
    LET near[n \in DOMAIN groups] == Similarity(a, groups[n].alerts[1])
        open == {n \in DOMAIN groups : WithinWindow(a, groups[n]) /\ near[n] >= Threshold}
        best == {n \in open : \A m \in open : near[m] <= near[n]}
    IN  IF best = {} THEN 0 ELSE Min(best)

Earlier(s, t) == IF s = 0 \/ (t # 0 /\ t < s) THEN t ELSE s
\* Mutant of Later: the time a group began with is its last
LaterNever(s, t) == s
Later(s, t) == IF t > s THEN t ELSE s

Joined(g, a) ==
    [g EXCEPT !.alerts = Append(@, a), !.first = Earlier(@, a.ts), !.last = Later(@, a.ts)]

Placed(groups, a) ==
    LET n == Chosen(groups, a)
    IN  IF n = 0 THEN Append(groups, [alerts |-> <<a>>, first |-> a.ts, last |-> a.ts])
        ELSE [groups EXCEPT ![n] = Joined(@, a)]

\* Mutant of ByTime: as they were sent
AsSent(alerts) == alerts
\* sorted() by time, those without one first; a tie keeps the order sent
Sooner(alerts, m, n) ==
    alerts[m].ts < alerts[n].ts \/ (alerts[m].ts = alerts[n].ts /\ m < n)
ByTime(alerts) ==
    LET place(n) == Cardinality({m \in DOMAIN alerts : Sooner(alerts, m, n)})
    IN  [k \in DOMAIN alerts |-> alerts[CHOOSE n \in DOMAIN alerts : place(n) = k - 1]]

\* What there is after each of the alerts
Grouped(alerts) ==
    LET stage[k \in 0 .. Len(alerts)] ==
            IF k = 0 THEN <<>> ELSE Placed(stage[k - 1], alerts[k])
    IN  stage
Groups(alerts) == Grouped(ByTime(alerts))[Len(alerts)]

\* Mutant of Extra: the first alert of a group counts too
ExtraOfAll(size) == size
Extra(size) == size - 1
\* of the first k sizes
Extras(sizes) ==
    LET sum[k \in 0 .. Len(sizes)] == IF k = 0 THEN 0 ELSE sum[k - 1] + Extra(sizes[k])
    IN  sum

SizesOf(groups) == [n \in DOMAIN groups |-> Len(groups[n].alerts)]
Summary(alerts) ==
    LET sizes == SizesOf(Groups(alerts))
    IN  [total |-> Len(alerts),
         groups |-> Len(sizes),
         unique |-> Cardinality({n \in DOMAIN sizes : sizes[n] = 1}),
         duplicates |-> Extras(sizes)[Len(sizes)],
         largest |-> IF sizes = <<>> THEN 0 ELSE Max({sizes[n] : n \in DOMAIN sizes})]

(* The confirmation, for one incident *)

GroupingStates == {"waiting", "completed_grouped", "completed_rejected"}

\* POST /phase3/incident-grouping/run
GroupNow(alerts, verdict) ==
    /\ verdict # "waiting"
    /\ sentAlerts' = Append(sentAlerts, alerts)
    /\ confirmed' = Append(confirmed, verdict)
    /\ UNCHANGED held

\* Mutant of HoldsNow: the one that waits keeps its place
HoldsFirst == IF held = 0 THEN Len(sentAlerts) + 1 ELSE held
HoldsNow == Len(sentAlerts) + 1

\* the same, when a confirmation is required and none is given: it replaces the
\* one that waits for the incident
GroupAndWait(alerts) ==
    /\ sentAlerts' = Append(sentAlerts, alerts)
    /\ confirmed' = Append(confirmed, "waiting")
    /\ held' = HoldsNow

\* Mutant of Freed: read and not removed
FreedNever == held
Freed == 0

\* POST .../pending/{incident_id}/resume
ResumeGrouping(decision) ==
    /\ held # 0
    /\ confirmed' =
           [confirmed EXCEPT ![held] = IF decision = "rejected" THEN "completed_rejected"
                                       ELSE "completed_grouped"]
    /\ held' = Freed
    /\ UNCHANGED sentAlerts

\* The process ends and forgets what waits
RestartGrouping ==
    /\ held # 0
    /\ held' = 0
    /\ UNCHANGED <<sentAlerts, confirmed>>

AlertLists == UNION {{s \in [1 .. n -> Alerts] : IsInjective(s)} : n \in 0 .. MaxAlerts}

GroupingNext ==
    \/ /\ Len(sentAlerts) < GroupRuns
       /\ \E alerts \in AlertLists :
            \* bound: further requests follow a first one of one alert and repeat it
            /\ sentAlerts # <<>> => alerts = sentAlerts[1] /\ Len(alerts) = 1
            /\ \/ \E verdict \in GroupingStates : GroupNow(alerts, verdict)
               \/ GroupAndWait(alerts)
    \/ \E decision \in {"approved", "rejected"} : ResumeGrouping(decision)
    \/ RestartGrouping

GroupingSpec == GroupingInit /\ [][GroupingNext]_groupingVars

-----------------------------------------------------------------------------
(* Properties.  Those of the algorithm are about the alerts of the first     *)
(* request, which takes every value of the bound.                            *)

First == IF sentAlerts = <<>> THEN <<>> ELSE sentAlerts[1]
Fresh == Len(sentAlerts) = 1 /\ held = 0

\* Types of the grouping state; no group ends before it begins.
GroupingTypeOK ==
    /\ sentAlerts \in Seq(Seq(Alerts))
    /\ held \in 0 .. Len(sentAlerts)
    /\ confirmed \in Seq(GroupingStates) /\ Len(confirmed) = Len(sentAlerts)
    /\ Fresh => \A n \in DOMAIN Groups(First) : Groups(First)[n].first <= Groups(First)[n].last

\* Where an alert is: the group, and the place in it
PlacesOf(a, groups, most) ==
    {p \in (DOMAIN groups) \X (1 .. most) :
        p[2] \in DOMAIN groups[p[1]].alerts /\ groups[p[1]].alerts[p[2]] = a}

\* The summary adds up: every alert is in one group, and the groups and the
\* duplicates are together the alerts sent.
NoAlertIsLost ==
    Fresh =>
    LET groups == Groups(First)
        s == Summary(First)
    IN  /\ \A n \in DOMAIN First :
             Cardinality(PlacesOf(First[n], groups, Len(First))) = 1
        /\ s.groups + s.duplicates = s.total
        /\ s.unique <= s.groups /\ s.largest <= s.duplicates + 1

\* Alerts with distinct times are grouped the same in whatever order they are sent.
ArrivalOrderIsIrrelevant ==
    Fresh /\ (\A m, n \in DOMAIN First : m # n => First[m].ts # First[n].ts)
        => Groups(Reverse(First)) = Groups(First)

\* An alert of the fingerprint of a group's first alert, no more than a window
\* after the alert the group took before it, is in that group and starts no
\* other.
DuplicatesShareAGroup ==
    Fresh =>
    LET groups == Groups(First)
    IN  \A g, h \in DOMAIN groups :
            g < h /\ Fingerprint(groups[g].alerts[1]) = Fingerprint(groups[h].alerts[1])
                => /\ groups[h].first > 0
                   /\ \A n \in DOMAIN groups[g].alerts :
                        Distance(groups[h].first, groups[g].alerts[n].ts) > WindowSize
                        \/ groups[g].alerts[n].ts > groups[h].first

\* No group bridges a silence longer than the window: of the alerts of a group
\* that carry a time, each comes at most a window after the one before.
NoSilenceIsBridged ==
    Fresh =>
    LET groups == Groups(First)
    IN  \A g \in DOMAIN groups :
            LET all == groups[g].alerts
                timed == Picked(all, {m \in DOMAIN all : all[m].ts # 0})
            IN  \A n \in 2 .. Len(timed) : timed[n].ts - timed[n - 1].ts <= WindowSize

\* A request that waits is decided once, and while one waits it is the latest
\* that asked for a confirmation: those it replaced wait for ever.
LatestGroupingWaits ==
    held # 0 => /\ confirmed[held] = "waiting"
                /\ \A n \in held + 1 .. Len(confirmed) : confirmed[n] # "waiting"

\* Groups account for every alert, do not depend on its arrival, keep duplicates
\* together and silences apart; and the latest request for a confirmation waits.
GroupsHold ==
    /\ GroupingTypeOK
    /\ NoAlertIsLost /\ ArrivalOrderIsIrrelevant
    /\ DuplicatesShareAGroup /\ NoSilenceIsBridged
    /\ LatestGroupingWaits
=============================================================================
