------------------------------ MODULE LlmWatch ------------------------------
(*****************************************************************************)
(* What Phase 4 keeps of its LLM-backed answers (phase4/server.py): whether  *)
(* the model answered or a fallback did, whether its verdict differed from   *)
(* the deterministic one, and whether it is implausible.  Three rolling      *)
(* windows, each trimmed only when it is itself written or read, and each by *)
(* a reading of the clock of its own: time passes within one step, too.      *)
(*****************************************************************************)
EXTENDS Naturals, Sequences, SequencesExt, FiniteSets

CONSTANTS
    WatchWindow,   \* LLM_FALLBACK_WINDOW_SECONDS
    Percent,       \* LLM_FALLBACK_THRESHOLD_PCT
    MaxSeen,       \* bound: answers
    MaxWatchTime   \* bound: seconds

ASSUME WatchAssumption ==
    /\ WatchWindow \in Nat /\ Percent \in 0 .. 100
    /\ MaxSeen \in Nat /\ MaxWatchTime \in Nat

VARIABLES
    second,
    log,       \* window -> its entries, oldest first
    callsSeen, \* every answer so far and when each window took it, for the properties only
    warned,    \* answers that raised the fallback warning
    metrics    \* what GET /metrics last answered, or NoMetrics

watchVars == <<second, log, callsSeen, warned, metrics>>

Windows == {"calls", "verdicts", "suspects"}
Count == [total : 0 .. MaxSeen, hits : 0 .. MaxSeen]
NoMetrics == [w \in Windows |-> [total |-> 0, hits |-> 0]]

WatchInit ==
    /\ second = 0
    /\ log = [w \in Windows |-> << >>]
    /\ callsSeen = << >> /\ warned = {} /\ metrics = NoMetrics

WatchTick ==
    /\ second < MaxWatchTime
    /\ second' = second + 1
    /\ UNCHANGED <<log, callsSeen, warned, metrics>>

\* Mutant of Stale: what is exactly as old as the window
StaleAtOnce(entry, now) == entry.at + WatchWindow <= now
Stale(entry, now) == entry.at + WatchWindow < now

\* Mutant of TrimmedCalls: only the oldest entry is looked at
TrimmedByOne(entries, now) ==
    IF entries # << >> /\ Stale(Head(entries), now) THEN Tail(entries) ELSE entries
\* Stale entries are dropped from the left, up to the first fresh one
TrimmedCalls(entries, now) ==
    LET kept == {i \in DOMAIN entries : ~Stale(entries[i], now)}
    IN IF kept = {} THEN << >>
       ELSE SubSeq(entries, CHOOSE i \in kept : \A j \in kept : i <= j, Len(entries))

Added(w, hit, now) == TrimmedCalls(Append(log[w], [at |-> now, hit |-> hit]), now)
Counted(entries) ==
    [total |-> Len(entries), hits |-> Cardinality({i \in DOMAIN entries : entries[i].hit})]

\* Mutant of Exceeds: more than the share, not as much
ExceedsStrictly(count) == count.total > 0 /\ count.hits * 100 > Percent * count.total
Exceeds(count) == count.total > 0 /\ count.hits * 100 >= Percent * count.total

Warn(entries) ==
    warned' = IF Exceeds(Counted(entries)) THEN warned \union {Len(callsSeen) + 1} ELSE warned

\* Mutant of Compared: a fallback's verdict is compared too
ComparedAlways(answer) == answer.verdicts
\* Verdicts are compared only where the model gave one, and the baseline too
Compared(answer) == ~answer.fallback /\ answer.verdicts
Suspected(answer) == ~answer.fallback /\ answer.pivot

Answers ==
    {a \in [pivot : BOOLEAN, fallback : BOOLEAN, verdicts : BOOLEAN,
            differs : BOOLEAN, suspect : BOOLEAN] :
        /\ ~a.pivot => ~a.verdicts /\ ~a.suspect   \* map_alerts_to_mitre_attack has no verdict
        /\ ~a.verdicts => ~a.differs}

\* When each window reads the clock within one step until end, in the order of the code
Moments(end) ==
    {now \in [Windows -> second .. end] :
        /\ now["calls"] <= now["verdicts"] /\ now["verdicts"] <= now["suspects"]
        /\ now["suspects"] = end}

RecordAnswer(answer, now) ==
    /\ Len(callsSeen) < MaxSeen
    /\ LET calls == Added("calls", answer.fallback, now["calls"])
       IN /\ log' = [calls |-> calls,
                     verdicts |-> IF Compared(answer)
                                  THEN Added("verdicts", answer.differs, now["verdicts"])
                                  ELSE log["verdicts"],
                     suspects |-> IF Suspected(answer)
                                  THEN Added("suspects", answer.suspect, now["suspects"])
                                  ELSE log["suspects"]]
          /\ Warn(calls)
    /\ callsSeen' = Append(callsSeen, [at |-> now, answer |-> answer])
    /\ second' = now["suspects"]
    /\ UNCHANGED metrics

\* GET /soc/llm-health and /soc/llm-divergence
Read(w) ==
    /\ w \in {"calls", "verdicts"}
    /\ log' = [log EXCEPT ![w] = TrimmedCalls(@, second)]
    /\ UNCHANGED <<second, callsSeen, warned, metrics>>

\* GET /metrics
ReadAll(now) ==
    /\ log' = [w \in Windows |-> TrimmedCalls(log[w], now[w])]
    /\ metrics' = [w \in Windows |-> Counted(log'[w])]
    /\ second' = now["suspects"]
    /\ UNCHANGED <<callsSeen, warned>>

WatchNext ==
    \/ WatchTick
    \/ \E end \in second .. MaxWatchTime :
        \E now \in Moments(end) :
            \/ ReadAll(now)
            \/ \E answer \in Answers : RecordAnswer(answer, now)
    \/ \E w \in Windows : Read(w)

WatchSpec == WatchInit /\ [][WatchNext]_watchVars

-----------------------------------------------------------------------------
(* Properties *)

\* The answers that window w took in the WatchWindow seconds before.
RecentEntries(w, before) ==
    {i \in DOMAIN callsSeen : callsSeen[i].at[w] + WatchWindow >= before[w]}
Where(w, before, S) == Cardinality({i \in RecentEntries(w, before) : callsSeen[i].answer \in S})

\* Types of the windows; none spans more than its length.
WatchTypeOK ==
    /\ second \in 0 .. MaxWatchTime
    /\ \A w \in Windows : \A i \in DOMAIN log[w] :
           /\ log[w][i].at \in 0 .. second
           /\ log[w][i].at + WatchWindow >= Last(log[w]).at
    /\ warned \subseteq 1 .. Len(callsSeen)
    /\ metrics \in [Windows -> Count]

\* GET /metrics counts of each window the answers it took in the WatchWindow seconds
\* before its own reading of the clock and no others, whichever window was trimmed
\* last and by which answer.
MetricsAreExact ==
    [][\A now \in Moments(second') : ReadAll(now) => metrics' =
         [calls |->
            [total |-> Where("calls", now, Answers),
             hits |-> Where("calls", now, {a \in Answers : a.fallback})],
          verdicts |->
            [total |-> Where("verdicts", now, {a \in Answers : ~a.fallback /\ a.verdicts}),
             hits |-> Where("verdicts", now, {a \in Answers : ~a.fallback /\ a.differs})],
          suspects |->
            [total |-> Where("suspects", now, {a \in Answers : ~a.fallback /\ a.pivot}),
             hits |-> Where("suspects", now, {a \in Answers : ~a.fallback /\ a.suspect})]]
      ]_watchVars

\* What of the three windows fits together when they are reported.  Read at one moment,
\* they compare no more verdicts than they examine.  If every answer was taken at one
\* moment, they examine no more than the model answered.  When time passes within a
\* step, an answer at the edge of the windows may be in one and no longer in the other.
WindowsFit ==
    [][\A now \in Moments(second') : ReadAll(now) =>
          /\ now["verdicts"] = now["suspects"] =>
                metrics'["verdicts"].total <= metrics'["suspects"].total
          /\ (\A i \in DOMAIN callsSeen : callsSeen[i].at["calls"] = callsSeen[i].at["suspects"]) =>
                metrics'["suspects"].total <= metrics'["calls"].total - metrics'["calls"].hits
      ]_watchVars

\* A fallback is warned of at once whenever the answers of the WatchWindow seconds
\* before it, whatever came earlier, are fallbacks too.
AllFallbacksWarn ==
    \A i \in DOMAIN callsSeen :
        (\A j \in 1 .. i :
            callsSeen[j].at["calls"] + WatchWindow >= callsSeen[i].at["calls"] =>
                callsSeen[j].answer.fallback)
        => i \in warned

\* The windows are exact whenever they are reported, fit together as far as their clocks
\* do, and warn when only fallbacks are left.
WatchHolds == [](WatchTypeOK /\ AllFallbacksWarn) /\ MetricsAreExact /\ WindowsFit
=============================================================================
