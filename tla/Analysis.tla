------------------------------ MODULE Analysis ------------------------------
(*****************************************************************************)
(* The analysis tools of the MCP server (phase2.py): an analysis reads from  *)
(* the indexer, OpenCTI and the graph, any of which may fail, computes its   *)
(* findings, and asks a language model for a summary, and asks again with    *)
(* less when that was too long.                                              *)
(*                                                                           *)
(* Confidences and scores are in hundredths.  An analysis shares nothing     *)
(* with another one; what it reads may change between two of its reads.      *)
(*****************************************************************************)
EXTENDS Integers, Sequences, FiniteSets, Selection, SequencesExt, FiniteSetsExt

CONSTANTS
    IndexedLogs,   \* what the indexer may hold, newest first: sequences of alerts
    LateAlerts,    \* alerts that may arrive meanwhile
    Window,        \* the length of the window asked for
    FirstMoment, LastMoment,  \* bounds on the clock
    TriageLimit,   \* alerts asked for
    CompareFloor,  \* the comparison asks for four times as many, and at least 100
    CompareCap,    \* and at most 1000
    PayloadSizes,  \* functions from Forms: how long a request is
    PayloadBudget, \* _LLM_PAYLOAD_MAX_BYTES
    ModelWindow    \* what the model can read at once

AlertsRead == LateAlerts \cup UNION {ToSet(log) : log \in IndexedLogs}
Forms == {"whole", "fewer", "bare", "trimmed", "compact", "ultra"}

ASSUME AnalysisAssumption ==
    /\ TriageLimit \in Nat /\ CompareFloor \in Nat /\ CompareCap \in Nat
    /\ PayloadBudget \in Nat /\ ModelWindow \in Nat
    /\ Window \in Nat /\ FirstMoment \in Nat /\ LastMoment \in Nat
    /\ \A sizes \in PayloadSizes : sizes \in [Forms -> Nat]
    /\ IndexedLogs \subseteq Seq(AlertsRead)
    /\ \A a \in AlertsRead : a.at \in Nat /\ a.level \in Nat /\ \A s \in a.signs : s.terms \in Nat

VARIABLES
    moment,      \* the clock
    indexedLog,  \* the alerts of the indexer, newest first
    modelOn,     \* whether a model is configured (_status)
    analysis     \* the analysis under way or answered

analysisVars == <<moment, indexedLog, modelOn, analysis>>

Flows == {"triage", "enrichment", "report", "mitre", "ioc"}
\* found: the findings; tries: how long each request to the model was
NoAnalysis == [pc |-> "idle", flow |-> "none", found |-> <<>>, tries |-> <<>>,
               sizes |-> <<>>, trouble |-> FALSE, engine |-> "none"]

AnalysisInit ==
    /\ moment = FirstMoment
    /\ indexedLog \in IndexedLogs
    /\ modelOn \in BOOLEAN
    /\ analysis = NoAnalysis

BeginAnalysis(flow, pc, found) ==
    /\ analysis.pc = "idle"
    /\ analysis' = [analysis EXCEPT !.flow = flow, !.pc = pc, !.found = found]
    /\ UNCHANGED <<moment, indexedLog, modelOn>>
Continue(pc, found) ==
    /\ analysis' = [analysis EXCEPT !.pc = pc, !.found = found]
    /\ UNCHANGED <<moment, indexedLog, modelOn>>

-----------------------------------------------------------------------------
(* Alerts: [id, at, readable, level, rule, agent, ip, rules, signs].         *)
(* readable: whether the program can read the time that the indexer sorts    *)
(* and filters by; rules and signs are the techniques named by the rule and  *)
(* by what the text says, with the number of terms that matched.             *)

\* _severity_bucket
Bucket(level) ==
    IF level >= 12 THEN "critical" ELSE IF level >= 10 THEN "high"
    ELSE IF level >= 7 THEN "medium" ELSE "low"
Buckets == {"critical", "high", "medium", "low"}
Breakdown(alerts) ==
    [b \in Buckets |-> Cardinality({i \in DOMAIN alerts : Bucket(alerts[i].level) = b})]

\* 0: in the window that ends at time now, 1: in the one before it, 2: older
Age(a, now) == IF a.at + Window >= now THEN 0 ELSE IF a.at + 2 * Window >= now THEN 1 ELSE 2

\* get_alerts: the newest that match at this moment
NewestAlerts(limit, oldest) ==
    LET hits == Picked(indexedLog, {i \in DOMAIN indexedLog : Age(indexedLog[i], moment) <= oldest})
    IN  SubSeq(hits, 1, Min({limit, Len(hits)}))
\* Those of one window, as far as their time can be read
OfAge(alerts, age, now) ==
    Picked(alerts, {i \in DOMAIN alerts : alerts[i].readable /\ Age(alerts[i], now) = age})

\* Alerts arrive between the two reads of a triage, and time passes.  Bound: an
\* alert that arrives is the newest.
AlertArrives ==
    /\ analysis.pc = "compare"
    /\ \E a \in LateAlerts \ ToSet(indexedLog) :
         /\ a.at <= moment /\ \A i \in DOMAIN indexedLog : indexedLog[i].at <= a.at
         /\ indexedLog' = <<a>> \o indexedLog
    /\ UNCHANGED <<moment, modelOn, analysis>>
ClockAdvances ==
    /\ analysis.pc = "compare"
    /\ moment < LastMoment
    /\ moment' = moment + 1
    /\ UNCHANGED <<indexedLog, modelOn, analysis>>

-----------------------------------------------------------------------------
(* Triage                                                                    *)

CompareLimit == Min({Max({TriageLimit * 4, CompareFloor}), CompareCap})

SpikeLevels(now, before) ==
    LET n == Breakdown(now)  b == Breakdown(before)
    IN  {s \in Buckets \ {"low"} : n[s] >= Max({b[s] + 3, b[s] * 2})}

\* Addresses seen three times, on two agents or by two rules
Clusters(alerts) ==
    {ip \in {alerts[i].ip : i \in DOMAIN alerts} \ {""} :
        LET mine == {i \in DOMAIN alerts : alerts[i].ip = ip}
        IN  /\ Cardinality(mine) >= 3
            /\ \/ Cardinality({alerts[i].agent : i \in mine}) >= 2
               \/ Cardinality({alerts[i].rule : i \in mine}) >= 2}

\* Mutant of Severity: of the alerts shown
SeverityShown(shown, now) == Breakdown(shown)
Severity(shown, now) == Breakdown(now)

Triage(shown, now, before, failed) ==
    [shown |-> shown, total |-> Len(now), now |-> now, before |-> before,
     severity |-> Severity(shown, now), spikes |-> SpikeLevels(now, before),
     escalate |-> Breakdown(now)["critical"] > 0 \/ Clusters(now) # {},
     failed |-> failed, log |-> indexedLog, asOf |-> moment, steps |-> {}]

\* A read that fails ends the analysis
StartTriage ==
    \/ BeginAnalysis("triage", "compare", NewestAlerts(TriageLimit, 0))
    \/ BeginAnalysis("triage", "raised", <<>>)

\* Mutant of Counted: the alerts shown, whatever the second read found
CountShown(shown, read) == shown
\* The second read's part of the window, unless that is empty
Counted(shown, read) ==
    IF OfAge(read, 0, moment) # <<>> THEN OfAge(read, 0, moment) ELSE shown

\* A second read, of two windows that end now; where it fails the window before
\* counts as empty
Compare ==
    /\ analysis.pc = "compare"
    /\ LET shown == analysis.found
           read == NewestAlerts(CompareLimit, 1)
       IN  \/ Continue("health", Triage(shown, Counted(shown, read), OfAge(read, 1, moment), FALSE))
           \/ Continue("health", Triage(shown, shown, <<>>, TRUE))

\* The agents of the alerts shown, each asked on its own; one that cannot be
\* asked counts as not healthy
ReadHealth ==
    /\ analysis.pc = "health"
    /\ \E allHealthy \in BOOLEAN :
        LET f == analysis.found
            urgent == {s \in {"critical", "high"} : f.severity[s] > 0}
                        \cup (IF allHealthy \/ f.shown = <<>> THEN {} ELSE {"agents"})
        IN  Continue("contract", [f EXCEPT !.steps = IF urgent = {} THEN {"nothing"} ELSE urgent])

-----------------------------------------------------------------------------
(* Enrichment                                                                *)

\* The calls to a source in their order, of which the first n were answered:
\* the sections it fills, and its error when one was not
CtiCalls(ip) == IF ip THEN <<"observable", "indicators", "cases">> ELSE <<"cases">>
GraphCalls(ip) == IF ip THEN <<"ip_context", "attack_chain", "lateral">> ELSE <<"lateral">>
\* Mutant of Sections: a failing source leaves nothing
AllOrNothing(calls, n, name) ==
    IF n = Len(calls) THEN ToSet(calls) ELSE {name}
Sections(calls, n, name) ==
    ToSet(SubSeq(calls, 1, n)) \cup (IF n = Len(calls) THEN {} ELSE {name})

EnrichmentSteps(matches, agent, vulnerable, src, ip, sections) ==
    LET steps == {s \in {"review", "exposure", "spread", "chain", "cases"} :
                    CASE s = "review" -> matches
                      [] s = "exposure" -> agent /\ vulnerable
                      [] s = "spread" -> src
                      [] s = "chain" -> ip /\ "attack_chain" \in sections
                      [] s = "cases" -> "cases" \in sections}
    IN  IF steps = {} THEN {"broaden"} ELSE steps

\* src, agent: the filters; the address to look up is the filter's, or that of
\* a match.  vulnerable: the agent's vulnerabilities were read, and there are some
Enrich(src, agent, matches, ipInMatch, vulnerable, cti, graph) ==
    LET ip == src \/ (matches /\ ipInMatch)
        sections == Sections(CtiCalls(ip), Min({cti, Len(CtiCalls(ip))}), "opencti")
                      \cup Sections(GraphCalls(ip), Min({graph, Len(GraphCalls(ip))}), "neo4j")
    IN  [ip |-> ip, agent |-> agent, vulnerable |-> vulnerable,
         cti |-> Min({cti, Len(CtiCalls(ip))}), graph |-> Min({graph, Len(GraphCalls(ip))}),
         sections |-> sections,
         steps |-> EnrichmentSteps(matches, agent, vulnerable, src, ip, sections)]
Enrichments ==
    {Enrich(src, agent, matches, ipInMatch, vulnerable, cti, graph) :
        src \in BOOLEAN, agent \in BOOLEAN, matches \in BOOLEAN, ipInMatch \in BOOLEAN,
        vulnerable \in BOOLEAN, cti \in 0 .. 3, graph \in 0 .. 3}
\* The matching alerts are read first: when that fails, so does the analysis
StartEnrichment ==
    \/ \E found \in Enrichments : BeginAnalysis("enrichment", "contract", found)
    \/ BeginAnalysis("enrichment", "raised", <<>>)

-----------------------------------------------------------------------------
(* The report: seven reads at once, each of which may fail.                  *)

Part == {"bad", "good", "error"}    \* something to report, nothing, not read
Asked == {"connection", "threats", "vulnerabilities", "others"}
\* Mutant of ReportSteps: a part that was not read is no trouble
ReportStepsIfRead(parts) ==
    LET steps == {p \in Asked \ {"others"} : parts[p] = "bad"}
    IN  IF steps = {} THEN {"nothing"} ELSE steps
\* The connection is in trouble unless it says "connected"
ReportSteps(parts) ==
    LET steps == {p \in Asked \ {"others"} : parts[p] = "bad"}
                   \cup {p \in {"connection"} : parts[p] = "error"}
    IN  IF steps = {} THEN {"nothing"} ELSE steps
Reports ==
    {[parts |-> parts, steps |-> IF recommend THEN ReportSteps(parts) ELSE {},
      recommend |-> recommend,
      priority |-> IF parts["vulnerabilities"] = "bad" THEN "high" ELSE "normal"] :
        parts \in [Asked -> Part], recommend \in BOOLEAN}
StartReport == \E found \in Reports : BeginAnalysis("report", "contract", found)

-----------------------------------------------------------------------------
(* Techniques                                                                *)

RuleConfidence(level) == Min({99, 88 + (2 * Min({level, 15}) + 1) \div 3})
SignConfidence(level, terms) ==
    Min({93, 45 + (5 * Min({level, 15})) \div 2 + 5 * Min({terms, 3})})

Techniques(alerts) ==
    UNION {alerts[i].rules \cup {s.technique : s \in alerts[i].signs} : i \in DOMAIN alerts}
Confidences(a, t) ==
    {RuleConfidence(a.level) : r \in a.rules \cap {t}}
      \cup {SignConfidence(a.level, s.terms) : s \in {x \in a.signs : x.technique = t}}
Mapping(alerts, t) ==
    LET evidence == {i \in DOMAIN alerts : Confidences(alerts[i], t) # {}}
        best == Max(UNION {Confidences(alerts[i], t) : i \in evidence})
        support == Min({20, (25 * Cardinality(evidence)) \div Len(alerts)})
        byRule == \E i \in evidence : t \in alerts[i].rules
    IN  [technique |-> t, support |-> Cardinality(evidence), byRule |-> byRule,
         confidence |-> Min({99, best + support + (IF byRule THEN 10 ELSE 0)})]

\* Mutant of Better: by what supports it alone
MoreSupport(m, n) == m.support > n.support
Better(m, n) ==
    \/ m.confidence > n.confidence
    \/ m.confidence = n.confidence /\ m.support > n.support
\* list.sort, best first, which leaves ties as they come
Ranked(mappings) ==
    {s \in [1 .. Cardinality(mappings) -> mappings] :
        IsInjective(s) /\ \A i, j \in DOMAIN s : i < j => ~Better(s[j], s[i])}
Mappings(alerts) == Ranked({Mapping(alerts, t) : t \in Techniques(alerts)})

\* What the model may say of a technique: "bad" is no ATT&CK id, -10 stands for
\* what is no number too
Claims == [technique : {"T1", "bad"}, confidence : {-10, 50, 150}, support : 0 .. 1]
\* Mutant of Clamp: taken as it is said
AsSaid(n) == n
Clamp(n) == Min({99, Max({0, n})})
Accepted(claims) ==
    {[technique |-> c.technique, support |-> Max({1, c.support}), byRule |-> FALSE,
      confidence |-> Clamp(c.confidence)] : c \in {d \in claims : d.technique # "bad"}}

StartMapping ==
    LET alerts == NewestAlerts(TriageLimit, 0)
    IN  \/ \E mappings \in Mappings(alerts) :
              BeginAnalysis("mitre", "classify",
                 [alerts |-> alerts, mappings |-> mappings, method |-> "rules"])
        \/ BeginAnalysis("mitre", "raised", <<>>)

\* With alerts to show and a model, its techniques replace ours, if it names one
Classify ==
    /\ analysis.pc = "classify" /\ analysis.flow = "mitre"
    /\ \/ Continue("contract", analysis.found)
       \/ /\ modelOn /\ analysis.found.alerts # <<>>
          /\ \E c, d \in Claims : \E mappings \in Ranked(Accepted({c, d})) :
                /\ Accepted({c, d}) # {}
                /\ Continue("contract",
                       [analysis.found EXCEPT !.mappings = mappings, !.method = "model"])

-----------------------------------------------------------------------------
(* Indicators                                                                *)

Kinds == {"ip", "domain", "hash", "user"}
Verdicts == {"malicious", "suspicious", "benign", "unknown"}
Verdict(score) ==
    CASE score >= 70 -> "malicious"
      [] score \in 40 .. 69 -> "suspicious"
      [] score \in 1 .. 39 -> "benign"
      [] OTHER -> "unknown"

\* Mutant of GraphKnows: a graph that could be asked knows
GraphAnswers(kind, graph) == graph # "failed"
\* The context of an address is an answer even when it is empty, rows are not
GraphKnows(kind, graph) == graph # "failed" /\ (kind = "ip" \/ graph = "rows")

\* alerts, severe: of the indexer, none when it failed; indicators: OpenCTI's,
\* whose confidence is never asked for.  A user is looked for by a property
\* that users of the graph do not have.
\* Mutant of AlertScore: without the cap
AlertScoreUncapped(alerts) == 5 * alerts
AlertScore(alerts) == Min({40, 5 * alerts})
Score(e) ==
    AlertScore(e.alerts) + (IF e.severe THEN 20 ELSE 0)
      + (IF e.indicators > 0 THEN 20 ELSE 0)
      + (IF GraphKnows(e.kind, e.graph) THEN 10 ELSE 0)
Evidences ==
    {e \in [kind : Kinds, alerts : {0, 6, 14}, severe : BOOLEAN, indicators : 0 .. 1,
            graph : {"failed", "empty", "rows"}] :
        /\ e.severe => e.alerts > 0
        /\ e.kind = "user" => e.graph # "rows"}
Baseline(e) == [verdict |-> Verdict(Score(e)), confidence |-> Min({95, Score(e)})]
StartPivot ==
    \E e \in Evidences :
        BeginAnalysis("ioc", "classify", [evidence |-> e, baseline |-> Baseline(e),
                                  result |-> Baseline(e), method |-> "rules"])

\* What the model says is taken, if it gives a reason or an action; a verdict
\* it made up is "unknown"
Opinions == [verdict : Verdicts, confidence : {0, 50, 99}]
\* Mutant of Concluded: the baseline goes with it
ConcludedAlone(found, opinion) ==
    [found EXCEPT !.result = opinion, !.baseline = opinion, !.method = "model"]
Concluded(found, opinion) == [found EXCEPT !.result = opinion, !.method = "model"]
Synthesize ==
    /\ analysis.pc = "classify" /\ analysis.flow = "ioc"
    /\ \/ Continue("contract", analysis.found)
       \/ modelOn /\ \E o \in Opinions : Continue("contract", Concluded(analysis.found, o))

-----------------------------------------------------------------------------
(* The summary                                                               *)

\* A contract over the budget loses samples, then details, then is compacted
\* down; a request that was too long is compacted twice more, each time anew,
\* which need not make it shorter: what is cut off leaves a mark of its own
Shrinking == <<"whole", "fewer", "bare">>
TrimmedForm(sizes) ==
    LET fits == {i \in DOMAIN Shrinking : sizes[Shrinking[i]] <= PayloadBudget}
    IN  IF fits = {} THEN "trimmed" ELSE Shrinking[Min(fits)]

\* Mutant of Requests: the request is repeated as it was
RequestsRepeated(sizes) ==
    LET first == sizes[TrimmedForm(sizes)] IN <<first, first, first>>
Requests(sizes) ==
    <<sizes[TrimmedForm(sizes)], sizes["compact"], sizes["ultra"]>>

Contract ==
    /\ analysis.pc = "contract"
    /\ \E sizes \in PayloadSizes :
        analysis' = [analysis EXCEPT !.sizes = sizes, !.pc = IF modelOn THEN "ask" ELSE "done",
                                     !.engine = IF modelOn THEN "none" ELSE "deterministic"]
    /\ UNCHANGED <<moment, indexedLog, modelOn>>

\* Mutant of Again: whatever went wrong
AgainAlways(try, tooLong) == try < 3
\* After the first request only for its length, after the second in any case
Again(try, tooLong) == try = 2 \/ (try = 1 /\ tooLong)

\* One request: answered, too long, or failed for another reason
Ask ==
    /\ analysis.pc = "ask"
    /\ LET try == Len(analysis.tries) + 1
           size == Requests(analysis.sizes)[try]
           asked == [analysis EXCEPT !.tries = Append(@, size)]
           Failed(tooLong) ==
               IF Again(try, tooLong) THEN asked
               ELSE [asked EXCEPT !.pc = "done", !.engine = "deterministic"]
       IN  \/ /\ size <= ModelWindow
              /\ analysis' = [asked EXCEPT !.pc = "done", !.engine = "model"]
           \/ /\ size > ModelWindow
              /\ analysis' = Failed(TRUE)
           \/ analysis' = [Failed(FALSE) EXCEPT !.trouble = TRUE]
    /\ UNCHANGED <<moment, indexedLog, modelOn>>

AnalysisNext ==
    \/ AlertArrives \/ ClockAdvances
    \/ /\ analysis.pc = "idle"
       /\ StartTriage \/ StartEnrichment \/ StartReport \/ StartMapping \/ StartPivot
    \/ Compare \/ ReadHealth \/ Classify \/ Synthesize
    \/ Contract \/ Ask

AnalysisSpec == AnalysisInit /\ [][AnalysisNext]_analysisVars

-----------------------------------------------------------------------------
(* Properties                                                                *)

Is(flow) == analysis.flow = flow /\ analysis.pc \in {"contract", "ask", "done"}
F == analysis.found

AnalysisTypeOK ==
    /\ analysis.flow \in Flows \cup {"none"}
    /\ analysis.pc \in {"idle", "compare", "health", "classify", "contract", "ask", "done",
                       "raised"}
    /\ analysis.engine \in {"none", "deterministic", "model"}
    /\ modelOn \in BOOLEAN

\* The counts of a triage are those of its total, and count every alert the
\* analyst is shown whose time can be read and that is still in the window when
\* they are counted, unless more arrived meanwhile than the comparison reads
\* beyond them (build_phase2_alert_triage reads twice).
TriageAddsUp ==
    Is("triage") =>
        /\ F.severity["critical"] + F.severity["high"] + F.severity["medium"]
             + F.severity["low"] = F.total
        /\ Len(F.log) <= CompareLimit =>
             ToSet(OfAge(F.shown, 0, F.asOf)) \subseteq ToSet(F.now)

\* A spike that is reported is one: unless the second read failed, as the
\* answer then says, or was cut, the levels that rose are those that did, of the
\* alerts whose time can be read.  When none of the window is left then, what is
\* compared is what was shown.
SpikesAreReal ==
    Is("triage") /\ ~F.failed /\ Len(F.log) <= CompareLimit =>
        LET left == OfAge(F.log, 0, F.asOf)
        IN  F.spikes = SpikeLevels(IF left # <<>> THEN left ELSE F.shown, OfAge(F.log, 1, F.asOf))

\* An enrichment keeps what a source told before it failed, and the failure:
\* everything that was answered is in it, and a source whose error is missing
\* answered everything (_fetch_external_readonly_context).
EnrichmentIsWhole ==
    Is("enrichment") =>
        /\ ToSet(SubSeq(CtiCalls(F.ip), 1, F.cti)) \subseteq F.sections
        /\ ToSet(SubSeq(GraphCalls(F.ip), 1, F.graph)) \subseteq F.sections
        /\ "opencti" \notin F.sections => F.cti = Len(CtiCalls(F.ip))
        /\ "neo4j" \notin F.sections => F.graph = Len(GraphCalls(F.ip))

\* A report that recommends says so when the connection is not sound, whether
\* it answered or not, and is not of high priority for what was not read.
ReportTellsTrouble ==
    Is("report") =>
        /\ F.recommend /\ F.parts["connection"] # "good" => "connection" \in F.steps
        /\ F.priority = "high" => F.parts["vulnerabilities"] = "bad"

\* Techniques come best first, with a confidence below certainty, whoever
\* named them; and none is named of no alert at all.
MappingIsSound ==
    analysis.flow = "mitre" /\ analysis.pc # "raised" =>
        /\ \A i, j \in DOMAIN F.mappings :
             i < j => F.mappings[i].confidence >= F.mappings[j].confidence
        /\ \A i \in DOMAIN F.mappings :
             F.mappings[i].confidence \in 0 .. 99 /\ F.mappings[i].support > 0
        /\ F.alerts = <<>> => F.mappings = <<>>
        /\ F.method = "rules" => F.mappings \in Mappings(F.alerts)

\* No single source makes an indicator malicious without the model, and one
\* that no source has anything of stays unknown, unless it is an address.
VerdictsAreEarned ==
    analysis.flow = "ioc" =>
        LET e == F.evidence
            sources == {s \in {"indexer", "opencti", "graph"} :
                          CASE s = "indexer" -> e.alerts > 0
                            [] s = "opencti" -> e.indicators > 0
                            [] s = "graph" -> e.graph # "failed"}
        IN  /\ F.baseline.verdict = "malicious" => Cardinality(sources) >= 2
            /\ e.kind # "ip" /\ e.alerts = 0 /\ e.indicators = 0 /\ e.graph # "rows"
                 => F.baseline.verdict = "unknown"

\* Whatever the model says, the verdict computed without it stays beside its own
\* ("always keep deterministic baseline as a sibling field for auditability").
BaselineIsKept ==
    analysis.flow = "ioc" =>
        /\ F.baseline = Baseline(F.evidence)
        /\ F.method = "rules" => F.result = F.baseline

\* The model is given up on only for a reason: unless it failed otherwise, it
\* was asked with the contract, with the compact and with the ultra-compact one,
\* and each was too long for it.  Only a first request that was too long is
\* followed by others.
ModelIsAskedAgain ==
    /\ analysis.engine = "deterministic" /\ modelOn /\ ~analysis.trouble =>
         /\ analysis.sizes["compact"] > ModelWindow /\ analysis.sizes["ultra"] > ModelWindow
         /\ Len(analysis.tries) = 3 /\ \A i \in 1 .. 3 : analysis.tries[i] > ModelWindow
    /\ Len(analysis.tries) > 1 => analysis.tries[1] > ModelWindow

\* Analyses: what they count, rank and conclude is what was read, what could
\* not be read is said, and the model is asked for as much as it can read.
AnalysisHolds ==
    /\ AnalysisTypeOK
    /\ TriageAddsUp /\ SpikesAreReal /\ EnrichmentIsWhole /\ ReportTellsTrouble
    /\ MappingIsSound /\ VerdictsAreEarned /\ BaselineIsKept /\ ModelIsAskedAgain
=============================================================================
