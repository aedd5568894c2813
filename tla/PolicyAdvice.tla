---------------------------- MODULE PolicyAdvice ----------------------------
(*****************************************************************************)
(* Advice on the proxy's policy: an analysis of the denied calls it          *)
(* remembers (mcp-security-proxy app.py), for which a language model may be  *)
(* asked while further calls are denied, and the two tools of the MCP server *)
(* that turn the summary of such an analysis into masking and discovery      *)
(* rules (phase2.py).  Scores and confidences are in hundredths.  The        *)
(* discovery rules in force raise alerts of their own (DiscoveryAlerts).     *)
(*****************************************************************************)
EXTENDS Integers, Sequences, FiniteSets, Selection, FiniteSetsExt, DiscoveryAlerts

CONSTANTS
    DeniedCalls,   \* records [tool, reason, client]
    DeniedKept,    \* recent_denied_limit: denied calls remembered
    AdviceLimits,  \* how many of them are asked for
    Suggestions    \* what a model may suggest: [kind, score, action], kind
                   \* "none" when it is no object

ASSUME AdviceAssumption ==
    /\ DeniedKept \in Nat \ {0}
    /\ AdviceLimits \subseteq Nat \ {0}
    /\ \A s \in Suggestions : s.score \in Int

VARIABLES
    recentDenied,  \* _recent_denied_events, newest first: [call, old]
    advice         \* the analysis asked for or answered

adviceVars == <<recentDenied, advice>>

AdviceTypes == {"masking", "discovery"}
MaskingActions == {"redact", "hash", "tokenize"}
\* asked: the request; events: the calls it is about; recs: what it advises
NoAdvice == [pc |-> "idle", asked |-> [types |-> {}, kind |-> "none"], events |-> <<>>,
             total |-> 0, invoked |-> FALSE, engine |-> "none", fallback |-> TRUE, recs |-> <<>>]

AdviceInit == recentDenied = <<>> /\ advice = NoAdvice

-----------------------------------------------------------------------------
(* The denied calls                                                          *)

\* (what is denied after the answer is no part of it)
UnderWay == advice.pc \in {"idle", "client", "chat"}
CallDenied ==
    /\ UnderWay
    /\ \E d \in DeniedCalls :
        LET kept == <<[call |-> d, old |-> FALSE]>> \o recentDenied
        IN  recentDenied' = SubSeq(kept, 1, Min({DeniedKept, Len(kept)}))
    /\ UNCHANGED advice

\* The oldest fall out of the range analyses ask for
DenialsAge ==
    /\ UnderWay
    /\ \E k \in DOMAIN recentDenied :
        recentDenied' = [i \in DOMAIN recentDenied |->
                            [recentDenied[i] EXCEPT !.old = @ \/ i >= k]]
    /\ UNCHANGED advice

InRange == Picked(recentDenied, {i \in DOMAIN recentDenied : ~recentDenied[i].old})
Denied(limit) == [i \in 1 .. Min({limit, Len(InRange)}) |-> InRange[i].call]

Times(events, field, value) == Cardinality({i \in DOMAIN events : events[i][field] = value})
Seen(events, field) == {events[i][field] : i \in DOMAIN events}
\* The most frequent, of several the first met
Top(events, field) ==
    IF events = <<>> THEN "none" ELSE
    LET n(i) == Times(events, field, events[i][field])
        most == {i \in DOMAIN events : \A j \in DOMAIN events : n(j) <= n(i)}
    IN  events[Min(most)][field]

-----------------------------------------------------------------------------
(* The proxy's advice                                                        *)

Rec(type, key, action, score, tool) ==
    [type |-> type, key |-> key, action |-> action, score |-> score, tool |-> tool]
\* _policy_tuning_recommendations_fallback: with no events it is of a tool and
\* a client made up
Fallback(events) ==
    LET tool == IF events = <<>> THEN "search_security_events" ELSE Top(events, "tool")
    IN  << Rec("masking", "client_ip", "redact", 70, tool),
           Rec("masking", "arguments", "hash", 60, tool),
           Rec("discovery", "repeated_tool_denials", "monitor", 65, "any"),
           Rec("discovery", "write_tool_abuse", "challenge", 70, tool) >>

\* Mutant of Normalize: scores as they are
NormalizeLoosely(said) ==
    LET objects == Picked(said, {i \in DOMAIN said : said[i].kind # "none"})
    IN  [i \in DOMAIN objects |->
            LET s == objects[i]
            IN  Rec(IF s.kind = "DISCOVERY" THEN "discovery" ELSE "masking", "said",
                    s.action, s.score, "any")]
Normalize(said) ==
    LET objects == Picked(said, {i \in DOMAIN said : said[i].kind # "none"})
    IN  [i \in DOMAIN objects |->
            LET s == objects[i]
            IN  Rec(IF s.kind = "DISCOVERY" THEN "discovery" ELSE "masking", "said",
                    IF s.action \in MaskingActions \cup {"monitor", "challenge", "deny"}
                      THEN s.action ELSE "monitor",
                    Max({0, Min({100, s.score})}), "any")]

\* Mutant of AskedTypes: whatever was asked
AllTypes(recs, asked) == recs
\* Only of the types asked for; an analysis of the denials answers all
AskedTypes(recs, asked) ==
    IF asked.kind = "analysis" THEN recs
    ELSE Picked(recs, {i \in DOMAIN recs :
                          recs[i].type \in AdviceTypes => recs[i].type \in asked.types})

\* _proxy_tuning_recommendations: the layers whose denials there are
Layers == {"llm_risk", "llm_intent", "blocked_pattern"}
Reviews(events) ==
    IF events = <<>> THEN {"collect"}
    ELSE IF Layers \cap Seen(events, "reason") = {} THEN {"stable"}
    ELSE Layers \cap Seen(events, "reason")

RequestTypes == {{"masking", "discovery"}, {"masking"}, {"discovery"}, {"unknown"}}
AdviceRequests ==
    [kind : {"policy"}, types : RequestTypes, limit : AdviceLimits,
     llm : BOOLEAN, riskOnly : {FALSE}]
      \cup [kind : {"analysis"}, types : {AdviceTypes}, limit : AdviceLimits,
            llm : BOOLEAN, riskOnly : BOOLEAN]

\* The denials are copied under their lock, the newest first, and those of
\* another layer left out afterwards.  One request shares nothing with the next
EventsFor(asked) ==
    LET newest == Denied(asked.limit)
    IN  Picked(newest, {i \in DOMAIN newest : asked.riskOnly => newest[i].reason = "llm_risk"})

AskAdvice ==
    /\ advice.pc = "idle"
    /\ \E asked \in AdviceRequests :
        LET events == EventsFor(asked)
        IN  advice' = [NoAdvice EXCEPT
               !.pc = IF asked.llm THEN "client" ELSE "done",
               !.asked = asked, !.events = events, !.total = Len(InRange),
               !.engine = IF asked.kind = "policy" THEN "deterministic" ELSE "none",
               !.fallback = asked.kind # "policy",
               !.recs = AskedTypes(Fallback(events), asked)]
    /\ UNCHANGED recentDenied

\* Mutant of Fallen: of the denials there are by now
FallenNow(a, invoked) ==
    [a EXCEPT !.pc = "done", !.invoked = invoked, !.fallback = TRUE,
              !.engine = IF invoked THEN "langchain" ELSE "none",
              !.recs = AskedTypes(Fallback(EventsFor(a.asked)), a.asked)]
\* No advice of the model: the fallback of the denials it was asked about
Fallen(a, invoked) ==
    [a EXCEPT !.pc = "done", !.invoked = invoked, !.fallback = TRUE,
              !.engine = IF invoked THEN "langchain" ELSE "none",
              !.recs = AskedTypes(Fallback(a.events), a.asked)]
Advised(a, recs) ==
    [a EXCEPT !.pc = "done", !.invoked = TRUE, !.fallback = FALSE, !.engine = "langchain",
              !.recs = AskedTypes(recs, a.asked)]
\* Mutant of Suggested: suggestions are taken whatever they are
SuggestedAny(a, said) == Advised(a, Normalize(said))
Suggested(a, said) ==
    IF Normalize(said) = <<>> THEN Fallen(a, TRUE) ELSE Advised(a, Normalize(said))

SuggestionLists == {<<>>} \cup {<<s>> : s \in Suggestions} \cup {<<s, t>> : s, t \in Suggestions}

\* The configured client: none there, an empty answer and one that is no object
\* leave it to the second try; a failure or text ends it
AskClient ==
    /\ advice.pc = "client"
    /\ advice' \in {[advice EXCEPT !.pc = "chat"], Fallen(advice, FALSE)}
                     \cup {Suggested(advice, said) : said \in SuggestionLists}
    /\ UNCHANGED recentDenied

\* _openai_compatible_chat_json: no answer, whatever fails
AskChat ==
    /\ advice.pc = "chat"
    /\ advice' \in {Fallen(advice, FALSE)}
                     \cup {Suggested(advice, said) : said \in SuggestionLists}
    /\ UNCHANGED recentDenied

-----------------------------------------------------------------------------
(* The tools of the MCP server, given the summary of an analysis             *)

\* top_denied_tools: by their number, at most five of them
Often(events, field, t, u) ==
    \/ Times(events, field, t) > Times(events, field, u)
    \/ /\ Times(events, field, t) = Times(events, field, u)
       /\ \E i \in DOMAIN events : /\ events[i][field] = t
                                   /\ \A j \in 1 .. i : events[j][field] # u
DeniedTools(events) ==
    LET tools == Seen(events, "tool")
        before(t) == {u \in tools : Often(events, "tool", u, t)}
    IN  [k \in 1 .. Min({5, Cardinality(tools)}) |->
            CHOOSE t \in tools : Cardinality(before(t)) = k - 1]
Firsts(tools, n) == {tools[i] : i \in DOMAIN tools \cap 1 .. n}

NamedClient(events) == Top(events, "client") \notin {"none", "unknown"}
Advise(type, target, action, confidence, tools) ==
    [type |-> type, target |-> target, action |-> action, confidence |-> confidence,
     tools |-> tools]

\* build_phase2_proxy_policy_recommendations
\* Mutant of MaskedTools: however often they were denied
MaskedOnce(events) == Firsts(DeniedTools(events), 2)
MaskedTools(events) ==
    {t \in Firsts(DeniedTools(events), 2) : Times(events, "tool", t) >= 2}
MaskingRules(events, focus) ==
    LET top == Firsts(DeniedTools(events), 3)
    IN  (IF NamedClient(events) /\ focus # "underblocking"
         THEN {Advise("masking", "client_ip", "redact", IF Len(events) >= 10 THEN 72 ELSE 64, top)}
         ELSE {})
        \cup {Advise("masking", t, "hash", Min({86, 55 + 4 * Times(events, "tool", t)}), {t}) :
                t \in MaskedTools(events)}
        \cup {Advise("masking", "arguments", "tokenize", 61, top) :
                r \in Seen(events, "reason") \cap {"argument_validation"}}
DiscoveryRules(events, focus, pattern) ==
    LET top == Firsts(DeniedTools(events), 3)
    IN  {Advise("discovery", "denials", IF focus = "overblocking" THEN "monitor" ELSE "challenge",
                IF Len(events) >= 8 THEN 69 ELSE 58, {t}) : t \in Firsts(DeniedTools(events), 1)}
        \cup {Advise("discovery", "rate", "monitor", 63, top) :
                r \in Seen(events, "reason") \cap {"rate_limit"}}
        \cup (IF pattern
              THEN {Advise("discovery", "pattern",
                           IF focus = "underblocking" THEN "challenge" ELSE "monitor", 66, top)}
              ELSE {})
\* Without anything to advise, that more be collected, whatever types were asked
PolicyRules(events, focus, types, pattern) ==
    LET rules ==
            (IF "masking" \in types THEN MaskingRules(events, focus) ELSE {})
              \cup (IF "discovery" \in types
                    THEN DiscoveryRules(events, focus, pattern) ELSE {})
    IN  IF rules # {} THEN rules
        ELSE {Advise("discovery", "baseline", "monitor", 51, Firsts(DeniedTools(events), 3))}

\* build_phase2_proxy_adaptive_masking_recommendations: the tools of the filter,
\* if there is one.  Mutant of Considered: the filter is left out
ConsiderAll(events, filter) == DeniedTools(events)
Considered(events, filter) ==
    LET tools == DeniedTools(events)
    IN  Picked(tools, {i \in DOMAIN tools : filter = {} \/ tools[i] \in filter})
AdaptiveMode(events, tools, i) ==
    IF "argument_validation" \in Seen(events, "reason") /\ i = 1 THEN "tokenize"
    ELSE IF Times(events, "tool", tools[i]) <= 2 THEN "redact" ELSE "hash"
AdaptiveRules(events, mode, filter) ==
    LET tools == Considered(events, filter)
        rules == (IF NamedClient(events) /\ mode = "monitor"
                  THEN {Advise("masking", "client_ip", "redact",
                               IF Len(events) >= 10 THEN 66 ELSE 58, {})}
                  ELSE {})
                 \cup {Advise("masking", tools[i], AdaptiveMode(events, tools, i),
                              Min({89, 52 + 5 * Times(events, "tool", tools[i])}), {tools[i]}) :
                          i \in DOMAIN tools}
    IN  IF rules # {} THEN rules ELSE {Advise("masking", "arguments", "redact", 50, {})}

\* An agent hands the summary on to one of the two
ToolAdvice(asked) ==
    /\ advice' = [advice EXCEPT !.pc = "tool", !.recs = <<>>, !.asked = asked]
    /\ UNCHANGED recentDenied
AskPolicyTool ==
    /\ advice.pc = "done" /\ advice.asked.kind = "policy" /\ ~advice.asked.llm
    /\ \E focus \in {"all", "overblocking", "underblocking"},
          types \in RequestTypes \ {{"unknown"}}, pattern \in BOOLEAN :
        ToolAdvice([kind |-> "rules", types |-> types,
                    tool |-> PolicyRules(advice.events, focus, types, pattern)])
AskMaskingTool ==
    /\ advice.pc = "done" /\ advice.asked.kind = "policy" /\ ~advice.asked.llm
    /\ \E mode \in {"monitor", "review"}, filter \in SUBSET {d.tool : d \in DeniedCalls} :
        ToolAdvice([kind |-> "adaptive", types |-> {"masking"}, filter |-> filter,
                    tool |-> AdaptiveRules(advice.events, mode, filter)])

AdviceNext ==
    \/ CallDenied \/ DenialsAge
    \/ AskAdvice \/ AskClient \/ AskChat
    \/ AskPolicyTool \/ AskMaskingTool

AdviceSpec == AdviceInit /\ [][AdviceNext]_adviceVars

-----------------------------------------------------------------------------
(* Properties                                                                *)

AdviceTypeOK ==
    /\ Len(recentDenied) <= DeniedKept
    /\ advice.pc \in {"idle", "client", "chat", "done", "tool"}
    /\ Len(advice.events) <= advice.total

AdviceGiven == advice.pc = "done"
ByModel == advice.invoked /\ ~advice.fallback

\* Advice is about the calls the same answer counts, however many were denied
\* while the model was asked: what it does not take from the model names the
\* tool most often among them (summary and fallback are of one copy).
AdviceIsOfItsEvents ==
    AdviceGiven /\ ~ByModel =>
        \A i \in DOMAIN advice.recs :
            LET t == advice.recs[i].tool
            IN  /\ t \in Seen(advice.events, "tool") \cup {"any"} \/ advice.events = <<>>
                /\ \A u \in Seen(advice.events, "tool") :
                     t # "any" => Times(advice.events, "tool", u) <= Times(advice.events, "tool", t)

\* Advice is of the types asked for, and without a fallback an answer is never
\* empty for both types unless it says the model was taken.
AdviceIsAskedFor ==
    AdviceGiven =>
        /\ advice.asked.kind = "policy" =>
             \A i \in DOMAIN advice.recs : advice.recs[i].type \in advice.asked.types
        /\ advice.asked.types = AdviceTypes => advice.recs # <<>>

\* An answer that says the model gave it holds nothing else, one that says the
\* fallback did holds the fallback, and scores are between 0 and 100.
AdviceTellsItsSource ==
    AdviceGiven =>
        /\ ByModel => \A i \in DOMAIN advice.recs : advice.recs[i].key = "said"
        /\ ~ByModel => \A i \in DOMAIN advice.recs : advice.recs[i].key # "said"
        /\ \A i \in DOMAIN advice.recs :
             advice.recs[i].score \in 0 .. 100 /\ advice.recs[i].action # "other"

\* The rules of the tools are for tools that were denied, masks of arguments for
\* those denied again; they are of the types asked, but for the advice to
\* collect more, which stands alone.
RulesAreOfDenials ==
    advice.pc = "tool" =>
        LET rules == advice.asked.tool  tools == Seen(advice.events, "tool")
        IN  /\ rules # {}
            /\ \A r \in rules : r.tools \subseteq tools
            /\ advice.asked.kind = "rules" => \A r \in rules :
                 /\ r.action = "hash" => Times(advice.events, "tool", r.target) >= 2
                 /\ r.type \notin advice.asked.types => rules = {r} /\ r.target = "baseline"

\* Adaptive masking: only of the tools of the filter, each of them once, and a
\* tool denied more often is no less certain to need it.
MaskingIsGraded ==
    advice.pc = "tool" /\ advice.asked.kind = "adaptive" =>
        LET of == {r \in advice.asked.tool : r.tools # {}}
        IN  /\ advice.asked.filter # {} => UNION {r.tools : r \in of} \subseteq advice.asked.filter
            /\ \A r, s \in of :
                 /\ r.target = s.target => r = s
                 /\ Times(advice.events, "tool", r.target) > Times(advice.events, "tool", s.target)
                      => /\ r.confidence >= s.confidence
                         /\ r.action = "redact" => s.action = "redact"

\* Advice on the policy: of the denials it counts, of the types asked for, and
\* honest about who gave it.
AdviceHolds ==
    /\ AdviceTypeOK
    /\ AdviceIsOfItsEvents /\ AdviceIsAskedFor /\ AdviceTellsItsSource
    /\ RulesAreOfDenials /\ MaskingIsGraded

\* What is made of the calls the proxy denied is of them: its advice is of the
\* events that were read, its discovery alerts count what happened, miss no
\* burst and come once in a cooldown.
DenialsAreUsed == AdviceHolds /\ DiscoveryHolds
=============================================================================
