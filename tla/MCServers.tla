----------------------------- MODULE MCServers ------------------------------
(******************************************************************************************)
(* Parts of the MCP server, of the proxy (its policy, audit log, advice and discovery     *)
(* alerts) and AgentGuard, which share no state, side by side: a behaviour picks one and  *)
(* stays with it, so each is explored as if alone.                                        *)
(******************************************************************************************)
EXTENDS Authentication, PolicyLifecycle, AuditChain, Analysis, PolicyAdvice,
        AgentGuard

CONSTANTS denied, decision, strict, plain, broken

VARIABLE part

(* AuditChain: the code keeps 200 denied and 5000 decision events; the shorter *)
(* buffer drops links out of the middle of the chain                           *)
BufferLimits == [b \in Buffers |-> IF b = denied THEN 1 ELSE 2]

(* PolicyLifecycle: "strict" is governed with every switch on, "plain" has no *)
(* governance, "broken" is governed and does not load                         *)
SomePolicies == {strict, plain, broken}
LoadablePolicies == {strict, plain}
GovernedPolicies == {strict, broken}
StrictPolicies == {strict}

(* Analysis: alerts of two windows, of the edge between them and of a time that   *)
(* cannot be read, some of one address, with techniques named by rule and by sign *)
AlertOf(id, at, level, rule, agent, ip, rules, signs) ==
    [id |-> id, at |-> at, readable |-> TRUE, level |-> level, rule |-> rule,
     agent |-> agent, ip |-> ip, rules |-> rules, signs |-> signs]
Sign(technique, terms) == [technique |-> technique, terms |-> terms]
Log1 == AlertOf(1, 4, 12, "r1", "a1", "x", {"T1"}, {})
Log2 == AlertOf(2, 3, 10, "r2", "a1", "x", {}, {Sign("T1", 1), Sign("T2", 4)})
Log3 == AlertOf(3, 2, 10, "r2", "a2", "x", {"T3"}, {})
Log4 == AlertOf(4, 1, 10, "r2", "a1", "", {}, {})
Log5 == AlertOf(5, 0, 7, "r2", "a1", "x", {}, {})
Log6 == [AlertOf(6, 3, 12, "r1", "a2", "x", {}, {}) EXCEPT !.readable = FALSE]
SomeLogs == {<<>>, <<Log2, Log3, Log4>>, <<Log1, Log2, Log3>>, <<Log1, Log2, Log4, Log5>>,
             <<Log1, Log6, Log4>>}
SomeLateAlerts ==
    {AlertOf(7, 4, 10, "r1", "a1", "x", {}, {}), AlertOf(8, 5, 12, "r1", "a2", "x", {}, {})}
\* Requests that fit at once, after compaction, and never, and one that grows by it
Sizes(whole, fewer, bare, trimmed, compact, ultra) ==
    [whole |-> whole, fewer |-> fewer, bare |-> bare, trimmed |-> trimmed,
     compact |-> compact, ultra |-> ultra]
SomeSizes == {Sizes(2, 2, 2, 2, 1, 1), Sizes(6, 6, 5, 4, 4, 3), Sizes(6, 6, 5, 4, 3, 1),
              Sizes(3, 3, 3, 3, 4, 2)}

(* PolicyAdvice: two tools, four reasons; suggestions that are taken as they *)
(* are, normalised, and dropped                                              *)
DeniedCall(tool, reason, client) == [tool |-> tool, reason |-> reason, client |-> client]
SomeDenials == {DeniedCall("t1", "llm_risk", "x"), DeniedCall("t2", "argument_validation", "x"),
                DeniedCall("t2", "rate_limit", "unknown")}
Suggestion(kind, score, action) == [kind |-> kind, score |-> score, action |-> action]
SomeSuggestions == {Suggestion("DISCOVERY", 150, "other"), Suggestion("other", -20, "hash"),
                    Suggestion("none", 0, "none")}

(* DiscoveryAlerts: a rule twice in one policy, one without a threshold, one of a *)
(* single tool                                                                    *)
Refused(tool, writes, reason, labelled) ==
    [tool |-> tool, writes |-> writes, reason |-> reason, labelled |-> labelled]
SomeRefused == {Refused("t1", TRUE, "tool_denied", FALSE),
                Refused("t2", FALSE, "egress_sensitive", TRUE)}
RuleOf(signal, count, window, action, scope) ==
    [signal |-> signal, count |-> count, window |-> window, action |-> action,
     scope |-> scope]
SomeRules == {<<RuleOf("repeated_tool_denials", 2, 1, "monitor", {}),
                RuleOf("upstream_provenance_violations", 0, 0, "monitor", {})>>,
              <<RuleOf("repeated_tool_denials", 2, 2, "monitor", {}),
                RuleOf("repeated_tool_denials", 2, 1, "monitor", {}),
                RuleOf("attack_pattern_denials", 1, 1, "challenge", {"t2"})>>}

(* AgentGuard: three policies, "bad" does not load; a part for its admins and one *)
(* for its calls, during which one admin still has a request to send              *)
Limits(challenge, block, approval) ==
    [challenge |-> challenge, block |-> block, approval |-> approval]
GuardOf(on, input, default, tools) ==
    [hidden |-> on, comments |-> on, pii |-> on, secrets |-> on, private |-> on,
     listed |-> ~on, input |-> input, default |-> default, tools |-> tools]
NoTools == [t \in {} |-> 0]
SomeDefault == GuardOf(TRUE, Limits(40, 80, FALSE), Limits(50, 85, FALSE), NoTools)
OpenGuard == GuardOf(FALSE, Limits(60, 96, FALSE), Limits(60, 100, FALSE), NoTools)
TightGuard == GuardOf(TRUE, Limits(40, 70, FALSE), Limits(30, 70, FALSE),
                      [mail |-> Limits(Unset, 60, TRUE)])
SomePolicyIn == [t \in {"open", "tight"} |-> IF t = "open" THEN OpenGuard ELSE TightGuard]
Whole(id, kind) == Thing(id, kind, FALSE, FALSE, "no")
Noted(id, kind, late) == Thing(id, kind, FALSE, TRUE, late)
SomeBodies ==
    {<<{Whole(1, "email"), Whole(2, "credit_card"), Whole(3, "digits")},
       {Thing(1, "fake_system_prompt", TRUE, FALSE, "no"), Whole(2, "jwt_token")}>>,
     <<{Noted(1, "role_hijack", "no"), Whole(2, "private_url")}>>,
     <<{Noted(1, "other_words", "no"), Noted(2, "suggestive_words", "comment")}>>,
     <<{Whole(1, "encoded"), Whole(2, "email"), Whole(3, "foreign_url")}>>,
     <<{Whole(1, "encoded")},
       {Whole(1, "email"), Thing(2, "markdown_js_link", FALSE, FALSE, "redaction")}>>,
     <<{Whole(1, "foreign_url")}, {Whole(1, "metadata_url")}>>,
     <<{}, {Thing(1, "instruction_override", TRUE, FALSE, "no"),
            Whole(2, "markdown_js_link"), Thing(3, "role_hijack", FALSE, FALSE, "link")}>>}
ReplyOf(json, texts) == [json |-> json, texts |-> texts]
SomeReplies == {ReplyOf(TRUE, <<{Whole(1, "ssn")}, {Whole(1, "api_key")}>>),
                ReplyOf(TRUE, <<{Whole(1, "phone")}>>), ReplyOf(FALSE, <<{}>>)}
Proposal(tool, args, intent, says, gives) ==
    [tool |-> tool, args |-> args, intent |-> intent, says |-> says, gives |-> gives]
SomeProposals ==
    {Proposal("mail", {Whole(1, "foreign_url")}, "matches", {Whole(1, "email")}, {}),
     Proposal("shell", {Whole(1, "destructive_argument"), Whole(2, "destructive_argument"),
                        Whole(3, "private_url"), Whole(4, "private_url"), Whole(5, "intent_word")}, "other", {}, {}),
     Proposal("mail", {}, "other", {Whole(1, "phone")}, {Whole(1, "secret_extraction")}),
     Proposal("read", {Whole(1, "intent_word"), Whole(2, "foreign_url")}, "other", {}, {}),
     Proposal("read", {}, "empty", {}, {Whole(1, "ssn")})}
SomeScores == {Silent, Unusable, 75}

allVars == <<part, oauthVars, keysVars, policyVars, vars, analysisVars, adviceVars,
             discoveryVars, guardVars>>

ServicesInit ==
    /\ part \in {"oauth", "keys", "policy", "audit", "analysis", "advice", "discovery",
                "guardPolicy", "guard"}
    /\ OAuthInit
    /\ KeysInit
    /\ PolicyInit
    /\ Init
    /\ AnalysisInit
    /\ AdviceInit
    /\ DiscoveryInit
    /\ AgentGuardInit
    /\ part # "oauth" => keyIsSet
    /\ part # "policy" => policyFile = plain
    /\ part # "audit" => ~enabled
    /\ part # "analysis" => indexedLog = <<>> /\ ~modelOn
    /\ part # "discovery" => ruleList = CHOOSE list \in RuleLists : TRUE
    /\ part # "guardPolicy" => fileText = Absent
    /\ adminCalls = (IF part = "guard" THEN MaxAdminCalls - 1 ELSE 0)
    /\ guardFaults = (IF part = "guard" THEN MaxGuardFaults ELSE 0)

\* The other parts stay as they are
Only(p) ==
    /\ IF p = "oauth" THEN TRUE ELSE UNCHANGED oauthVars
    /\ IF p = "keys" THEN TRUE ELSE UNCHANGED keysVars
    /\ IF p = "policy" THEN TRUE ELSE UNCHANGED policyVars
    /\ IF p = "audit" THEN TRUE ELSE UNCHANGED vars
    /\ IF p = "analysis" THEN TRUE ELSE UNCHANGED analysisVars
    /\ IF p = "advice" THEN TRUE ELSE UNCHANGED adviceVars
    /\ IF p = "discovery" THEN TRUE ELSE UNCHANGED discoveryVars
    /\ IF p = "guard" THEN TRUE ELSE UNCHANGED guardVars

\* Bound: beside a restart, three tokens
OAuthBound == Len(issued') < 4 \/ boots' = 0

ServicesNext ==
    /\ UNCHANGED part
    /\ \/ part = "oauth" /\ OAuthNext /\ OAuthBound /\ Only("oauth")
       \/ part = "keys" /\ KeysNext /\ Only("keys")
       \/ part = "policy" /\ PolicyNext /\ Only("policy")
       \/ part = "audit" /\ Next /\ Only("audit")
       \/ part = "analysis" /\ AnalysisNext /\ Only("analysis")
       \/ part = "advice" /\ AdviceNext /\ Only("advice")
       \/ part = "discovery" /\ DiscoveryNext /\ Only("discovery")
       \/ part = "guardPolicy" /\ AdminNext /\ UNCHANGED <<use, guardEvents, others>>
            /\ Only("guard")
       \/ part = "guardPolicy" /\ RestartAll /\ Only("guard")
       \/ part = "guard" /\ AgentGuardNext /\ Only("guard")

ServicesSpec == ServicesInit /\ [][ServicesNext]_allVars

=============================================================================
