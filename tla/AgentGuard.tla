---------------------------- MODULE AgentGuard -----------------------------
(*****************************************************************************)
(* AgentGuard (agentic-ai-firewall/agentguard) at work: the scanners and the *)
(* verdict their findings add up to, the proxy that scans what goes to a     *)
(* language model and what comes back, and the clients that ask before an    *)
(* agent's tool runs, while an admin replaces the policy (GuardPolicy).      *)
(* Severities, risks and thresholds are in hundredths.  A text is the set of *)
(* the things in it a scanner may find, each with its id, and as long as     *)
(* they are many; what is taken out of it may complete another.              *)
(*****************************************************************************)
EXTENDS GuardPolicy, SequencesExt, FiniteSetsExt

CONSTANTS
    Bodies,      \* the messages of a proxied request: sequences of texts
    Replies,     \* what the model answers: [json, texts]
    AgentCalls,  \* tool calls: [tool, args, intent, says, gives], says the text
                 \* that proposes one, gives what it returns
    MLScores,    \* what the classifier may say, with Silent and Unusable
    GuardKept,   \* AGENTGUARD_AUDIT_BUFFER_SIZE
    DecodeLimit, \* decode_base64_max_len
    MaxOthers    \* bound on the scans of others

\* A thing in a text, with its id: of some kind, split by invisible characters,
\* inside an HTML comment; late: what must be taken out of the text before it, or
\* the comment it is in, takes shape ("comment", "link", "redaction"), or "no"
Things == [id : Nat, kind : STRING, split : BOOLEAN, comment : BOOLEAN,
           late : {"no", "comment", "link", "redaction"}]
Texts == {text \in SUBSET Things : IsFiniteSet(text)}
ThresholdsOf == [challenge : Int, block : Int, approval : BOOLEAN]

ASSUME AgentGuardAssumption ==
    /\ GuardKept \in Nat \ {0} /\ {MaxOthers, DecodeLimit} \subseteq Nat
    /\ MLScores \subseteq Int
    /\ Bodies \subseteq Seq(Texts)
    /\ Replies \subseteq [json : BOOLEAN, texts : Seq(Texts)]
    /\ AgentCalls \subseteq
         [tool : STRING, args : Texts, intent : STRING, says : Texts, gives : Texts]
    /\ \A p \in {DefaultGuard} \cup {PolicyIn[t] : t \in DOMAIN PolicyIn} :
          p.default \in ThresholdsOf /\ \A t \in DOMAIN p.tools : p.tools[t] \in ThresholdsOf

VARIABLES
    use,         \* the proxied call or the agent under way
    guardEvents, \* the audit buffer, oldest first: [by, decision]
    others       \* scans of others so far

guardVars == <<guardPolicyVars, use, guardEvents, others>>

-----------------------------------------------------------------------------
(* Scanners                                                                  *)

Thing(id, kind, split, comment, late) ==
    [id |-> id, kind |-> kind, split |-> split, comment |-> comment, late |-> late]
\* What is found of a text as a whole
Mark(kind) == Thing(0, kind, FALSE, FALSE, "no")

Instruction == [instruction_override |-> 90, role_hijack |-> 85, fake_system_prompt |-> 70,
                chat_template_injection |-> 85, exfiltration_directive |-> 85,
                destructive_action |-> 90, secret_extraction |-> 85,
                obfuscated_payload |-> 80]
Personal == [email |-> 30, phone |-> 30, ssn |-> 70, credit_card |-> 50]
Secret == [api_key |-> 95, private_key |-> 100, jwt_token |-> 60,
           credential_assignment |-> 70]

\* (what a comment says can be read before the comment is complete)
Legible(x) == ~x.split /\ (x.late = "no" \/ x.comment)
Of(text, table) == {x \in text : x.kind \in DOMAIN table /\ Legible(x)}
Kind(text, k) == {x \in text : x.kind = k /\ Legible(x)}
Finding(x, severity) == [of |-> x, severity |-> severity]
FromTable(text, table) == {Finding(x, table[x.kind]) : x \in Of(text, table)}
Scanned(text, findings) == [text |-> text, findings |-> findings]

\* A text without what a pattern matched.  Each substitution is one pass: what it
\* completes is there for what comes after, and not for this pattern again
Without(text, gone, by) ==
    {IF gone # {} /\ x.late = by THEN [x EXCEPT !.late = "no"] ELSE x : x \in text \ gone}

\* _looks_instructional, of a comment: also words no pattern takes for more
Suggestive(text) == Of(text, Instruction) \cup Kind(text, "suggestive_words")
\* Base64 is looked at in short texts only
Encoded(text) == IF Cardinality(text) <= DecodeLimit THEN Kind(text, "encoded") ELSE {}

\* PromptInjectionScanner: invisible characters go first, then comments, then
\* links that run a script; instructions and encoded ones stay in the text.
\* Mutant of Injections: invisible characters go last
InjectionsLate(text, p) ==
    LET commented == {x \in text : p.comments /\ x.comment /\ x.late = "no"}
        open == Without(text, commented, "comment")
        links == Kind(open, "markdown_js_link")
        left == Without(open, links, "link")
    IN  Scanned(IF p.hidden THEN {[x EXCEPT !.split = FALSE] : x \in left} ELSE left,
                {Finding(x, 75) : x \in Suggestive(commented)}
                  \cup {Finding(x, 70) : x \in links}
                  \cup FromTable(left, Instruction)
                  \cup {Finding(x, 80) : x \in Encoded(left)})
Injections(text, p) ==
    LET shown == IF p.hidden THEN {[x EXCEPT !.split = FALSE] : x \in text} ELSE text
        commented == {x \in shown : p.comments /\ x.comment /\ x.late = "no"}
        open == Without(shown, commented, "comment")
        links == Kind(open, "markdown_js_link")
        left == Without(open, links, "link")
        found == (IF shown # text THEN {Finding(Mark("hidden_chars"), 60)} ELSE {})
                 \cup {Finding(x, 75) : x \in Suggestive(commented)}
                 \cup {Finding(x, 70) : x \in links}
                 \cup FromTable(left, Instruction)
                 \cup {Finding(x, 80) : x \in Encoded(left)}
    IN  Scanned(left, found)

\* URLThreatScanner: a private address is one that is not on the list
\* where private ranges are not blocked
URLs(text, p) ==
    {Finding(x, 100) : x \in Kind(text, "metadata_url")}
      \cup {Finding(x, IF p.private THEN 85 ELSE 50) :
              x \in {y \in Kind(text, "private_url") : p.private \/ p.listed}}
      \cup {Finding(x, 50) : x \in {y \in Kind(text, "foreign_url") : p.listed}}

\* MLClassifierScanner: Silent without one and when it cannot be reached,
\* Unusable for an answer that is no object with a number.  A score under 50 is
\* no finding
Silent == -1
Unusable == -2
Scores == MLScores \ {Unusable}
Classified(score) == IF score \in 50 .. 100 THEN {Finding(Mark("ml"), score)} ELSE {}

\* PIIScanner: digits like those of a card are redacted with one
Redacted(text) ==
    LET cards == IF Kind(text, "credit_card") = {} THEN {} ELSE Kind(text, "digits")
    IN  Without(text, Of(text, Personal) \cup cards, "redaction")
Strip(text, on) == IF on THEN Scanned(Redacted(text), FromTable(text, Personal))
                   ELSE Scanned(text, {})
Concealed(text) == Without(text, Of(text, Secret), "redaction")
Conceal(text, on) == IF on THEN Scanned(Concealed(text), FromTable(text, Secret))
                     ELSE Scanned(text, {})

-----------------------------------------------------------------------------
(* Verdicts                                                                  *)

\* aggregate_risk.  Mutant: the bump for several is not capped
RiskUncapped(findings) ==
    IF findings = {} THEN 0 ELSE
    LET high == Cardinality({f \in findings : f.severity >= 70})
    IN  Max({f.severity : f \in findings}) + (IF high > 1 THEN 10 * (high - 1) ELSE 0)
Risk(findings) ==
    IF findings = {} THEN 0 ELSE
    LET high == Cardinality({f \in findings : f.severity >= 70})
        bump == IF high > 1 THEN Min({10 * (high - 1), 15}) ELSE 0
    IN  Min({100, Max({f.severity : f \in findings}) + bump})

\* decide: the block threshold first, even when it is the lower
Decide(risk, limits) ==
    IF risk >= limits.block THEN "block"
    ELSE IF risk >= limits.challenge THEN "challenge" ELSE "allow"
VerdictOn(findings, limits, text) ==
    [decision |-> Decide(Risk(findings), limits), risk |-> Risk(findings), text |-> text]

\* scan_input, of a text that is not trusted
ScanInput(text, p, score) ==
    LET injected == Injections(text, p)
        personal == Strip(injected.text, p.pii)
        secret == Conceal(personal.text, p.secrets)
    IN  VerdictOn(injected.findings \cup URLs(injected.text, p) \cup Classified(score)
                  \cup personal.findings \cup secret.findings, p.input, secret.text)
\* scan_output: secrets and personal data always go, in this order
ScanOutput(text, p) ==
    LET secret == Conceal(text, TRUE)
        personal == Strip(secret.text, TRUE)
    IN  VerdictOn(secret.findings \cup personal.findings \cup URLs(personal.text, p),
                p.default, personal.text)

Unset == -1
\* A tool without an entry has the default's; an entry takes the thresholds it
\* leaves out from the default, but not the approval
LimitsOf(p, tool) ==
    IF tool \notin DOMAIN p.tools THEN p.default
    ELSE [p.tools[tool] EXCEPT !.challenge = IF @ = Unset THEN p.default.challenge ELSE @,
                               !.block = IF @ = Unset THEN p.default.block ELSE @]
\* _intent_mismatch: of an intent that says nothing, or shares no word with the
\* name of the tool ("other") nor with the arguments
Mismatch(call) ==
    CASE call.intent = "empty" -> 80
      [] call.intent = "other" /\ Kind(call.args, "intent_word") = {} -> 60
      [] OTHER -> 0
ScanTool(call, p) ==
    LET said == Mismatch(call)
        found == {Finding(x, 90) : x \in Kind(call.args, "destructive_argument")}
                 \cup URLs(call.args, p)
                 \cup (IF said > 0 THEN {Finding(Mark("intent_mismatch"), said)} ELSE {})
        limits == LimitsOf(p, call.tool)
        verdict == VerdictOn(found, limits, call.args)
    IN  [decision |-> verdict.decision, risk |-> verdict.risk, text |-> call.args,
         approval |-> /\ verdict.decision # "block"
                      /\ limits.approval \/ verdict.decision = "challenge"]

\* audit.record
Recorded(by, verdict) ==
    LET events == Append(guardEvents, [by |-> by, decision |-> verdict.decision])
    IN  SubSeq(events, Max({1, Len(events) - GuardKept + 1}), Len(events))

-----------------------------------------------------------------------------
(* The proxy of a language model                                             *)

\* policy: read once; body and reply: the texts of the two; sent: those of the
\* body as they are handed on; verdicts: of the scans so far.  asks: what an
\* agent has yet to do with its call; heeds: what the client raises ends the
\* call; ran: its tool did run
NoUse == [pc |-> "idle", policy |-> DefaultGuard, body |-> <<>>, sent |-> <<>>,
          reply |-> <<>>, seen |-> 0, verdicts |-> <<>>,
          asks |-> <<>>, call |-> "none", strict |-> FALSE, heeds |-> TRUE, ran |-> FALSE]

AgentGuardInit ==
    /\ GuardPolicyInit
    /\ use = NoUse /\ guardEvents = <<>> /\ others = 0

Steady == UNCHANGED <<guardPolicyVars, others>>
Quiet == Steady /\ UNCHANGED guardEvents

\* _proxy_llm reads the policy, then waits for the body
ProxyCall ==
    /\ guardUp /\ use.pc = "idle"
    /\ \E body \in Bodies :
        use' = [NoUse EXCEPT !.pc = "in", !.policy = inForce, !.body = body]
    /\ Quiet

Ended(outcome) == [use EXCEPT !.pc = outcome]
\* One more verdict of this call: a text that is blocked ends it
Judged(verdict, blocked) ==
    IF verdict.decision = "block"
    THEN [use EXCEPT !.pc = blocked, !.verdicts = Append(@, verdict)]
    ELSE [use EXCEPT !.verdicts = Append(@, verdict)]

\* Mutant of InboundPolicy: the one in force now
InboundPolicyNow == inForce
InboundPolicy == use.policy
\* _scan_inbound_messages, one message; the sanitized text takes the place of
\* its own.  A classifier whose answer cannot be used raises: 500
ScanMessage ==
    /\ use.pc = "in" /\ Len(use.sent) < Len(use.body)
    /\ \E score \in MLScores :
        LET verdict == ScanInput(use.body[Len(use.sent) + 1], InboundPolicy, score)
            now == Judged(verdict, "refused")
        IN  IF score = Unusable THEN use' = Ended("failed") /\ UNCHANGED guardEvents
            ELSE /\ use' = [now EXCEPT !.sent = Append(@, verdict.text)]
                 /\ guardEvents' = Recorded("use", verdict)
    /\ Steady

\* What is sent on is answered, or the provider cannot be reached: 502; what
\* calls itself JSON and cannot be read is a 500
Forward ==
    /\ use.pc = "in" /\ Len(use.sent) = Len(use.body)
    /\ use' = [use EXCEPT !.pc = "wait"]
    /\ Quiet
UpstreamAnswers ==
    /\ use.pc = "wait"
    /\ \/ \E reply \in Replies :
            use' = [use EXCEPT !.reply = reply.texts,
                               !.pc = IF reply.json THEN "out" ELSE "passed"]
       \/ use' = Ended("unreachable") \/ use' = Ended("failed")
    /\ Quiet

\* _scan_outbound_response, one text; what is handed on is the answer as it came
ScanAnswer ==
    /\ use.pc = "out" /\ use.seen < Len(use.reply)
    /\ LET verdict == ScanOutput(use.reply[use.seen + 1], use.policy)
       IN  /\ use' = [Judged(verdict, "withheld") EXCEPT !.seen = @ + 1]
           /\ guardEvents' = Recorded("use", verdict)
    /\ Steady
\* Mutant of HandOn: after the first text
HandOnEarly ==
    /\ use.pc = "out" /\ use.seen >= Min({1, Len(use.reply)})
    /\ use' = Ended("delivered")
    /\ Quiet
HandOn ==
    /\ use.pc = "out" /\ use.seen = Len(use.reply)
    /\ use' = Ended("delivered")
    /\ Quiet

-----------------------------------------------------------------------------
(* Agents that ask before a tool runs                                        *)

\* What the function decorator, the LangChain callbacks and the AutoGen wrapper
\* do, in order; a message without text is handed on by the last as it is
Asks(frame, call) ==
    CASE frame = "decorator" -> <<"tool", "run">>
      [] frame = "langchain" -> <<"tool", "run", "result", "answer">>
      [] frame = "autogen" ->
             IF call.says = {} THEN <<"run">> ELSE <<"message", "tool", "run">>
ProposeCall ==
    /\ use.pc = "idle"
    /\ \E frame \in {"decorator", "langchain", "autogen"},
          call \in AgentCalls, strict \in BOOLEAN, heeds \in BOOLEAN :
        \* (LangChain may be set to log what a callback raises, and go on)
        /\ heeds \/ frame = "langchain"
        /\ use' = [NoUse EXCEPT !.pc = "agent", !.call = call, !.strict = strict,
                                !.heeds = heeds, !.asks = Asks(frame, call)]
    /\ Quiet

\* Stops is whether the client raises on a verdict: a challenge counts where it
\* was asked to, but for what tools and models give.
\* Mutant of Stops: a challenge never counts
StopsOnBlock(ask, verdict) == verdict.decision = "block"
Stops(ask, verdict) ==
    \/ verdict.decision = "block"
    \/ use.strict /\ ask \in {"tool", "message"} /\ verdict.decision = "challenge"
Answers(ask) ==
    CASE ask = "tool" -> {ScanTool(use.call, inForce)}
      [] ask = "message" -> {ScanInput(use.call.says, inForce, score) : score \in Scores}
      [] ask = "result" -> {ScanInput(use.call.gives, inForce, score) : score \in Scores}
      [] ask = "answer" -> {ScanOutput(use.call.gives, inForce)}
Asking == use.pc = "agent" /\ Head(use.asks) # "run"
Advanced ==
    [use EXCEPT !.asks = Tail(@), !.pc = IF Len(use.asks) = 1 THEN "finished" ELSE "agent"]
AfterAsk(raises) == IF raises /\ use.heeds THEN Ended("raised") ELSE Advanced
AskGuard ==
    /\ guardUp /\ Asking
    /\ \E verdict \in Answers(Head(use.asks)) :
        /\ guardEvents' = Recorded("use", verdict)
        /\ use' = [AfterAsk(Stops(Head(use.asks), verdict)) EXCEPT
                      !.verdicts = Append(@, verdict)]
    /\ Steady
\* No answer, or a 500: the client raises
GuardUnreachable ==
    /\ Asking
    /\ use' = AfterAsk(TRUE)
    /\ Quiet
RunTool ==
    /\ use.pc = "agent" /\ Head(use.asks) = "run"
    /\ use' = [Advanced EXCEPT !.ran = TRUE]
    /\ Quiet

\* The scans of others are recorded between
OtherScan ==
    /\ guardUp /\ others < MaxOthers /\ others' = others + 1
    /\ \E d \in {"allow", "block"} : guardEvents' = Recorded("other", [decision |-> d])
    /\ UNCHANGED <<guardPolicyVars, use>>

\* A restart forgets the events and ends what the process was about
Dies == use.pc \in {"in", "wait", "out"}
RestartAll ==
    /\ RestartGuard
    /\ guardEvents' = <<>>
    /\ use' = IF Dies THEN Ended("lost") ELSE use
    /\ UNCHANGED others

AgentGuardNext ==
    \/ AdminNext /\ UNCHANGED <<use, guardEvents, others>>
    \/ RestartAll
    \/ ProxyCall \/ ScanMessage \/ Forward \/ UpstreamAnswers \/ ScanAnswer \/ HandOn
    \/ ProposeCall \/ AskGuard \/ GuardUnreachable \/ RunTool
    \/ OtherScan

AgentGuardSpec == AgentGuardInit /\ [][AgentGuardNext]_guardVars

-----------------------------------------------------------------------------
(* Properties                                                                *)

AgentGuardTypeOK ==
    /\ Len(guardEvents) <= GuardKept
    /\ use.pc \in {"idle", "in", "wait", "out", "refused", "failed", "unreachable",
                   "passed", "withheld", "delivered", "lost", "agent", "raised", "finished"}
    /\ Len(use.sent) <= Len(use.body) /\ use.seen <= Len(use.reply)

SentOn == use.pc \in {"wait", "out", "unreachable", "passed", "withheld", "delivered"}

\* A request goes to the model only when every message of it was scanned and
\* none was blocked, all of them by the policy read first, whatever an admin did
\* meanwhile.  What goes is clean, as far as one pass of each scanner can tell:
\* where nothing in the message takes shape by what is taken out, and it is short
\* enough for what is encoded in it to be read, another scan would take nothing
\* more out of it and judge it no worse.
OnePassIsEnough(text) ==
    \A x \in text : x.late = "no" /\ (x.kind = "encoded" => Cardinality(text) <= DecodeLimit)
ForwardedIsScanned ==
    SentOn => \A i \in DOMAIN use.body :
        /\ use.verdicts[i].decision # "block"
        /\ \E score \in Scores :
            /\ use.verdicts[i] = ScanInput(use.body[i], use.policy, score)
            /\ OnePassIsEnough(use.body[i]) =>
               LET again == ScanInput(use.sent[i], use.policy, score)
               IN  again.text = use.sent[i] /\ again.risk <= use.verdicts[i].risk

\* An answer handed on as JSON was scanned to its end, and no text of it blocked
\* by the policy its request was scanned with.
DeliveredIsScanned ==
    use.pc = "delivered" =>
        \A i \in DOMAIN use.reply : ScanOutput(use.reply[i], use.policy).decision # "block"

\* Splitting an instruction by invisible characters gains nothing where they
\* are stripped: the text is judged no milder than the plain one.
Unsplit(text) == {[x EXCEPT !.split = FALSE] : x \in text}
HidingGainsNothing ==
    SentOn /\ use.policy.hidden => \A i \in DOMAIN use.body :
        \E score \in Scores :
            /\ use.verdicts[i] = ScanInput(use.body[i], use.policy, score)
            /\ LET plainly == ScanInput(Unsplit(use.body[i]), use.policy, score)
               IN  use.verdicts[i].risk >= plainly.risk

\* A tool an agent asked about has run only after an answer that did not block
\* it, nor challenged it where that was to stop it: no loss of an answer, restart
\* or change of the policy lets it run, where what the client raises is heeded.
ToolsRunCleared ==
    use.ran /\ use.heeds /\ use.verdicts # <<>> =>
        \E i \in DOMAIN use.verdicts :
            /\ "approval" \in DOMAIN use.verdicts[i]
            /\ use.verdicts[i].decision \notin
                   IF use.strict THEN {"block", "challenge"} ELSE {"block"}

\* More in the arguments of a call is judged milder only where it brings the word
\* that the declared intent was missing, and then takes off no more than that;
\* risks stay within 100, and whatever is challenged asks for an approval.
MoreIsNoMilder ==
    use.pc = "agent" => \A less \in SUBSET use.call.args :
        LET whole == ScanTool(use.call, inForce)
            part == [use.call EXCEPT !.args = less]
            matched == [part EXCEPT !.intent = "matches"]
        IN  /\ Mismatch(part) = Mismatch(use.call) =>
                  ScanTool(part, inForce).risk <= whole.risk
            /\ ScanTool(matched, inForce).risk <= whole.risk
            /\ whole.risk <= 100
            /\ whole.decision = "challenge" => whole.approval

\* The events of one call are its verdicts, in order, as far back as the buffer
\* reaches.
OfCall(i, j) == {k \in i .. j : guardEvents[k].by = "use"}
EventsTellTheCall ==
    \A i \in OfCall(1, Len(guardEvents)) :
        LET later == Cardinality(OfCall(i + 1, Len(guardEvents)))
        IN  /\ later < Len(use.verdicts)
            /\ guardEvents[i].decision = use.verdicts[Len(use.verdicts) - later].decision

\* The policy is where its file is, and calls are scanned to the end by it.
GuardHolds ==
    /\ AgentGuardTypeOK /\ PolicyIsFiled /\ UpdateIsKept
    /\ ForwardedIsScanned /\ DeliveredIsScanned /\ HidingGainsNothing
    /\ ToolsRunCleared /\ MoreIsNoMilder /\ EventsTellTheCall
=============================================================================
