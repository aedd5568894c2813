# A TLA+ model of soc-governance

soc-governance is a set of Python services around the Wazuh SIEM. An MCP server
exposes Wazuh as tools; a workflow service ("Phase 3") triages and groups incidents,
runs investigation playbooks and, behind an approval gate, calls the tools that write
(block an address, isolate a host, quarantine a file); a case-management service
("Phase 4") keeps the approvals analysts decide on, the tickets, the response
playbooks and a forensic graph; and a security proxy stands between agents and MCP
servers and holds every call to a policy.

The modules here model the parts whose correctness depends on the order in which
things happen, on what fails, or on what a computation must keep. TLC checks them on
small instances, and TLAPS proves the invariants and action properties for every instance.
All paths are relative to the root of the repository. `PROJECT.json` gives, for every
definition that models code, the file and lines it stands for; names follow the code,
except where two modules that are checked side by side would have used one name
(`PolicyInit`, `PipelineInit`, `KeysInit`, ... instead of `Init`).

## 1. Inventory

### Phase 3 (`services/phase3_langgraph/app/`)

**Guarded-write workflow** (`main.py`). State: one dict per run, carried through a
LangGraph graph; `PENDING_APPROVALS`, by incident, guarded by a lock and lost with the
process. Operations: `POST /phase3/run` (triage, enrichment, proposal, approval gate,
then pause or execution, verification, rollback, handoff) and `POST
/phase3/approvals/{incident_id}/resume`. It calls MCP tools over HTTP, each up to three
times, and posts an approval to Phase 4 when a run pauses. Hard: two resumes of one
incident race; an incident is run again while its first run waits; tools run in
parallel and fail one by one; an answer is late or lost although the tool did its work;
the process restarts. Correct: nothing is written before the gate opened, each run is
executed once, a pause is decided once, the reported status is what happened, every
request ends.

**Incident grouping** (`main.py` 288-585). State: `PENDING_GROUPINGS`, by incident.
Alerts are normalised, sorted by time, and each is placed with the open group it is
most similar to, within a window. Hard: alerts out of order, twice or without a time;
a grouping that waits is replaced by another. Correct: groups partition the alerts
whatever their order, duplicates stay together, a silence longer than the window
separates, a confirmation reaches the newest grouping.

**Investigation playbooks** (`playbooks.py`). State: `PENDING_PLAYBOOKS`, by incident.
Five playbooks query the MCP server, classify what they count into a risk tier,
recommend, and pause above the lowest tier. Hard: queries fail or cannot be read; a
second run takes the place of a paused one; two answers arrive at once. Correct: what
could not be read never raises an alarm, an analyst decides whatever is above the
lowest tier, and each pause is answered once.

### Phase 4 (`src/wazuh_mcp_server/phase4/`)

**Approvals** (`server.py`). State: the `approval_requests` table. Operations: create,
decide, cancel, expire (a task, once a minute). The final decision posts to Phase 3's
resume URL, synchronously, inside an async handler: the whole service waits for it, for
30 s at most. Hard: analysts, the canceller and the expiry task meet on one row; the
decision is committed before the post, which may be lost or outlive its timeout.
Correct: a row is decided once and resumes once, with that decision; its completion is
its own; the service gets free; overdue rows close.

**Calls to Phase 3** (`server.py`, `_phase3_request`). The event loop waits for one Phase 3
address after another, while a run that pauses posts back to the very loop that waits.
Correct: the wait ends, every pause is recorded in the end, and nothing is begun again
after an answer was heard.

**Incident management** (`incident_management/`). State: the tickets, with ids chosen
by counting. Requests on threads and the event loop read a ticket and commit later.
Correct: no ticket is replaced, an SLA breach is marked and stays, a closure leaves its
trace; escalations stop at the highest priority, although a PUT may set any integer.

**Response playbooks** (`orchestration/playbooks.py`, `MCPToolClient` in `server.py`).
State: the execution, and one database session shared by all of them. A tool is asked
of endpoint after endpoint. Correct: nothing follows an abort, the status tells of it, a
repetition follows a failure only, and a broken session creates nothing.

**OpenCTI poller and backfill** (`forensics/opencti_sync.py`). State: a watermark in
memory. Correct: an alert is passed over only for a reason that is known (it was pushed
and failed, it came late, the batch was full, the service was down).

**Forensic graph** (`forensics/`). State: nodes and edges in Neo4j, each write a
transaction of its own; STIX bundles to OpenCTI and back. Correct: an alert whose writes
did not fail is found by everything it touched, under the incident it was filed under
last; a bundle is closed; an observable has one id, unless a request or another tool's
bundle brings its own; what is read back is merged.

**LLM watch** (`server.py`). State: three rolling windows over one stream of answers,
trimmed at different moments, each by its own reading of the clock. Correct: the metrics
are those of each window at its reading, and a window of nothing but fallbacks warns.

### Security proxy (`mcp-security-proxy/mcp_security_proxy/`)

**Request pipeline and usage counters** (`app.py`, `mcp_proxy`). State: the policy in
force, daily counters in memory and in a file. A call passes method, tool, pattern,
upstream and attestation checks, the health of the dependencies, two LLM layers, the
isolated executor and the upstream server, with an await at each of the last five.
Hard: the policy is replaced at an await; models, executor and upstream fail or hang;
the counter file cannot be written, or not be read; the day changes; the proxy restarts.
Correct: nothing is forwarded that was not cleared, executor-bound calls run there first,
the quota holds as long as the file can be read, every call ends.

**Policy lifecycle** (`app.py`, `governance.py`). State: the policy file, the policy in
memory, backups, version records with their list, proposals. Ten kinds of request write
up to five files in turn. Hard: a crash or a refused write between any two; a policy
that does not load; a policy that turns governance itself on or off. Correct: what was
answered as in place stays, what was replaced can be restored, a proposal marked
approved was applied.

**Audit chain** (`app.py`, `governance.py`). State: two ring buffers of different
length, linked into one hash chain, a chain head and a sequence number, one history
file. Hard: eviction out of the middle of the chain, failed writes, restarts from an
older file, damaged files. Correct: an honest log verifies, a complete report vouches
for everything, the chain never forks.

**Policy advice** (`app.py`, and two tools of `phase2.py`). State: the denied calls
remembered. Rules or a model turn them into advice while further calls are denied.
Correct: advice is of the calls its answer counts, and the answer tells who gave it.

**Discovery alerts** (`app.py`). State: the denied calls, the alerts and a cooldown per
kind of alert, in memory and in the history file. Every denial evaluates the policy's
rules over the calls in their window. Hard: a write that fails or a crash between the
event and its alerts, eviction, a purge, a second rule of the same kind, a replaced
policy; events stamped in whole seconds and compared with a clock that has fractions.
Correct: alerts of a kind are a cooldown apart, no burst is missed but for what fell into
the second its window begins with, and an alert counts what happened.

### AgentGuard (`agentic-ai-firewall/agentguard/`)

State: a policy in memory with its fingerprint, its file, and a ring of events. Scanners
find things in texts, severities add up to a risk, thresholds to a verdict; a proxy of
language models scans what goes in and comes back; a client library asks before a tool
of an agent runs. Hard: updates of the policy overlap on threads over one `.tmp` file;
the policy is replaced while a call waits; answers of the classifier or the model cannot
be read; the guard cannot be reached. Correct: an update alone leaves file, policy and
fingerprint one, what is sent on was scanned to the end by one policy, hiding an
instruction gains nothing, no tool runs that was not cleared. Each scanner passes over a
text once, so what its removals complete may be sent on.

### Wazuh MCP server (`src/wazuh_mcp_server/`)

**Sessions and transport** (`server.py`, `session_store.py`, `mcp/session.py`). State:
sessions in a dict or in Redis, a gauge of open connections. Requests on `/`, `/mcp` and
`/sse` read a session, look at its age and store it again, with awaits between under
Redis. Correct: a deleted session stays deleted in memory, only `/sse` revives an aged
one, the gauge is exact but for streams that never start, every request ends.

**JSON-RPC** (`server.py`), **rate limiter** (`security.py`), **OAuth** (`oauth.py`),
**API keys** (`auth.py`), **traffic log** (`mcp_traffic.py`): the answers to a body, the
sliding window with blocks of one length, grants and their tokens, keys and session tokens
at their cap, the ring of calls and its subscribers' queues. An access token outlives a restart only
where `AUTH_SECRET_KEY` is set: without it each process draws a signing key.

**Wazuh API client and circuit breaker** (`api/wazuh_client.py`, `resilience.py`).
State: the token, a lock around logging in again, connection slots, and the breaker's
state, failure count, last failure and trial flag. Hard: calls let through before the
circuit opened answer after it; several calls meet one expired token; retries of what
was carried out. Correct: writes go out once, requests carry a usable token, the
circuit opens at its threshold, its trial flag is true, every call returns.

**Analysis tools** (`phase2.py`). Triage, enrichment, report, MITRE mapping and IOC
pivot read from the indexer, OpenCTI and the graph, any of which may fail, and ask a
model for a summary, and again with a compacted payload when that was too long (which
compaction may even lengthen). Hard: alerts arrive and age between two reads, and some
times cannot be read. Correct: what they count is what was read, what could not be read is
said, a verdict is earned.

### How they interact

    agents --> security proxy --> isolated executor
                    |
                    +--> upstream MCP servers
    Phase 3 --MCP tools--> Wazuh MCP server --> Wazuh API --> agents' active response
       |  ^                      |
       |  |                      +--> indexer, OpenCTI, Neo4j, a language model
       |  +-- resume, run, group - Phase 4 <--- analysts
       +-- approval request -----> Phase 4 --> Neo4j, OpenCTI, MCP tools

Phase 3 and Phase 4 share nothing but the posts between them: `HumanGate` composes the
workflow with the approvals, `PhaseCalls` models the calls in the other direction, which
hold the event loop. `WazuhClient` composes with `CircuitBreaker`, whose variables it
carries. The proxy's parts share one process: `ProxyPipeline` sees the policy lifecycle
as a policy that may be replaced at any await, `AuditChain` as a switch of the chain,
and `PolicyAdvice` and `DiscoveryAlerts` a pipeline that goes on denying calls.
AgentGuard shares nothing with the other services. The parts of the MCP server
below its transport (limiter, keys, OAuth, log) share no state.

## 2. The modules

| module | models | composed of |
|---|---|---|
| `GuardedWrite` | abstract: a gate per run, opened before one executor writes | |
| `Phase3Workflow` | the workflow, its tool calls and the agents that carry them out | implements `GuardedWrite` |
| `ApprovalStore` | the approval rows and the handler blocked in a resume call | |
| `HumanGate` | the two services and the posts between them | `Phase3Workflow`, `ApprovalStore` |
| `PhaseCalls` | Phase 4's blocking calls to Phase 3 and the posts back | |
| `IncidentGrouping` | the clustering as an operator, and its confirmation | |
| `Playbooks` | the investigation playbooks | |
| `IncidentDesk` | tickets, their ids, life cycle and SLA, and the ingest of alerts | |
| `ResponsePlaybook` | the response playbooks and the calls of their tools | |
| `AlertPoller` | the poller, its watermark and the backfill | |
| `ForensicGraph` | what an alert becomes in Neo4j and in OpenCTI, and what is found of it | |
| `LlmWatch` | the three windows over the model's answers | |
| `ProxyPipeline` | `mcp_proxy` from await to await, and the counters | |
| `PolicyLifecycle` | every writer of the policy, file by file | |
| `AuditChain` | the chained event log | |
| `PolicyAdvice` | analysis of the denied calls, and rules drawn from it | `DiscoveryAlerts`, for what both make of denied calls |
| `DiscoveryAlerts` | the rules over denied calls, their alerts and cooldowns | |
| `GuardPolicy` | AgentGuard's policy file and its updates, step by step | |
| `AgentGuard` | its scanners and verdicts, its proxy, and the clients of agents | `GuardPolicy` |
| `McpTransport` | requests, streams and sessions over both stores | |
| `JsonRpc` | the answer to a body | |
| `RateLimiter`, `OAuthServer`, `ApiKeys`, `TrafficLog` | the component named | |
| `Authentication` | both ways into the server | `OAuthServer`, `ApiKeys` |
| `CircuitBreaker` | what the breaker does when a call asks and when it ends | |
| `WazuhClient` | a request from slot to answer | `CircuitBreaker` |
| `Analysis` | the analysis tools | |
| `Selection` | the elements of a sequence at some of its indexes, in their order | |
| `SelectionLemmas` | lemmas about selections and about places in an order | `Selection` |
| `Phase3WorkflowProofs` | theorems about the workflow and its refinement | `Phase3Workflow`, `GuardedWrite` |
| `HumanGateProofs` | theorems about the two services together, and about the grouping | `HumanGate`, `IncidentGrouping` |
| `Phase4Proofs` | theorems about Phase 4 and the playbooks | `PhaseCalls`, `AlertPoller`, `IncidentDesk`, `ResponsePlaybook`, `Playbooks`, `LlmWatch`, `ForensicGraph` |
| `ProxyPipelineProofs` | theorems about the pipeline of the proxy | `ProxyPipeline` |
| `AuditChainProofs` | theorems about the proxy's log, the denied calls, and the analyses | `AuditChain`, `DiscoveryAlerts`, `PolicyAdvice`, `Analysis` |
| `PolicyLifecycleProofs` | theorems about both policies, and AgentGuard | `PolicyLifecycle`, `AgentGuard` |
| `WazuhClientProofs` | theorems about the MCP server | `WazuhClient`, `RateLimiter`, `Authentication`, `McpTransport`, `TrafficLog`, `JsonRpc` |

The instances for TLC: `MCPhase3`, `MCGate` and `MCPlaybooks` are one module each, and
`WazuhClient` is run as it is. `MCApprovals`, `MCLive`, `MCMcpServer`, `MCServers` and `MCServices` put modules that
share no state side by side: a variable `part`, chosen at the start, says which of them moves,
and the others stay as they begin. Each part is explored exactly as if alone, so
such a run is a set of instances in one, not a composition.

What is one step follows from the code's scheduling. All services are single asyncio
processes: code between two awaits is one step, and each await is a place a coroutine
can be in (`pc` in `Phase3Workflow`, `at` in `ProxyPipeline` and `WazuhClient`, `point`
in `McpTransport`). Handlers that never await (approval rows, audit events, OAuth, keys,
the limiter) are one step. `PolicyLifecycle` cuts them further, at each file they write,
because a crash can come there; `IncidentDesk` at the commit, because the routes of
`/incidents` run on threads; `ForensicGraph` lets a prefix of a request's writes happen.

*Phase3Workflow.* `wf[t]` is the state dict a coroutine carries and `pc[t]` the graph
node it is at; `pending` is `PENDING_APPROVALS`. A write tool is a message in
`inflight`, which the server may `Serve` late and whose answer may be lost; `Timeout`
ends an attempt after 120 s, `RetryOrRaise` is tenacity. `rules[g]` counts the
active-response rules on a target; how many of them an undo removes depends on the
agent's script, so `UndoAll` is a constant. Of the request body the model keeps what the
routes look at; triage and enrichment are read-only and either answer or raise.

*ApprovalStore, HumanGate.* A row is the columns the handlers branch on. `deciding` is
the row whose resume call blocks the event loop: while it is set no handler of Phase 4
runs. `notices` and `resumePosts` are the posts on the wire. The resume URL names the
incident, so `HandleResume` looks up whatever that incident has pending.

*PhaseCalls.* `caller` is the event loop of Phase 4, `work` what Phase 3 was asked, with
the copies that a timeout leaves behind, `inbox` the posts the loop has not got to.

*IncidentGrouping, Playbooks.* The clustering is a function of how many of the alerts were
taken, in their sorted order (`Grouped`), and is compared with what it must be for every
order they may be sent in. A sort is written with places: an alert comes at the place
that as many are sooner than it (`ByTime`). A playbook's
run is its queries, each answered, failed or unreadable, then classification and pause.

*IncidentDesk.* A request remembers what it read and commits the columns that differ
from it, as the ORM does; an id taken twice is an error of the later commit. A PUT may set
any of status, tier and priority, the last to any integer (`PutPriorities`).

*LlmWatch.* An answer is taken, and GET /metrics read, with one reading of the clock per
window in the order of the code (`Moments`), so that time passes within a step. Counts are
exact for each window at its own reading; that they fit together is claimed as far as the
readings coincide (`WindowsFit`), since an answer at the edge of two windows may be in one
and out of the other. The clock is taken never to be set back.

*OAuthServer.* `keyIsSet` is whether `AUTH_SECRET_KEY` is set, and each token knows the
start of the server it was signed in; after `Reboot` a token verifies only if the key is
set. Codes and tokens expire whenever they like.

*AlertPoller.* Milliseconds of a short second, because the query is sent in whole
seconds and the watermark kept in milliseconds. `excused` is a history variable.

*ForensicGraph.* A request is a sequence of writes, of which a prefix is carried out if
the graph fails (`GraphWrites`); `ctiObjects` and `ctiLinks` are the bundles OpenCTI was
sent, with the id each mapping gives an object. `writtenWhole` is a history variable.
An ingested bundle files its alerts anew, ours too, under the incident its items name or
under none (api.py:500-508); the model lets all alerts of a bundle name one incident
(`BundleIncidents`). The body of an entity may bring its own `stix2_id` (`NamedEntities`).

*ProxyPipeline.* A policy is a record of what the checks ask of it. The LLM layers answer
a hint or fail; a failure is the hint "allow" from no engine, which
`prevent_silent_bypass` turns down. `counted` and `policiesSeen` are history variables.
A usage file that cannot be read leaves a warning and counters of zero (app.py:605-608),
so a period in which use is counted is a day, or what is left of it after such a read
(`Period`); the quota holds per period, and a day with a failed read may pass it.

*PolicyLifecycle.* Policies are model values with the switches the handlers read.
`handler` holds the request under way and the step it takes next: keep (backup of the
replaced version), listkept, backup, write, reload, record, list, close.

*DiscoveryAlerts.* Recording a denial and evaluating the rules is one step, since it has no
await; a failed write or a crash ends it after any of its writes. The clock runs within
it (`Readings`): it is read when the events are counted and again for every alert. It counts
ticks, of which `TicksPerSecond` make a second, and an event carries the second it fell in
(`Stamp`; app.py:1203, 1316-1328), so that what was denied in the second a window begins
with may not be counted (2216-2219): `NoBurstIsMissed` leaves that second out, and only
that. `denialLog` and `alertLog` are history variables, cut back to what the file tells
after a restart.

*GuardPolicy, AgentGuard.* `admin[a]` is a request on its thread, cut at each file
operation and assignment; a file a thread has open follows a rename, as it does under
POSIX. `settled` and `confirmed` are history variables. A text is the set of things a
scanner could find in it, with what hides them; severities are those of the pattern
tables, in hundredths. A thing may take shape only when a comment, a link or a redaction is
removed (`late`): each substitution is one pass (prompt_injection.py:97-120), so what it
completes is there for the scanners that follow and not for itself. Base64 is decoded in
texts of at most `DecodeLimit` things, which stands for 4000 characters (134). The intent
of a call is missed unless its arguments hold a word of it (tool_policy.py:123-138).
`ForwardedIsScanned` claims that another scan finds nothing more only where one pass is
enough (`OnePassIsEnough`), and `MoreIsNoMilder` excepts the word the intent missed.
`use` is one call of the proxy or of an agent, which asks, scans
and waits step by step while an admin changes the policy.

*AuditChain.* A hash is a number handed out in order; an altered payload is the field
`intact`. `Integrity` is `verify_audit_chain_integrity`, with its tolerance for evicted
predecessors.

*CircuitBreaker, WazuhClient.* Time is "none", "recent" or "old" since the last failure.
The exceptions an attempt can end in fall into four classes by what the breaker
(`expected_exception`) and tenacity (`_is_retryable`) do with them. Tokens are numbers in
the order Wazuh hands them out, and Wazuh may refuse any of them from some moment on.
`probes` and `spoilt` are history variables of the breaker.

*Analysis, PolicyAdvice.* Confidences are in hundredths, and a request to the model is
known by its length and by which reductions it went through; compaction may give any
length (phase2.py:880-898 adds markers). An alert has a time, which the indexer sorts
and filters by and which the program may be unable to read; the clock (`moment`) advances
between the two reads of a triage, whose second read takes windows of its own
(phase2.py:1056-1058). Bound: what arrives is newer than all there was. What the model answers is
one of: nothing, unusable text, or an answer; the code's normalisation of it is
modelled. The texts and the detailed weights of scores are left out.

## 3. What the runs check

### Runs that pass

| run | instance | shows |
|---|---|---|
| `p3_race` | two runs, two resumes, two incidents naming one target, one restart | `WritesAreApproved`, `RunsAreDecidedOnce`, `StatusTellsWhatRan`, and that the workflow implements `GuardedWrite` |
| `p3_retry` | one run and one resume, two targets in parallel, two attempts, one restart, fair | `RollbacksAreEarned`, `EveryRequestEnds` |
| `approvals` | two runs of one incident, two rows, two resumes; two calls of the proxy, three policies, two days, a restart, and a replacement or a failed read of the usage; three requests over two sessions and both stores | `RowsGovernWrites`, `DecidedRowsAreFinal`; `CallsAreCleared`, `UseIsCounted`; `SessionsHold` |
| `live` | one run, one row, two resumes (one of them direct), one restart; two asks of two addresses; two requests; two proxy calls; fair | `GateComesFree`, `CallsComeBack`, `CallsBeginOnce`, `EveryHttpRequestEnds`, `EveryCallEnds` |
| `mcp_server` | Wazuh client: two reads and a write, two slots, threshold two, three attempts, two tokens, fair; limiter, traffic, JSON-RPC | `CircuitCountsFailures`, `RequestsAreSound`, `EveryCallReturns`; `LimiterHolds`, `TrafficHolds`, `BodiesAreAnswered` |
| `servers` | OAuth, keys, policy, audit, analysis, advice, discovery, AgentGuard's policy, AgentGuard at work | `AccessHolds`, `PolicyIsKept`, `ChangesAreAccounted`, `ReportsAreTrue`, `ChainHolds`, `AnalysisHolds`, `DenialsAreUsed`, `GuardHolds` |
| `services` | tickets, response playbooks, poller, LLM watch, investigation playbooks, grouping, forensic graph | `TicketsHold`, `ResponseHolds`, `PollerHolds`, `WatchHolds`, `PlaybooksHold`, `GroupsHold`, `ForensicsHold` |

A property that ends in `Hold` or `Holds`, and some others, is a conjunction of named
parts, each with a comment of its own in the module. What they say, in short:

- `RowsGovernWrites`: a resume carries the decision of its row, one per row, writes have
  an approved row, and a completion is its own. `DecidedRowsAreFinal`: a decided row
  does not change its decision. `RollbacksAreEarned`: an undo follows a failed
  verification, and only targets the request named are contained.
- `CallsAreCleared`: what is forwarded passed every check of some policy in force while
  it ran, and ran in the executor first if it had to. `UseIsCounted`: calls keep within
  the quota, and counters cover use, from one read of the usage file that fails to the next.
- `SessionsHold`: `ClosedStaysClosed`, `AgedIsRevivedBySseOnly`, `GaugeIsExact`.
- `AccessHolds` is `GrantsHold`: a code buys once, tokens keep to their grant, only time,
  or a signing key redrawn at a restart, ends access, a dead refresh token buys nothing,
  tokens are evicted by age; and `KeysHold`: a revoked key is out, session tokens keep to
  their cap and leave by age. `LimiterHolds`: a window holds at most its maximum, and
  blocks are earned, and all of one length (section 5). `TrafficHolds`: the feed is in
  order, and the recent calls are the latest. `BodiesAreAnswered`: every request gets an
  answer, and what is answered 202 holds none.
- `PolicyIsKept`, `ChangesAreAccounted`: the version list is the history, what was
  answered as in place stays, what was replaced can be restored, what is marked approved
  is in place, a rejection is final. `ReportsAreTrue`, `ChainHolds`: honest logs verify,
  complete reports are true, no fork, links ascend.
- `TicketsHold`: ids are dense, tickets are never replaced, an ingest accounts for
  what it fetched, the late are marked, breaches stay, closures leave their trace, and
  however escalations race, only what a PUT set is above the highest priority.
- `ResponseHolds`, `PollerHolds`, `WatchHolds`, `PlaybooksHold`, `GroupsHold`: the
  sentences under "Correct" in section 1, part by part.
- `ForensicsHold`: `AnsweredIsWritten`, `AnsweredIsFound`, `ChainsEndAtDomains`,
  `BundlesAreClosed`, `OneIdPerObservable`, `ReadBackIsMerged`.
- `AnalysisHolds`: the counts of a triage add up although alerts arrive and age between its
  two reads, a spike is one of the alerts whose time can be read, an enrichment keeps what
  a source told before it failed, a report tells of trouble, techniques come best first,
  verdicts are earned by two sources, the deterministic baseline is kept beside the model's verdict, and the model
  is asked again only after a first request that was too long, and given up on only after
  the compact and the ultra-compact one were, too.
- `DenialsAreUsed` is `AdviceHolds`: advice is of the denials it counts, of the types
  asked for, and says who gave it; and `DiscoveryHolds`: `AlertsCoolDown`,
  `NoBurstIsMissed`, `AlertsAreCounted`.
- `GuardHolds`: `PolicyIsFiled` and `UpdateIsKept`, the policy, its file and its
  fingerprint are one after a request that overlapped no other; `ForwardedIsScanned`,
  `DeliveredIsScanned`, `HidingGainsNothing`, `ToolsRunCleared`; `MoreIsNoMilder`, more in
  a call is judged milder only by the word its intent missed; `EventsTellTheCall`.

Each run also checks the type invariant of its modules. `PROJECT.json` names for every
property at least one mutant, for a conjunction one for its parts: a definition changed
as a plausible bug would change it, which makes TLC find the property violated.

### Runs that find a disagreement

| run | property | what the code does |
|---|---|---|
| `p3_repeat` | `ActiveResponseNotRepeated` | `_mcp_call` repeats write tools (main.py:231), although the client below it does not, "because active response commands are not idempotent" (wazuh_client.py:424-426) |
| `p3_unconfirmed` | `UnconfirmedActionIsRolledBack` | a verification that answers "not in effect" passes (main.py:1216), where LANGGRAPH_PHASE3_GUIDE.md:949 has it rolled back |
| `gate_wrongrun` | `DecisionReachesItsRun` | an approval decided after the incident was run again resumes the other run (server.py:3171) |
| `wazuh_usererror` | `UserErrorsDoNotDegrade` | a `ValueError` in the trial of a half-open circuit leaves the trial flag set, and every later call is turned away (resilience.py:105), although user errors "shouldn't degrade the circuit" (wazuh_client.py:43-44) |
| `playbook_counts` | `CountsAreHits` | the playbooks count no hits of an answer of this repository's own MCP server, whose text begins with a title (playbooks.py) |

### Bounds

Two actors of each kind are enough for the races in this code, which are between two
coroutines over one row, one file, one counter, one session or one token; a third is
added where one actor must be under way while two others interact (`mcp_server`: a
call admitted early, a trial, and a call turned away; `approvals`: three requests over
two sessions). The other bounds are the constants marked `\* bound` where they are
declared:

- `MaxAttempts` is 3 in the code. Two attempts show a repetition, and in `mcp_server`,
  where the failures of a call also open the circuit, it is 3.
- `failure_threshold` is 5 in the code, 2 in the instance: a single failure does not open
  the circuit, and calls under way can pass the threshold. The proof holds for every
  threshold.
- The audit buffers hold 200 and 5000 events, here 1 and 2: the shorter must be able to
  drop a link whose neighbours are kept. Three chained events and one restart reach
  it; the proof holds for every length and any number of either.
- One mishap in the policy lifecycle separates each pair of writes; a list
  of one version and a second record show the trimming.
- Caps of the MCP server (tokens 5000, keys' sessions 10000, queues 200, clients) are one
  to three: each is exceeded within the bound, so that evictions happen. Four tokens are
  signed, three when the server restarts in between (`OAuthBound`).
- The desk has two tickets, two requests and two hours; beside an ingest of two alerts a
  ticket is changed once, else twice (`DeskBound`): a request reads before and commits
  after the deadline of a critical ticket, over what the other wrote.
- The poller's second has two milliseconds, and three alerts against batches of two:
  an alert in the second of the watermark, and one beyond the batch.
- The grouping takes up to four of eight alerts (duplicates inside and outside the window
  and without a time, neighbours by rule and by address), in every order.
- The forensic graph has two alerts that share an address and a user, one of which an
  analyst files again under another incident and another tool's bundle under a third or
  under none, one entity that may bring its id, and takes three requests.
- The analyses read logs of up to four alerts over two windows of two moments, one alert
  without a readable time, with the limit 2, the comparison 3 to 5, two alerts that may
  arrive late and one moment that may pass between the reads; four profiles of payload
  sizes: fits at once, fits only when shortest, never fits, and grows by compaction.
- The policy advice has three kinds of denied call, a memory of three, and reads two.
- Discovery has buffers of two events and two alerts, three denials and three ticks, two to
  the second, one of which may pass while a call is judged: an event is evicted, another is
  denied in the second its window begins with, a window is passed, a cooldown ends, and two
  rules of one kind are due at once; one failed write, restart or purge.
- AgentGuard's policy has two admins, three requests and three texts, one of which does not
  load, and one crash or refused file operation. Its calls have seven bodies, three
  replies and five tool calls that meet each of the scanners, among them a comment and a
  link that take shape by a removal, and a text too long to be decoded, three policies, and one
  request of an admin at any moment of a call; the crashes are with the policy's admins,
  and in the theorem `GuardStaysSound` at every moment of a call as well.

`SYMMETRY` is used only in runs without liveness properties. `CHECK_DEADLOCK FALSE` is in
the runs whose requests are finitely many: when all have ended nothing is left to do.

### Fairness

`p3_retry`, `live` and `mcp_server` assume weak fairness of

- each coroutine's next step: asyncio runs every ready task;
- the end of an HTTP exchange, by an answer or by its timeout: `_mcp_call` gives up after
  120 s, the resume call after 30 s, Phase 4's calls to Phase 3 and the post back after
  theirs (`CallsFairness`), the proxy's and the Wazuh client's `httpx` clients after their
  configured timeout (`PipelineFairness`);
- an operation of the session store, in memory or in Redis, which answers or fails
  (`TransportFairness`); nothing is assumed of how long a client keeps a stream open;
- the expiry task, which sleeps for 60 s between rounds;
- the release of `asyncio` locks and semaphores, which queue their waiters.

Nothing is assumed of people, of Wazuh, of the models, of the executor or of the upstream
server, and none of crashes, refused writes or expiring tokens.

## 4. What is proved

The theorems hold for every value of the constants that satisfies the `ASSUME`s of the
modules: disjoint sets of names, bounds that are natural numbers, buffers, batches and
thresholds that are not zero, data of the shape the code gives it. The runs evaluate these
assumptions on their instances. None restricts what the code can meet; those that link two
modules say that they talk of the same things (`Subjects = Runs`, `Statuses \subseteq
Results` in `HumanGate`, `PutStatuses \subseteq Statuses` in `IncidentDesk`). Each theorem
states a property of section 3 and follows from an inductive invariant, which is needed
because the property speaks of the end of a course of steps and is true by what the
steps before it established.

**Phase 3** (`Phase3WorkflowProofs`). `WritesStayApproved`, `DecisionTakenOnce`,
`ExecutedOnce` and `RunsDecidedOnce` follow from `IInv`: that a write tool is called for an
approved run only is true because an undecided run has not called one yet, because a stored
state is still pending and belongs to a run that paused, and because a run that was taken
from the store is not in it any more (`StoredIsPending`, `WriterIsApproved`,
`NoWriteBefore`, `UndecidedBefore`, `PendingIsPaused`, `TakenIsPaused`). `RollbacksStayEarned`
and `StatusStaysTrue` add `StageInv`, which says of each coroutine what its stage has
established: a passed execution had every planned call answered, verification and rollback
follow a passed execution only, an undo was sent after a verification failed, and at the
end the outcomes tell whether anything was sent. An answer that comes late changes none
of this because a call that was answered is not posted again (`CallsContinue`).

**Refinement of the abstract gate** (`Phase3WorkflowProofs`). `WorkflowIsGuarded`: every
behaviour of the workflow is one of `GuardedWrite`. The gate of a run is open when a coroutine
carries it approved, waiting when it is stored, shut when its state is nowhere any more.
Reads, answers, timeouts and verification map to stutters; a pause maps to `Pause`, which
shuts the gate of the run it replaces; a resume to `Grant` or `Shut`; the first post of a
write tool to `Execute`; a restart to `Shut` of all that waited.

**The human in the loop** (`HumanGateProofs`). `GateImplementsWorkflow`: each step of the two
services is a step of the workflow or leaves it alone, so that its theorems hold of
both. `RowsStayInCharge` and `DecidedRowsStayFinal` need `LinkInv`, which ties the rows to the
runs: a post carries a decision nobody was resumed with (`PostsAreUnused`), the row a resume
came from was decided with the decision the run carries (`OriginIsDecided`), and the handler
that waits has decided its row and not stored an outcome (`WaitsForDecided`).

**The grouping** (`HumanGateProofs`). `GroupsAreHeld`: all of `GroupsHold`, for any alerts
whose times are natural numbers and levels integers, any threshold within 100 and any window.
`StageOK(t, k, groups)` says what the groups are after `k` alerts of `t`, and `StageFollows`
that it is so after the next: the last times of the groups are not after the alert just
taken; each alert taken is in one place (`HoldsEach`); of two groups that begin alike, the
earlier took nothing within a window before the later began (`Apart`), which stays true
because an alert that joins the earlier later on is after that beginning (`EarlierTakes`);
and groups and duplicates add up to `k` (`AlertsTaken`). The order of arrival does not
matter because an alert with a time of its own comes at the place that is the number of
alerts before it (`PlaceByTime`), in whatever list. `GroupingInv` adds the requests: the one
that waits is marked as waiting, and none after it.

**Phase 4** (`Phase4Proofs`).
- `CallsBeginOnceOnly`: at most one confirmation was taken, and none while the grouping waits
  (`ConfirmedAtMostOnce`); a call under way belongs to the latest request, of which nothing was
  heard (`CallOfThisAsk`); and Phase 3 took no more calls than addresses were tried.
- `PollerPassesNothingOver`: what lies below the watermark's second is accounted for, and so
  is, while a batch is under way, what will lie below the next one (`BelowInv`,
  `BatchInv`); the watermark is never ahead of the cycle that set it.
- `TicketsStaySound`: what a request has read stays good enough until it commits: the id it
  means to give is taken or the next one (`Sound`), and an ingest counts what it made.
- `ResponsesStayOrderly`: one invariant per execution, of the course it took, of its
  attempts against what was carried out, and of what may be repeated.
- `InvestigationsStaySound`: the run that waits for an incident is its own and the newest that
  paused (`WaitsForItsIncident`, `NewestPauseWaits`), and an answered one is over
  (`AnsweredIsOver`).
- `WatchStaysExact`: the entries of each window are matched, in order, to answers that were
  given, and every answer without an entry is too old for the metrics at every later reading
  of that window's clock (`Tells`, `TellsLater`). That the
  three windows are trimmed at different moments does not matter because of this, and
  counts are compared as sizes of the sets so matched.
- `ForensicsAreKept`: the graph is well formed, what was written whole keeps its edges, and
  an id that is not derived was brought by another tool's bundle or a body (`GraphOK`,
  `WrittenOK`, `BroughtIds`). That an alert is found under the incident it was filed under
  last, if any, and that what is read back merges follows from it. It is
  assumed that alerts and bodies have an id, that an alert has two fields for users, and that
  entities and foreign items are nodes.

**Security proxy** (`ProxyPipelineProofs`, `AuditChainProofs`, `PolicyLifecycleProofs`).
- `UseStaysCounted`: the counters, in memory or as a restart would load them, cover the
  calls counted in the period they are of, of which there are finitely many (`CountInv`);
  a new day and a failed read each begin a period in which nothing was used
  (`PeriodBegins`).
- `CallsStayCleared`: `ClearedSoFar(c)` says what each check has established by the await a
  call is at, of every policy that was in force since it arrived.
- `ChainNeverForks`, `NumbersFollowLinks` and both, `ChainIsKept`: memory and the file a
  restart would restore are both one chain, whose events have distinct predecessors and
  ascending numbers below the head. Damage keeps this because a damaged log is a shadow of the
  one it came from (`ShadowsKeepOneChain`).
- `ReportsStayTrue`: the buffered links skip no event of the chain (`ChainIs`), so that a
  walk that finds every predecessor has found all. What the walk computes is not unfolded
  by induction: a report that were wrong would have a least link where it goes wrong, whose
  predecessor it had judged rightly (`WalkStep`).
- `PolicyStaysKept`, `ChangesStayAccounted`: what a handler may rely on at each of its steps,
  by its kind: what the step before it has put on disk (`AppliedInv`, `KeptInv`), that a saved
  version is not listed until it is listed (`UnlistedInv`), that the proposal it applies is
  pending (`StepsOfKind`).
- `DiscoveryAlertsHold`: what memory holds, and what a restart would load, is a true history
  (`IsTrueHistory`): its events are the end of the log of denials, its alerts the end of the
  log of alerts, and a cooldown runs from the last alert of its kind.
  So what a rule counts of the buffer is what the log has in its window as long as that fits
  the buffer (`CountedOfLog`), all but for the second it begins with (`StampIsFloor`); an
  alert that is emitted is true (`EmitIsTrue`), and when all that are due were emitted at
  their readings of the clock (`FoundAreDue`) or cool down no burst is left
  (`NoBurstIsLeft`).
- `AdviceIsHonest`: the answer is of the copy of the events that was taken when it was asked
  for (`AdviceOK`), whatever is denied while the model works. The fallback names the tool most
  often denied (`TopIsMost`), what a model says is taken only within its bounds
  (`NormalizeIsBounded`, of scores that are integers), and the rules are of denied tools and
  graded by how often (`PolicyRulesAreSound`, `AdaptiveRulesAreGraded`).
- `DenialsAreUsedWell`: both together.

**AgentGuard** (`PolicyLifecycleProofs`). `GuardPolicyStaysFiled`: a request that overlapped
no other is the only one, and how far it has got tells what `.tmp`, file, policy and
fingerprint hold (`AloneGoesRight`, `SettledIsFiled`, `ConfirmedIsFiled`); of requests that
overlap nothing is claimed. `GuardStaysSound` is all of `GuardHolds`. Three groups of
lemmas carry it. Of the data: a risk lies within 100 and grows with the findings
(`RiskGrows`), what a scan leaves is left alone by another where one pass is enough
(`CleanStaysClean`), and showing
what invisible characters hide adds no finding that the hidden text lacks (`HiddenIsFound`).
Of a call: every text before the one it is at was scanned by the policy read first
(`ScannedIn`, `ScannedOut`), and an agent stands before its tool only with an answer that
lets it pass (`AsksFirst`). Of the events: each use event is as many verdicts from the end as
there are use events after it (`Tell`), which a dropped oldest event does not disturb.

**Wazuh MCP server** (`WazuhClientProofs`).
- `WritesAreNotRepeated`, `TokensAreUsable` and, of both, `SoundRequests`; `OpensAtThreshold`,
  `TrialFlagIsTrue` and, of both, `CircuitIsCounted`. `Under(c)` says what is true of a call at
  the await it is in: an attempt is left, a write was not carried out yet, and the token it
  holds and the one it was refused are among those handed out. The breaker's part is
  kept by each of its operations, and `CallsUseBreaker` shows that a step of a call is one.
- `WindowsStayBounded`: a deque is the end of what was admitted, all before it is out of the
  window, and any `MaxRequests + 1` of the admitted exceed the window (`Remembers`, `Spaced`).
- `GrantsStayKept`, `KeysStaySound` and, of both, `AccessStaysGuarded`: a code that is held
  bought nothing yet (`HeldCodesAreUnspent`), every token goes back to a code that was drawn and
  a parent that was issued (`RootsAreKnown`), no refresh token in use was revoked; what
  `create_token` keeps is within the cap, and what it drops older (`KeptSessions`).
- `SessionsStaySound`: over the dict one request at most is midway, and what it found is stored
  (`OneIsMidway`, `FoundIsStored`); what is touched was young or asked for by `/sse`
  (`TouchIsEarned`); the gauge counts the connections and the streams that never started.
- `TrafficStaysInOrder`: `FeedInOrder`, and that the ring is the end of the log. What a
  subscriber was sent and what its queue holds are one rising sequence of calls there were
  (`Rising`, `Past`), so that the next call is newer than all of it, taken or dropped. What
  `/recent` selects of the ring is what it would select of the whole log, cut to the same
  length (`RecentAnswers`).
- `RequestsAreAnswered`: the responses are those of the messages that are requests, in their
  order; there is one per request because a selection has as many elements as indexes.

**The analyses** (`AuditChainProofs`). `AnalysesHold`: `Stages` ties each place of a run to its
tool, `FindingsAreSound` says what a tool has found once it has read, and the requests to the
model are the first of `Requests(sizes)` while each was too long (`RequestsInOrder`). The counts
of a triage add up because the second read, of a log that only grew, shows what of the first
is still in its window (`IsShown`, `ReadIsWhole`); a verdict has two sources
(`VerdictIsEarned`).

**How data is reasoned about.** The prover has no induction over sequences, so the modules
write the code's loops in forms that need none. A comprehension with a condition is the
elements at the indexes that meet it (`Selection`), found by rank: the k-th has k such indexes
up to it. A sort puts an element at the place that is the number of those before it. A loop
with a state is a function on `0 .. n`; its equations (`StagesOfGroups`, `StagesOfExtras`,
`StagesOfEvaluation`) and its invariants are proved by the least index at which they would
fail (`LeastOf`).

**Only model-checked.** Liveness (`EveryRequestEnds`, `GateComesFree`, `CallsComeBack`,
`EveryHttpRequestEnds`, `EveryCallEnds`, `EveryCallReturns`): the prover does not handle
fairness and ENABLED. Every other property of a passing run is stated by a theorem.

## 5. Disagreements without a run

Met while translating the code; the model follows the code in each.

*Phase 3.*
- A run reports `completed_with_rollback` whether or not the rollback answered
  (main.py:1301, 1472). A failed action goes to the handoff without a rollback, so the
  parallel actions that succeeded stay in force (main.py:1386, 1467).
- A second run of an incident silently replaces the paused state of the first
  (main.py:1339). The post to Phase 4 waits for up to 10 s, although the comment above it
  says "Fire-and-forget" (main.py:1343).
- The playbooks take a JSON-RPC error in an HTTP 200 for an answer, and recommend agent
  "002" and address 198.51.100.27 when a hint names none (playbooks.py).

*Phase 4.*
- One analyst approving twice satisfies `approvals_needed=2` (server.py:3311), where
  FRAMEWORKS_FAQ.md:827 says "two approvers".
- A run that was asked for and timed out is posted again to the next address of the same
  Phase 3; a grouping confirmed late is not stored.
- The docstring of `generate_incident_id` (incident_management/__init__.py:247-258) names a
  lock it does not take. Closing works from any status. Two tickets may be made of one
  alert. `get_stats` leaves `escalated` and `pending_approval` out of what is open.
- `on_failure: "retry"` and `retry_count` are declared (orchestration/playbooks.py:54-55)
  and never looked at. A JSON-RPC error counts as a completed step.
- The poller's docstring says no alert is pushed twice (opencti_sync.py:16-17); the edges
  of the watermark's second are.
- The mapping of alerts and the export of incidents share a namespace (wazuh_stix.py:33),
  yet give one file two ids, and the hashes of a file are named differently by writer and
  exporter, so the export loses them. An attack chain from an address only reaches the
  domains it resolves to.

*Security proxy.*
- Once the audit chain is switched off, later events evict its tip and the report calls
  an honest log invalid (governance.py:382-389, against 356-358).
- Rejecting a proposal that was approved marks it rejected (app.py:3464, compare 3444).
- The section patches of the policy make no backup (app.py:3689, against
  docs/MCP_PROXY_ISOLATED_EXECUTION.md:529), and neither they nor the console writers save
  a version (app.py:3552, against mcp-security-proxy/README.md:34).
- The fallback of the policy advice names a client and a count when nothing was denied;
  `llm_risk_only` is applied after the limit cut; `invoked` stays false for a model that
  answered what could not be read; the advice to collect samples is of type discovery
  even when only masking was asked for (phase2.py:1464).

*AgentGuard.*
- The docstring of the AutoGen wrapper has "every proposed function call" gated
  (integrations/autogen.py:3-4): a message without text is handed on as it is (line 38),
  and of several tool calls the first is asked about (line 96).
- A scanner "[m]ust not raise on bad input" (scanners/base.py:34), but the classifier's answer is read
  outside the `try` (ml_classifier.py:53): one without a number is answered 500.
- Outputs are to be scrubbed "before they reach users/systems"
  (guardrails/output_pipeline.py:1); the proxy scans them and hands on the bytes that
  came (app.py:308), so that only a blocked answer is kept back.
- Of two updates that overlap, one may be answered 400 or 500 for what the other wrote,
  and leave a text in the file that was not validated, or the default policy in force
  (app.py:220-233); the next request alone sets it right (`PolicyIsFiled`).
- A tool's entry in the policy takes the thresholds it leaves out from the default, but
  not `require_approval` (config.py:63-70).

*Wazuh MCP server.*
- Several trial requests can go out half open: a call admitted earlier ends and clears
  the flag (resilience.py:118, 129, against the comment at line 57).
- Calls of the Wazuh client that wait for the rate limit wake together and go out without
  another look at the window (wazuh_client.py:411-419).
- Blocks of the rate limiter do not escalate, against the comment "Block for escalating
  time periods" (security.py:585) and docs/security/README.md:17 ("escalating block
  duration") and 39 ("escalating blocks"): the length is computed from the deque
  (security.py:586), which never holds more than `max_requests` times, since a refused
  request is not remembered. `BlocksAreEarned` states the one length and its theorem
  proves it, so the escalation that is promised is refuted for every limit.
- Redis sessions are deleted by a graceful shutdown (server.py:243, session_store.py
  271-286), against docs/ADVANCED_FEATURES.md:72; and the shutdown never counts a
  connection (against ADVANCED_FEATURES.md:23-27).
- Revoking a refresh token leaves its access tokens valid (oauth.py). "/" answers 500
  and "/mcp" 400 to a body that is no object; a batch of malformed items is answered 202.
- An IOC pivot asks the graph for `USER {name}` where nodes have `username`, never asks
  OpenCTI for the confidence it reads, and takes an unknown address for one the graph has
  context of; a failed baseline reads as one of no alerts, so that the present looks like
  a spike, which the answer's `baseline_error` tells. The compaction that is to "[r]educe
  payload size" (phase2.py:881) can lengthen it by its markers. A model's confidence that is not a
  number becomes 0.99 (phase2.py).

## 6. Not modelled

- **Numerical code** (`phase4/ml`): floating point, beyond TLC.
- **Single values**: validation of arguments, configuration, prompts and the parsing of
  model answers as far as the pipeline only takes the hint they end in; texts, the
  wording of STIX objects, weights of scores.
- **Append-only or read-only parts**: Phase 3 audit logging, the fan-out of events,
  analytics and threat-intelligence lookups, artifacts and timelines of the forensic
  service, health checks, metrics. `phase4/server.py` 295-567 and 1087-1291 (policy
  recommendations) are never called.
- **The isolated executor** keeps nothing between calls; `ProxyPipeline` has its answers.
- **The earlier copy of the proxy** (`services/mcp_security_proxy`), installers, compose
  files and dashboards.
- Of modelled components: the proxy's `tools/list` with its descriptor drift, the content
  of its dependency cache; AgentGuard's trusted input and metrics; the Wazuh client's cache of static
  data and calls-per-minute window, and the indexer client; the ingest's mapping of alert
  fields; `GracefulShutdown`; evidence and activities of tickets.

What could be added next: the descriptor drift, and the content of the proxy's dependency
cache.
