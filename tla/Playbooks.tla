----------------------------- MODULE Playbooks ------------------------------
(*****************************************************************************)
(* The investigation playbooks of Phase 3 (services/phase3_langgraph/app/    *)
(* playbooks.py): a run queries the MCP server, classifies what it counted   *)
(* into a risk tier, recommends a response and, above the lowest tier,       *)
(* pauses until an analyst answers.  Paused runs wait in a dict of the       *)
(* process under their incident.                                             *)
(*                                                                           *)
(* Counts are kept small and compared with small thresholds.  A run asks     *)
(* two searches and, with a hint to look up, OpenCTI; each may fail.         *)
(*****************************************************************************)
EXTENDS Naturals, Sequences, FiniteSets, FiniteSetsExt

CONSTANTS
    Incidents,
    RunCount,    \* bound: runs, numbered as they are asked for
    MaxHits,     \* bound: hits of a search
    Thresholds,  \* pairs [medium, high]: the defaults and the overrides asked for
    Servers,     \* subset of {"plain", "wazuh"}: how an answer is worded
    MaxRestarts  \* bound: restarts of the service

ASSUME PlaybooksAssumption ==
    /\ Incidents # {}
    /\ RunCount \in Nat /\ MaxHits \in Nat /\ MaxRestarts \in Nat
    /\ Thresholds \subseteq [medium : Nat, high : Nat]
    /\ Servers \subseteq {"plain", "wazuh"}

VARIABLES
    server,     \* how the MCP server words its answers
    run,        \* what is known of each run
    waiting,    \* PENDING_PLAYBOOKS: incident -> run
    pauses,     \* runs in the order they paused
    resumed,    \* answers given to each run by /resume
    restarts

playbookVars == <<server, run, waiting, pauses, resumed, restarts>>

Runs == 1 .. RunCount
Playbook == {"brute_force", "beaconing", "malware", "privilege_escalation", "exfiltration"}
Low == 0  Medium == 1  High == 2  Critical == 3
Tier == Low .. Critical
NoRun == 0

\* count: hits of the first search (failed logins, traffic, AV, privilege
\* escalation); other: those of the second (logins, rootkits, sudo, archives);
\* mark: five users, a regular interval or three denials; shell: a root shell;
\* bad: OpenCTI knows the destination or the file
Evidence == [count : 0 .. MaxHits, other : 0 .. MaxHits,
             mark : BOOLEAN, shell : BOOLEAN, bad : BOOLEAN]
Nothing == [count |-> 0, other |-> 0, mark |-> FALSE, shell |-> FALSE, bad |-> FALSE]
Queries == {"first", "second", "cti"}

RunRecord == [pc : {"new", "gate", "paused", "over", "lost"},
              incident : Incidents, auto : BOOLEAN,
              inline : {"approved", "rejected", "none"},
              tier : Tier, whole : Tier,
              tool : {"block_ip", "isolate_host", "quarantine_file"},
              status : {"running", "pending_confirmation",
                        "completed_recommended", "completed_rejected"},
              actor : {"none", "system", "auto-approval", "inline-analyst",
                       "awaiting-analyst", "analyst"}]
Blank == [pc |-> "new", incident |-> CHOOSE i \in Incidents : TRUE, auto |-> FALSE,
          inline |-> "none", tier |-> Low, whole |-> Low, tool |-> "block_ip",
          status |-> "running", actor |-> "none"]

PlaybooksInit ==
    /\ server \in Servers
    /\ run = [r \in Runs |-> Blank]
    /\ waiting = [i \in Incidents |-> NoRun]
    /\ pauses = <<>>
    /\ resumed = [r \in Runs |-> 0]
    /\ restarts = 0

(* Reading the answers *)

\* A search answers with a title before its JSON and OpenCTI under the key
\* "observables" when the server is the one of this repository: neither is read
Readable(answered, s) == IF s = "wazuh" THEN {} ELSE answered

\* _extract_event_count: of an error or of a text that is not JSON, 0
Hits(hits, query, readable) == IF query \in readable THEN hits ELSE 0
\* Mutant of KnownBad: an error of OpenCTI is a match
BadUnlessCleared(bad, asked, readable) == asked /\ ("cti" \in readable => bad)
KnownBad(bad, asked, readable) == asked /\ bad /\ "cti" \in readable

CollectBruteForce(truth, hint, readable) ==
    [Nothing EXCEPT !.count = Hits(truth.count, "first", readable),
                    !.other = Hits(truth.other, "second", readable),
                    !.mark = truth.mark /\ "first" \in readable]

\* the DNS search, the second, is counted but never used
CollectBeaconing(truth, hint, readable) ==
    [Nothing EXCEPT !.count = Hits(truth.count, "first", readable),
                    !.mark = truth.mark /\ "first" \in readable,
                    !.bad = KnownBad(truth.bad, hint, readable)]

CollectMalware(truth, hint, readable) ==
    [Nothing EXCEPT !.count = Hits(truth.count, "first", readable),
                    !.other = Hits(truth.other, "second", readable),
                    !.bad = KnownBad(truth.bad, hint, readable)]

CollectPrivilegeEscalation(truth, hint, readable) ==
    [Nothing EXCEPT !.count = Hits(truth.count, "first", readable),
                    !.other = Hits(truth.other, "second", readable),
                    !.mark = truth.mark /\ "second" \in readable,
                    !.shell = truth.shell /\ "second" \in readable]

CollectExfiltration(truth, hint, readable) ==
    [Nothing EXCEPT !.count = Hits(truth.count, "first", readable),
                    !.other = Hits(truth.other, "second", readable),
                    !.bad = KnownBad(truth.bad, hint, readable)]

Collect(p, truth, hint, readable) ==
    CASE p = "brute_force" -> CollectBruteForce(truth, hint, readable)
      [] p = "beaconing" -> CollectBeaconing(truth, hint, readable)
      [] p = "malware" -> CollectMalware(truth, hint, readable)
      [] p = "privilege_escalation" -> CollectPrivilegeEscalation(truth, hint, readable)
      [] p = "exfiltration" -> CollectExfiltration(truth, hint, readable)

(* Classification: the highest tier that a sign calls for *)

ByCount(n, th) == IF n >= th.high THEN High ELSE IF n >= th.medium THEN Medium ELSE Low
If(sign, tier) == IF sign THEN tier ELSE Low

ClassifyBruteForce(e, th) ==
    Max({ByCount(e.count, th),
         If(e.count >= th.medium /\ e.other > 0, Critical),
         If(e.mark, Medium)})

ClassifyBeaconing(e, th) ==
    Max({ByCount(e.count, th), If(e.mark, High), If(e.bad, Critical)})

ClassifyMalware(e, th) ==
    Max({ByCount(e.count, th), If(e.other > 0, Critical), If(e.bad, Critical)})

ClassifyPrivilegeEscalation(e, th) ==
    Max({ByCount(e.count, th), If(e.other >= th.high, Medium),
         If(e.mark, Medium), If(e.shell, Critical)})

ClassifyExfiltration(e, th) ==
    Max({ByCount(e.count, th),
         If(e.other >= 1 /\ e.count >= th.medium, High),
         If(e.bad, Critical)})

Classify(p, e, th) ==
    CASE p = "brute_force" -> ClassifyBruteForce(e, th)
      [] p = "beaconing" -> ClassifyBeaconing(e, th)
      [] p = "malware" -> ClassifyMalware(e, th)
      [] p = "privilege_escalation" -> ClassifyPrivilegeEscalation(e, th)
      [] p = "exfiltration" -> ClassifyExfiltration(e, th)

Recommend(p, hint) ==
    CASE p \in {"brute_force", "beaconing"} -> "block_ip"
      [] p = "malware" -> "quarantine_file"
      [] p = "privilege_escalation" -> "isolate_host"
      [] p = "exfiltration" -> IF hint THEN "block_ip" ELSE "isolate_host"

\* What a run may find: its tier, the tier had every query been answered and
\* read, and the tool of the action it recommends
Found(p, hint, th, truth, readable) ==
    [tier |-> Classify(p, Collect(p, truth, hint, readable), th),
     whole |-> Classify(p, Collect(p, truth, hint, Queries), th),
     tool |-> Recommend(p, hint)]
Findings == [s \in Servers |->
    UNION {{Found(p, hint, th, truth, Readable(answered, s)) :
               truth \in Evidence, answered \in SUBSET Queries} :
           p \in Playbook, hint \in BOOLEAN, th \in Thresholds}]

(* A run *)

\* The nodes collect, classify and recommend: they touch nothing shared
Investigate(r, i, auto, inline) ==
    /\ run[r].pc = "new" /\ \A q \in 1 .. r - 1 : run[q].pc # "new"
    /\ \E f \in Findings[server] :
        run' = [run EXCEPT ![r] =
            [Blank EXCEPT !.pc = "gate", !.incident = i, !.auto = auto, !.inline = inline,
                          !.tier = f.tier, !.whole = f.whole, !.tool = f.tool]]
    /\ UNCHANGED <<server, waiting, pauses, resumed, restarts>>

\* Mutant of Verdict: the medium tier is let through too
LaxVerdict(q) ==
    CASE q.tier <= Medium -> <<"approved", "system">>
      [] q.tier > Medium /\ q.auto -> <<"approved", "auto-approval">>
      [] q.tier > Medium /\ ~q.auto /\ q.inline # "none" -> <<q.inline, "inline-analyst">>
      [] OTHER -> <<"pending", "awaiting-analyst">>
Verdict(q) ==
    CASE q.tier = Low -> <<"approved", "system">>
      [] q.tier > Low /\ q.auto -> <<"approved", "auto-approval">>
      [] q.tier > Low /\ ~q.auto /\ q.inline # "none" -> <<q.inline, "inline-analyst">>
      [] OTHER -> <<"pending", "awaiting-analyst">>

Completed(decision) ==
    IF decision = "rejected" THEN "completed_rejected" ELSE "completed_recommended"

EndRun(r, status, actor) ==
    run' = [run EXCEPT ![r] = [@ EXCEPT !.pc = "over", !.status = status, !.actor = actor,
                                        !.whole = run[r].tier, !.tool = "block_ip"]]

GateDecides(r) ==
    /\ run[r].pc = "gate"
    /\ Verdict(run[r])[1] # "pending"
    /\ EndRun(r, Completed(Verdict(run[r])[1]), Verdict(run[r])[2])
    /\ UNCHANGED <<server, waiting, pauses, resumed, restarts>>

\* Mutant of Parked: a run waiting for the incident keeps its place
ParkedUnlessTaken(r) ==
    IF waiting[run[r].incident] # NoRun THEN waiting
    ELSE [waiting EXCEPT ![run[r].incident] = r]
\* whatever waits for the incident is replaced
Parked(r) == [waiting EXCEPT ![run[r].incident] = r]

GatePauses(r) ==
    /\ run[r].pc = "gate"
    /\ Verdict(run[r])[1] = "pending"
    /\ run' = [run EXCEPT ![r] = [@ EXCEPT !.pc = "paused", !.status = "pending_confirmation",
                                           !.actor = "awaiting-analyst", !.whole = run[r].tier,
                                           !.tool = "block_ip"]]
    /\ waiting' = Parked(r)
    /\ pauses' = Append(pauses, r)
    /\ UNCHANGED <<server, resumed, restarts>>

\* Mutant of Taken: read and left where it is
LeftWaiting(i) == waiting
\* popped under the lock
Taken(i) == [waiting EXCEPT ![i] = NoRun]

\* POST /pending/{incident_id}/resume; nothing waiting: 404
Resume(i, decision) ==
    /\ waiting[i] # NoRun
    /\ resumed[waiting[i]] < 2    \* bound: each run is answered twice at most
    /\ waiting' = Taken(i)
    /\ EndRun(waiting[i], Completed(decision), "analyst")
    /\ resumed' = [resumed EXCEPT ![waiting[i]] = @ + 1]
    /\ UNCHANGED <<server, pauses, restarts>>

\* The process ends: nothing of this is kept anywhere else
RestartPlaybooks ==
    /\ restarts < MaxRestarts
    /\ restarts' = restarts + 1
    /\ waiting' = [i \in Incidents |-> NoRun]
    /\ run' = [r \in Runs |-> IF run[r].pc = "gate" THEN [Blank EXCEPT !.pc = "lost"]
                              ELSE run[r]]
    /\ UNCHANGED <<server, pauses, resumed>>

PlaybooksNext ==
    \/ \E r \in Runs, i \in Incidents, auto \in BOOLEAN,
          inline \in {"approved", "rejected", "none"} : Investigate(r, i, auto, inline)
    \/ \E r \in Runs : GateDecides(r) \/ GatePauses(r)
    \/ \E i \in Incidents, decision \in {"approved", "rejected"} : Resume(i, decision)
    \/ RestartPlaybooks

PlaybooksSpec == PlaybooksInit /\ [][PlaybooksNext]_playbookVars

-----------------------------------------------------------------------------
(* Properties *)

\* Types of the playbook state.
PlaybooksTypeOK ==
    /\ server \in Servers
    /\ run \in [Runs -> RunRecord]
    /\ waiting \in [Incidents -> {NoRun} \union {r \in Runs : run[r].pc = "paused"}]
    /\ pauses \in Seq(Runs)
    /\ resumed \in [Runs -> 0 .. 2]
    /\ restarts \in 0 .. MaxRestarts

\* Queries that fail never raise the tier: a run classified without some of
\* its answers is at most as high as with all of them.
SilenceNeverAlarms == \A r \in Runs : run[r].tier <= run[r].whole

\* Above the lowest tier, a run nobody approved beforehand and that carries no
\* decision of its own completes only by the answer of an analyst.
AnalystDecides ==
    \A r \in Runs :
        run[r].pc = "over" /\ run[r].tier > Low /\ ~run[r].auto /\ run[r].inline = "none"
            => run[r].actor = "analyst" /\ resumed[r] > 0

\* However many answers arrive for an incident, a paused run takes one.
EachPauseAnsweredOnce == \A r \in Runs : resumed[r] <= 1

\* What waits for an incident, and so what an answer is given to, is the run of
\* the incident that paused last; the runs it replaced are never answered.
NewestPauseWaits ==
    \A i \in Incidents, n \in 1 .. Len(pauses) :
        waiting[i] # NoRun /\ run[pauses[n]].incident = i =>
            \E m \in n .. Len(pauses) : pauses[m] = waiting[i]

\* The count taken from the answer to search_security_events is its number of
\* hits (as _extract_event_count says): malware seen is classified.
CountsAreHits ==
    \A p \in Playbook, truth \in {e \in Evidence : e.count = MaxHits} :
        Collect(p, truth, TRUE, Readable(Queries, server)).count = truth.count

\* Investigations: queries that fail raise no alarm, above the lowest tier an
\* analyst decides, and of an incident's paused runs the newest is answered, once.
PlaybooksHold ==
    /\ PlaybooksTypeOK
    /\ SilenceNeverAlarms /\ AnalystDecides
    /\ EachPauseAnsweredOnce /\ NewestPauseWaits
=============================================================================
