----------------------------- MODULE MCServices -----------------------------
(*****************************************************************************)
(* Parts of Phase 3 and Phase 4 that share no state, side by side: a         *)
(* behaviour picks one and stays with it, so each is explored as if alone.   *)
(*****************************************************************************)
EXTENDS IncidentDesk, ResponsePlaybook, AlertPoller, LlmWatch, Playbooks, IncidentGrouping,
        ForensicGraph

VARIABLE part

DeskSymmetry == Permutations(Desks)

\* Past the highest
SomePriorities == {-1}

SomeThresholds == {[medium |-> 1, high |-> 2], [medium |-> 2, high |-> 1]}

An(id, ts, rule, ip, level) ==
    [id |-> id, ts |-> ts, rule |-> rule, ip |-> ip, agent |-> "a1", level |-> level]
\* Duplicates within and out of the window and without a time, and neighbours by rule
\* and by address
SomeAlerts ==
    {An(1, 1, "r1", "x", 5), An(2, 2, "r1", "x", 5), An(3, 4, "r1", "x", 5),
     An(4, 0, "r1", "x", 5), An(5, 2, "r1", "y", 6), An(6, 3, "r1", "y", 6),
     An(7, 3, "r2", "x", 5), An(8, 6, "r1", "y", 8)}

Wazuh(id, agent, src, dst, users, domain, path, hash, pid) ==
    [id |-> id, agent |-> agent, src |-> src, dst |-> dst, users |-> users,
     domain |-> domain, path |-> path, hash |-> hash, pid |-> pid]
\* One alert with everything, one of another host, and the same again from an
\* analyst who files it elsewhere
SomeWazuhAlerts ==
    {Wazuh("w1", "h1", "x", "y", <<"u", "">>, "d", "p", "s", "7"),
     Wazuh("w2", "h2", "y", "", <<"u", "">>, "", "", "", "")}
SomeBodies == {[id |-> "w2", incident |-> "c", src |-> "y", dst |-> "x", user |-> "v"]}
SomeEntities == {Node("IP_ADDRESS", "y"), Node("WORKSTATION", "h2")}
SomeNames == {Node("IP_ADDRESS", "y")}
\* An alert of another tool, and one of ours that it moves or takes out
SomeItems ==
    {Node("IP_ADDRESS", "y"), Node("ALERT", "f1"), Node("ALERT", "w1"), Process("7", ExeName)}
SomeIncidents == {NoField, "c"}

allVars == <<part, deskVars, responseVars, pollerVars, watchVars, playbookVars,
             groupingVars, forensicVars>>

ServicesInit ==
    /\ part \in {"desk", "response", "poller", "watch", "playbooks", "grouping",
                "forensics"}
    /\ DeskInit
    /\ ResponseInit
    /\ PollerInit
    /\ WatchInit
    /\ PlaybooksInit
    /\ GroupingInit
    /\ ForensicInit
    /\ part # "playbooks" => server = "plain"

\* The other parts stay as they are
Only(p) ==
    /\ IF p = "desk" THEN TRUE ELSE UNCHANGED deskVars
    /\ IF p = "response" THEN TRUE ELSE UNCHANGED responseVars
    /\ IF p = "poller" THEN TRUE ELSE UNCHANGED pollerVars
    /\ IF p = "watch" THEN TRUE ELSE UNCHANGED watchVars
    /\ IF p = "playbooks" THEN TRUE ELSE UNCHANGED playbookVars
    /\ IF p = "grouping" THEN TRUE ELSE UNCHANGED groupingVars
    /\ IF p = "forensics" THEN TRUE ELSE UNCHANGED forensicVars

\* Bound: beside an ingest of two alerts, one change of a ticket
DeskBound == ingest'.left + ingest'.made + ingest'.skipped < 2 \/ writes' < 2

ServicesNext ==
    /\ UNCHANGED part
    /\ \/ part = "desk" /\ DeskNext /\ DeskBound /\ Only("desk")
       \/ part = "response" /\ ResponseNext /\ Only("response")
       \/ part = "poller" /\ PollerNext /\ Only("poller")
       \/ part = "watch" /\ WatchNext /\ Only("watch")
       \/ part = "playbooks" /\ PlaybooksNext /\ Only("playbooks")
       \/ part = "grouping" /\ GroupingNext /\ Only("grouping")
       \/ part = "forensics" /\ ForensicNext /\ Only("forensics")

ServicesSpec == ServicesInit /\ [][ServicesNext]_allVars
=============================================================================
