---------------------------- MODULE IncidentDesk ----------------------------
(*****************************************************************************)
(* Incident tickets of Phase 4 (src/wazuh_mcp_server/phase4/                 *)
(* incident_management/ and the routes of server.py that create tickets):    *)
(* the ids given to them, their life cycle and their SLA.                    *)
(*                                                                           *)
(* A request has a database session of its own and is two steps: what it     *)
(* reads, and the commit of what it changed, which writes only the columns   *)
(* whose value differs from the one read.  The routes of /incidents run on   *)
(* threads; the other origins of tickets run on the event loop without       *)
(* awaiting, one at a time.  Time is in hours.                               *)
(*****************************************************************************)
EXTENDS Integers, FiniteSets, FiniteSetsExt

CONSTANTS
    Desks,       \* requests that may be under way together
    MaxTickets,  \* bound: tickets
    MaxHours,    \* bound: hours
    MaxWrites,   \* bound: changes of tickets
    Tiers,       \* of the tickets made
    PutTiers,    \* tiers given by PUT
    PutStatuses, \* statuses given by PUT
    PutPriorities, \* priorities given by PUT: any integer is taken
    MaxFetched   \* bound: alerts of one ingest

Statuses == {"open", "assigned", "investigating", "escalated", "pending_approval",
             "resolved", "closed", "archived"}

ASSUME DeskAssumption ==
    /\ MaxTickets \in Nat /\ MaxHours \in Nat /\ MaxWrites \in Nat /\ MaxFetched \in Nat
    /\ Tiers \union PutTiers \subseteq {"low", "medium", "high", "critical"}
    /\ PutStatuses \subseteq Statuses /\ PutPriorities \subseteq Int

VARIABLES
    hour,
    tickets,   \* id -> ticket, of the ids given
    desk,      \* where each request is and what it read
    ingest,    \* the ingest under way: [left, made, skipped, pc]
    ingested,  \* the ids it made
    writes

deskVars == <<hour, tickets, desk, ingest, ingested, writes>>

Changes == {"assign", "resolve", "escalate", "close", "archive"}
Ids == 1 .. MaxTickets
NoHour == MaxHours + 1

SlaHours(tier) ==
    CASE tier = "low" -> 24 [] tier = "medium" -> 8
      [] tier = "high" -> 4 [] tier = "critical" -> 1
PriorityFromRisk(tier) ==
    CASE tier = "low" -> 5 [] tier = "medium" -> 3
      [] tier = "high" -> 2 [] tier = "critical" -> 1

Ticket == [status : Statuses, tier : Tiers \union PutTiers,
           priority : Int, created : 0 .. MaxHours,
           resolved : 0 .. NoHour, sla : 1 .. 24, breach : BOOLEAN,
           trail : SUBSET Changes]  \* types of the activities logged
NewTicket(tier) ==
    [status |-> "open", tier |-> tier, priority |-> PriorityFromRisk(tier), created |-> hour,
     resolved |-> NoHour, sla |-> SlaHours(tier), breach |-> FALSE, trail |-> {}]

Origins == {"route", "loop"}   \* POST /incidents; alerts, groups and playbooks
Idle == [pc |-> "idle", op |-> "none", id |-> 0, at |-> 0, priority |-> 1, seen |-> "open"]
DeskType == [pc : {"idle", "create", "change"}, op : Changes \union Origins \union {"none"},
             id : 0 .. MaxTickets + 1, at : 0 .. MaxHours, priority : Int,
             seen : Statuses]
NoIngest == [pc |-> "idle", left |-> 0, made |-> 0, skipped |-> 0, candidate |-> 0]

DeskInit ==
    /\ hour = 0 /\ tickets = <<>> /\ writes = 0
    /\ desk = [d \in Desks |-> Idle]
    /\ ingest = NoIngest /\ ingested = {}

Given == DOMAIN tickets

(* Ids *)

Reserving == {desk[d].id : d \in {e \in Desks : desk[e].pc = "create"}}

\* Mutant of Candidate: the next one that nobody is about to take
CandidateReserved ==
    Min({n \in 1 .. MaxTickets + 1 : n > Cardinality(Given) /\ n \notin Given \union Reserving})
\* generate_incident_id: one more than there are, or the next one free; no lock
\* is taken
Candidate == Min({n \in 1 .. MaxTickets + 1 : n > Cardinality(Given) /\ n \notin Given})

Inserted(id, tier) ==
    tickets' = [i \in Given \union {id} |-> IF i = id THEN NewTicket(tier) ELSE tickets[i]]

LoopFree ==
    /\ \A d \in Desks : desk[d].op # "loop"
    /\ ingest.pc \notin {"alert", "commit"}

StartCreate(d, origin) ==
    /\ desk[d] = Idle /\ Candidate <= MaxTickets
    /\ origin = "loop" => LoopFree
    /\ desk' = [desk EXCEPT ![d] = [@ EXCEPT !.pc = "create", !.op = origin, !.id = Candidate]]
    /\ UNCHANGED <<hour, tickets, ingest, ingested, writes>>

\* Mutant of AcceptsTicket: an insert of an id that is there replaces the ticket
Replaces(id) == TRUE
\* incident_id is unique
AcceptsTicket(id) == id \notin Given

\* The commit of POST /incidents, of /alerts/to-incident, of a group of alerts
\* and of the create_incident step of a playbook
CommitCreate(d, tier) ==
    /\ desk[d].pc = "create" /\ AcceptsTicket(desk[d].id)
    /\ Inserted(desk[d].id, tier)
    /\ desk' = [desk EXCEPT ![d] = Idle]
    /\ UNCHANGED <<hour, ingest, ingested, writes>>

\* IntegrityError: 500 from the route, 409 for an alert, a group is skipped
LoseCreate(d) ==
    /\ desk[d].pc = "create" /\ ~AcceptsTicket(desk[d].id)
    /\ desk' = [desk EXCEPT ![d] = Idle]
    /\ UNCHANGED <<hour, tickets, ingest, ingested, writes>>

(* POST /alerts/wazuh/ingest: one ticket for each alert fetched, whether or  *)
(* not it was ingested before                                                *)

StartIngest(count) ==
    /\ ingest.pc = "idle" /\ LoopFree    \* bound: one ingest
    /\ ingest' = [NoIngest EXCEPT !.pc = "alert", !.left = count]
    /\ UNCHANGED <<hour, tickets, desk, ingested, writes>>

IngestRead ==
    /\ ingest.pc = "alert" /\ ingest.left > 0 /\ Candidate <= MaxTickets
    /\ ingest' = [ingest EXCEPT !.pc = "commit", !.candidate = Candidate]
    /\ UNCHANGED <<hour, tickets, desk, ingested, writes>>

\* Mutant of Losing: the first id taken ends the ingest
LosingAll == [ingest EXCEPT !.pc = "over", !.left = 0]
\* an alert that lost its id is skipped, the next one is tried
Losing == [ingest EXCEPT !.pc = "alert", !.left = @ - 1, !.skipped = @ + 1]

IngestCommit(tier) ==
    /\ ingest.pc = "commit"
    /\ IF ~AcceptsTicket(ingest.candidate)
       THEN /\ ingest' = Losing
            /\ UNCHANGED <<tickets, ingested>>
       ELSE /\ Inserted(ingest.candidate, tier)
            /\ ingested' = ingested \union {ingest.candidate}
            /\ ingest' = [ingest EXCEPT !.pc = "alert", !.left = @ - 1, !.made = @ + 1]
    /\ UNCHANGED <<hour, desk, writes>>

EndIngest ==
    /\ ingest.pc = "alert" /\ ingest.left = 0
    /\ ingest' = [ingest EXCEPT !.pc = "over"]
    /\ UNCHANGED <<hour, tickets, desk, ingested, writes>>

(* Life cycle *)

\* The row is read, and the hour for resolved_at taken
StartChange(d, op, id) ==
    /\ desk[d] = Idle /\ id \in Given /\ writes < MaxWrites
    /\ writes' = writes + 1
    /\ desk' = [desk EXCEPT ![d] = [pc |-> "change", op |-> op, id |-> id, at |-> hour,
                                    priority |-> tickets[id].priority,
                                    seen |-> tickets[id].status]]
    /\ UNCHANGED <<hour, tickets, ingest, ingested>>

\* Mutant of Late: against the hours of the tier the ticket has now
LateByTier(t, at) == at > t.created + SlaHours(t.tier)
Late(t, at) == at > t.created + t.sla

\* Mutant of Marked: an early resolution takes the mark away
MarkedAnew(t, at) == Late(t, at)
Marked(t, at) == t.breach \/ Late(t, at)

StatusAfter(op) ==
    CASE op = "assign" -> "assigned" [] op = "resolve" -> "resolved"
      [] op = "escalate" -> "escalated" [] op = "close" -> "closed"
      [] op = "archive" -> "archived"

\* Mutant of Logged: the activity of a closure is left out
LoggedBut(t, op) == t.trail \union ({op} \ {"close"})
Logged(t, op) == t.trail \union {op}

\* Mutant of Raised: the highest too
RaisedPast(priority) == priority - 1
Raised(priority) == IF priority > 1 THEN priority - 1 ELSE 1

\* What the transition writes over the row as it is now: none looks at the status
Changed(t, c) ==
    [t EXCEPT !.status = IF StatusAfter(c.op) = c.seen THEN @ ELSE StatusAfter(c.op),
              !.trail = Logged(t, c.op),
              !.resolved = IF c.op = "resolve" THEN c.at ELSE @,
              !.breach = IF c.op = "resolve" THEN Marked(t, c.at) ELSE @,
              !.priority = IF c.op = "escalate" /\ Raised(c.priority) # c.priority
                           THEN Raised(c.priority) ELSE @]

CommitChange(d) ==
    /\ desk[d].pc = "change"
    /\ tickets' = [tickets EXCEPT ![desk[d].id] = Changed(@, desk[d])]
    /\ desk' = [desk EXCEPT ![d] = Idle]
    /\ UNCHANGED <<hour, ingest, ingested, writes>>

\* PUT /incidents/{id}: no activity, no look at the SLA; the tier changes and
\* the hours that came with it stay.  A field the body leaves out, or that has the
\* value read, is not written
UpdateIncident(id, status, tier, priority) ==
    /\ id \in Given /\ writes < MaxWrites
    /\ writes' = writes + 1
    /\ tickets' = [tickets EXCEPT ![id] = [@ EXCEPT !.status = status, !.tier = tier,
                                                   !.priority = priority]]
    /\ UNCHANGED <<hour, desk, ingest, ingested>>

PassHour ==
    /\ hour < MaxHours
    /\ hour' = hour + 1
    /\ UNCHANGED <<tickets, desk, ingest, ingested, writes>>

DeskNext ==
    \/ \E d \in Desks :
        \/ \E origin \in Origins : StartCreate(d, origin)
        \/ \E tier \in Tiers : CommitCreate(d, tier)
        \/ LoseCreate(d)
        \/ \E op \in Changes, id \in Given : StartChange(d, op, id)
        \/ CommitChange(d)
    \/ \E id \in Given :
          \E status \in PutStatuses \union {tickets[id].status},
             tier \in PutTiers \union {tickets[id].tier},
             priority \in PutPriorities \union {tickets[id].priority} :
               UpdateIncident(id, status, tier, priority)
    \/ \E count \in 1 .. MaxFetched : StartIngest(count)
    \/ IngestRead \/ (\E tier \in Tiers : IngestCommit(tier)) \/ EndIngest
    \/ PassHour

DeskSpec == DeskInit /\ [][DeskNext]_deskVars

-----------------------------------------------------------------------------
(* Properties *)

\* Types of the desk state.
DeskTypeOK ==
    /\ hour \in 0 .. MaxHours
    /\ Given \subseteq Ids /\ tickets \in [Given -> Ticket]
    /\ desk \in [Desks -> DeskType]
    /\ ingest.pc \in {"idle", "alert", "commit", "over"}
    /\ ingested \subseteq Ids

\* Ids stay dense: the tickets are numbered 1, 2, ... whatever races were lost,
\* which is what makes their number plus one a good first guess.
IdsAreDense == Given = 1 .. Cardinality(Given)

\* A ticket is never replaced by another of the same id, however creations race.
TicketsAreNeverReplaced ==
    [][\A i \in Given :
          /\ i \in DOMAIN tickets'
          /\ tickets[i].trail \subseteq tickets'[i].trail
          /\ tickets'[i].created = tickets[i].created]_deskVars

\* An ingest accounts for every alert: each made a ticket that is there, or was
\* skipped.
IngestAccounts ==
    /\ ingest.pc # "idle" => ingested \subseteq Given /\ Cardinality(ingested) = ingest.made
    /\ ingest.pc = "over" => ingest.made + ingest.skipped > 0 /\ ingest.left = 0

\* No late resolution goes unmarked, however resolutions race: what a racing
\* request on time leaves behind never hides a deadline that was missed.
LateIsMarked ==
    \A i \in Given :
        /\ tickets[i].resolved # NoHour
        /\ tickets[i].resolved > tickets[i].created + tickets[i].sla
        => tickets[i].breach

\* However escalations race with a PUT, which takes any integer, none takes a ticket
\* past the highest priority: only what a PUT gave is above it.
RaisesStopAtHighest ==
    \A i \in Given : tickets[i].priority < 1 => tickets[i].priority \in PutPriorities

\* Once an SLA breach is on record it stays there.
BreachStays == [][\A i \in Given : tickets[i].breach => tickets'[i].breach]_deskVars

\* A closed ticket says who closed it, unless a PUT closed it.
ClosureLeavesTrace ==
    \A i \in Given : tickets[i].status \in {"closed", "archived"} \ PutStatuses =>
        tickets[i].trail \intersect {"close", "archive"} # {}

\* Tickets, under requests that race: creations take dense ids and replace
\* nothing, an ingest accounts for every alert, a late resolution is marked and
\* stays so, a closure leaves its trace, and escalations stop at the highest priority.
TicketsHold ==
    /\ [](DeskTypeOK /\ IdsAreDense /\ IngestAccounts /\ LateIsMarked /\ ClosureLeavesTrace
            /\ RaisesStopAtHighest)
    /\ TicketsAreNeverReplaced /\ BreachStays
=============================================================================
