--------------------------- MODULE ForensicGraph ---------------------------
(*****************************************************************************)
(* The forensic graph of Phase 4 (phase4/forensics): alerts and the entities *)
(* they touch in Neo4j, and the STIX bundles that go to OpenCTI and come     *)
(* back.  Every write of the graph is a transaction of its own, and any of   *)
(* them may fail: of a series of writes a prefix is carried out.             *)
(*****************************************************************************)
EXTENDS Naturals, Sequences, FiniteSets, SequencesExt

CONSTANTS
    WazuhAlerts,   \* Wazuh alerts: [id, agent, src, dst, users, domain, path, hash, pid]
    Bodies,        \* of POST /alerts: [id, incident, src, dst, user]
    Entities,      \* nodes that POST /entities creates
    NamedEntities, \* those of them whose body may bring a stix2_id of its own
    ForeignItems,  \* nodes that a bundle of another tool holds
    BundleIncidents,  \* incidents that a bundle's alerts may name, NoField for none
    MaxGraphRequests  \* bound

NoField == ""      \* a field the alert does not have
ExeName == "exe"   \* the name of every process
Sco == {"IP_ADDRESS", "DOMAIN", "USER", "PROCESS", "FILE"}
Labels == Sco \cup {"ALERT", "WORKSTATION"}

\* at: the host of a process
Node(label, key) == [label |-> label, key |-> key, at |-> NoField]
Process(pid, host) == [label |-> "PROCESS", key |-> pid, at |-> host]
IsNode(n) ==
    n.label \in Labels /\ n = IF n.label = "PROCESS" THEN Process(n.key, n.at) ELSE Node(n.label, n.key)
\* rel: the type of the relationship, or for INVOLVES an address its role
Link(from, rel, to) == [from |-> from, rel |-> rel, to |-> to]

\* An alert has an id and two users, of its source and of its destination; a
\* request without id or incident is refused, and so is an entity that is an alert
ASSUME ForensicAssumption ==
    /\ MaxGraphRequests \in Nat
    /\ \A a \in WazuhAlerts : a.id # NoField /\ DOMAIN a.users = {1, 2}
    /\ \A b \in Bodies : NoField \notin {b.id, b.incident}
    /\ \A n \in Entities \cup ForeignItems : IsNode(n)
    /\ \A n \in Entities : n.label # "ALERT"
    /\ NamedEntities \subseteq Entities

VARIABLES
    graphNodes,    \* nodes of the graph
    graphLinks,    \* relationships of the graph
    filedUnder,    \* id of an alert of the graph -> its incident_id
    foreignIds,    \* nodes whose stix2_id is not derived from their key
    ctiObjects,    \* objects OpenCTI was sent: [type, key, own]
    ctiLinks,      \* relationships OpenCTI was sent, as pairs of objects
    writtenWhole,      \* alerts of which every write was carried out, as they were sent
    graphRequests  \* requests so far

forensicVars == <<graphNodes, graphLinks, filedUnder, foreignIds, ctiObjects,
                  ctiLinks, writtenWhole, graphRequests>>

ForensicInit ==
    /\ graphNodes = {} /\ graphLinks = {} /\ filedUnder = <<>> /\ foreignIds = {}
    /\ ctiObjects = {} /\ ctiLinks = {}
    /\ writtenWhole = {}
    /\ graphRequests = 0

-----------------------------------------------------------------------------
(* Writes: MERGE of a node, and of a link between two nodes that exist.      *)

MergeNode(node) == <<[node |-> node]>>
Relate(from, rel, to) == <<[link |-> Link(from, rel, to)]>>
When(cond, series) == IF cond THEN series ELSE <<>>
IsMerge(write) == "node" \in DOMAIN write

MergedBy(series) == {w.node : w \in {x \in ToSet(series) : IsMerge(x)}}
LinkedBy(series) == {w.link : w \in {x \in ToSet(series) : ~IsMerge(x)}}

\* MATCH finds both ends, or the write does nothing
LinksMade(series) ==
    {series[i].link : i \in {j \in 1 .. Len(series) :
        /\ ~IsMerge(series[j])
        /\ {series[j].link.from, series[j].link.to}
             \subseteq graphNodes \cup MergedBy(SubSeq(series, 1, j - 1))}}

\* The alert is filed anew by whoever writes it last
FileUnder(alert, incident) ==
    [a \in DOMAIN filedUnder \cup {alert} |-> IF a = alert THEN incident ELSE filedUnder[a]]

\* A series of writes, of which the first k are carried out
WriteGraph(series, k, alert, incident) ==
    /\ graphNodes' = graphNodes \cup MergedBy(SubSeq(series, 1, k))
    /\ graphLinks' = graphLinks \cup LinksMade(SubSeq(series, 1, k))
    /\ foreignIds' = foreignIds \ MergedBy(SubSeq(series, 1, k))
    /\ filedUnder' = IF k = 0 THEN filedUnder ELSE FileUnder(alert, incident)

\* Mutant of Involve: the link is made before the address
LinkThenMerge(alert, role, ip) ==
    When(ip # NoField,
         Relate(Node("ALERT", alert), role, Node("IP_ADDRESS", ip))
           \o MergeNode(Node("IP_ADDRESS", ip)))
Involve(alert, role, ip) ==
    When(ip # NoField,
         MergeNode(Node("IP_ADDRESS", ip))
           \o Relate(Node("ALERT", alert), role, Node("IP_ADDRESS", ip)))
InvolveUser(alert, user) ==
    When(user # NoField,
         MergeNode(Node("USER", user))
           \o Relate(Node("ALERT", alert), "INVOLVES", Node("USER", user)))

\* What the poller and the backfill write of an alert
HostOf(a) == IF a.agent = a.id THEN NoField ELSE a.agent
PathKey(a) == IF a.path # NoField THEN a.path ELSE a.hash
\* Mutant of Connects: from the address to the process
ConnectsBack(process, ip) == Relate(Node("IP_ADDRESS", ip), "CONNECTS_TO", process)
Connects(process, ip) == Relate(process, "CONNECTS_TO", Node("IP_ADDRESS", ip))
ProcessOf(a) == Process(a.pid, a.agent)
DomainWrites(a) ==
    When(a.domain # NoField,
         MergeNode(Node("DOMAIN", a.domain))
           \o When(a.dst # NoField,
                   Relate(Node("IP_ADDRESS", a.dst), "RESOLVES_TO", Node("DOMAIN", a.domain))))
FileWrites(a) ==
    When(PathKey(a) # NoField,
         MergeNode(Node("FILE", PathKey(a)))
           \o Relate(Node("ALERT", a.id), "DETECTED", Node("FILE", PathKey(a))))
LogIn(user, host) ==
    When(user # NoField, Relate(Node("USER", user), "LOGGED_IN_TO", Node("WORKSTATION", host)))
HostWrites(a) ==
    When(HostOf(a) # NoField,
         MergeNode(Node("WORKSTATION", a.agent))
           \o LogIn(a.users[1], a.agent) \o LogIn(a.users[2], a.agent))
ProcessWrites(a) ==
    When(a.pid # NoField /\ a.agent # NoField,
         MergeNode(ProcessOf(a))
           \o When(PathKey(a) # NoField,
                   Relate(Node("FILE", PathKey(a)), "MODIFIED_BY", ProcessOf(a)))
           \o When(a.src # NoField,
                   Connects(ProcessOf(a), a.src)))
GraphWrites(a) ==
    MergeNode(Node("ALERT", a.id))
      \o Involve(a.id, "src", a.src) \o Involve(a.id, "dst", a.dst)
      \o InvolveUser(a.id, a.users[1]) \o InvolveUser(a.id, a.users[2])
      \o DomainWrites(a) \o FileWrites(a) \o HostWrites(a) \o ProcessWrites(a)
IncidentOf(a) == IF a.agent # NoField THEN a.agent ELSE a.id

-----------------------------------------------------------------------------
(* Bundles.  An object of ours has an id derived from its type and key.      *)

\* at: the host of a process, the destination of network traffic
Object(type, key, own) == [type |-> type, key |-> key, at |-> NoField, own |-> own]
Traffic(src, dst) == [type |-> "network-traffic", key |-> src, at |-> dst, own |-> TRUE]

\* Of an alert: an incident, and what it is related to
FileKey(a) == IF a.hash # NoField THEN a.hash ELSE a.path
AlertObservables(a) ==
    LET ips == {ip \in {a.src, a.dst} : ip # NoField}
    IN  {Object("IP_ADDRESS", ip, TRUE) : ip \in ips}
        \cup (IF Cardinality(ips) = 2 THEN {Traffic(a.src, a.dst)} ELSE {})
        \cup {Object("USER", u, TRUE) : u \in ToSet(a.users) \ {NoField}}
        \cup {Object("DOMAIN", d, TRUE) : d \in {a.domain} \ {NoField}}
        \cup {Object("FILE", f, TRUE) : f \in {FileKey(a)} \ {NoField}}
AlertBundle(a) ==
    LET incident == Object("incident", a.id, TRUE)
        found == AlertObservables(a)
        traffic == found \cap {Traffic(a.src, a.dst)}
    IN  [objects |-> {Object("identity", "wazuh", TRUE), incident} \cup found,
         links |-> {<<incident, o>> : o \in found}
                   \cup {<<o, Object("IP_ADDRESS", o.key, TRUE)>> : o \in traffic}
                   \cup {<<o, Object("IP_ADDRESS", o.at, TRUE)>> : o \in traffic}]

\* Of an incident: its subgraph, four hops from its alerts along the links
Hop(S) == S \cup {e.to : e \in {l \in graphLinks : l.from \in S}}
AlertsOf(incident) ==
    {Node("ALERT", a) : a \in {x \in DOMAIN filedUnder : filedUnder[x] = incident}}
\* Mutant of Subgraph: the nodes of the first hop, the links of every path
ShortSubgraph(incident) ==
    LET three == Hop(Hop(Hop(AlertsOf(incident))))
    IN  [nodes |-> Hop(AlertsOf(incident)), links |-> {l \in graphLinks : l.from \in three}]
Subgraph(incident) ==
    LET three == Hop(Hop(Hop(AlertsOf(incident))))
    IN  [nodes |-> Hop(three), links |-> {l \in graphLinks : l.from \in three}]
ObjectOf(n) == [type |-> n.label, key |-> n.key, at |-> n.at, own |-> n \notin foreignIds]
IncidentBundle(incident) ==
    LET g == Subgraph(incident)
        objects == {ObjectOf(n) : n \in g.nodes}
        observed == {o \in objects : o.type \in Sco}
    IN  [objects |-> objects \cup {Object("x-wazuh-incident", incident, TRUE)},
         links |-> {<<ObjectOf(l.from), ObjectOf(l.to)>> : l \in g.links}
                   \cup {<<o, r>> : o \in {x \in objects : x.type = "ALERT"}, r \in observed}]

\* Mutant of ReadBack: a file by its last name
ReadByName(o) ==
    IF o.type = "PROCESS" THEN Process(o.key, ExeName)
    ELSE Node(o.type, IF o.type = "FILE" THEN ExeName ELSE o.key)
\* The node an object is read back as: a process by its pid and its name
ReadBack(o) ==
    IF o.type = "PROCESS" THEN Process(o.key, ExeName) ELSE Node(o.type, o.key)
ParsedBundle(objects) == {ReadBack(o) : o \in {x \in objects : x.type \in Labels}}

\* An accepted bundle is stored, one that is refused or unsent is not
PushBundle(bundle) ==
    \/ /\ ctiObjects' = ctiObjects \cup bundle.objects
       /\ ctiLinks' = ctiLinks \cup bundle.links
    \/ UNCHANGED <<ctiObjects, ctiLinks>>

-----------------------------------------------------------------------------
(* Requests                                                                  *)

AsAlert(b) ==
    [id |-> b.id, agent |-> NoField, src |-> b.src, dst |-> b.dst, users |-> <<b.user, NoField>>,
     domain |-> NoField, path |-> NoField, hash |-> NoField, pid |-> NoField]

WriteAlert(a, incident, k) ==
    /\ WriteGraph(GraphWrites(a), k, a.id, incident)
    /\ writtenWhole' = IF k = Len(GraphWrites(a)) THEN writtenWhole \cup {a} ELSE writtenWhole

\* POST /alerts: a write that fails answers 500 and leaves what was written;
\* the push to OpenCTI, when asked for, is tried after the last write
PostAlert(b) ==
    \E k \in 0 .. Len(GraphWrites(AsAlert(b))) :
        /\ WriteAlert(AsAlert(b), b.incident, k)
        /\ \/ k = Len(GraphWrites(AsAlert(b))) /\ PushBundle(AlertBundle(AsAlert(b)))
           \/ UNCHANGED <<ctiObjects, ctiLinks>>

\* The poller and the backfill: a failing write is passed over in silence, and
\* the alert is pushed to OpenCTI all the same
SyncAlert(a) ==
    /\ \E k \in 0 .. Len(GraphWrites(a)) : WriteAlert(a, IncidentOf(a), k)
    /\ PushBundle(AlertBundle(a))

\* POST /opencti/ingest-alert: to OpenCTI only
ForwardAlert(a) ==
    /\ PushBundle(AlertBundle(a))
    /\ UNCHANGED <<graphNodes, graphLinks, filedUnder, foreignIds, writtenWhole>>

\* POST /entities: the body's other fields are the node's, its stix2_id too,
\* which is derived from the key when the body has none
PostEntity(n, named) ==
    /\ named => n \in NamedEntities
    /\ graphNodes' = graphNodes \cup {n}
    /\ foreignIds' = IF named THEN foreignIds \cup {n} ELSE foreignIds \ {n}
    /\ UNCHANGED <<graphLinks, filedUnder, ctiObjects, ctiLinks, writtenWhole>>

\* POST /relationships: 404 unless both nodes are there
PostRelationship(from, to) ==
    /\ {from, to} \subseteq graphNodes
    /\ graphLinks' = graphLinks \cup {Link(from, "RELATED", to)}
    /\ UNCHANGED <<graphNodes, filedUnder, foreignIds, ctiObjects, ctiLinks, writtenWhole>>

\* POST /stix2/ingest: item by item, an item that fails is counted and the
\* next is tried.  Bound: one item fails at most.  An alert is filed anew
\* under the incident its item names, one that is filed already too.  Bound:
\* the alerts of a bundle name one incident.
FiledIncidents == {filedUnder[a] : a \in DOMAIN filedUnder} \ {NoField}
AllButOne(items) == {items} \cup {items \ {o} : o \in items}
ReadItems(nodes, foreign, under) ==
    LET alerts == {n.key : n \in {m \in nodes : m.label = "ALERT"}}
    IN  /\ graphNodes' = graphNodes \cup nodes
        /\ foreignIds' = (foreignIds \ nodes) \cup {n \in foreign : n.label # "ALERT"}
        /\ filedUnder' = [a \in DOMAIN filedUnder \cup alerts |->
                            IF a \in alerts THEN under ELSE filedUnder[a]]
        /\ UNCHANGED <<graphLinks, ctiObjects, ctiLinks, writtenWhole>>

\* Mutant of ForeignAfter: every object that is read gets the id of its bundle
\* as if another tool had made it
AllForeign(items) == {ReadBack(o) : o \in items}
\* An id is ours when it is the one derived from the key the node now has
ForeignAfter(items) ==
    {ReadBack(o) : o \in {x \in items : ~x.own \/ x.at # ReadBack(x).at}}

PostForeignBundle ==
    \E items \in AllButOne(ForeignItems), under \in BundleIncidents : ReadItems(items, items, under)
\* An export of ours, as it left or with another incident written into it
PostOwnBundle(incident) ==
    \E items \in AllButOne({o \in IncidentBundle(incident).objects : o.type \in Labels}),
       under \in BundleIncidents \cup {incident} :
        ReadItems(ParsedBundle(items), ForeignAfter(items), under)

\* POST /opencti/push/{incident}
PushIncident(incident) ==
    /\ PushBundle(IncidentBundle(incident))
    /\ UNCHANGED <<graphNodes, graphLinks, filedUnder, foreignIds, writtenWhole>>

Request ==
    \/ \E b \in Bodies : PostAlert(b)
    \/ \E a \in WazuhAlerts : SyncAlert(a) \/ ForwardAlert(a)
    \/ \E n \in Entities, named \in BOOLEAN : PostEntity(n, named)
    \/ \E from, to \in Entities : PostRelationship(from, to)
    \/ PostForeignBundle
    \/ \E i \in FiledIncidents : PostOwnBundle(i) \/ PushIncident(i)

ForensicNext ==
    /\ graphRequests < MaxGraphRequests
    /\ graphRequests' = graphRequests + 1
    /\ Request

ForensicSpec == ForensicInit /\ [][ForensicNext]_forensicVars

-----------------------------------------------------------------------------
(* Queries                                                                   *)

\* Mutant of FoundByIp: only as the source
FoundBySource(ip) ==
    {filedUnder[l.from.key] : l \in {x \in graphLinks :
        x.rel = "src" /\ x.to = Node("IP_ADDRESS", ip)}} \ {NoField}
FoundByIp(ip) ==
    {filedUnder[l.from.key] : l \in {x \in graphLinks :
        x.from.label = "ALERT" /\ x.to = Node("IP_ADDRESS", ip)}} \ {NoField}
FoundByDomain(domain) ==
    UNION {FoundByIp(l.from.key) : l \in {x \in graphLinks :
        x.rel = "RESOLVES_TO" /\ x.to = Node("DOMAIN", domain)}}
FoundByUser(user) ==
    {filedUnder[l.from.key] : l \in {x \in graphLinks :
        x.from.label = "ALERT" /\ x.to = Node("USER", user)}} \ {NoField}

LogIns(user) == {l \in graphLinks : l.rel = "LOGGED_IN_TO" /\ l.from = Node("USER", user)}
LateralMovement(least) ==
    {n.key : n \in {u \in graphNodes : u.label = "USER" /\ Cardinality(LogIns(u.key)) >= least}}

\* Every path out of the address, up to five hops
AttackChain(ip) == Hop(Hop(Hop(Hop(Hop({Node("IP_ADDRESS", ip)})))))

-----------------------------------------------------------------------------
(* Properties                                                                *)

ForensicTypeOK ==
    /\ \A n \in graphNodes : n.label \in Labels
    /\ \A l \in graphLinks : {l.from, l.to} \subseteq graphNodes
    /\ foreignIds \subseteq graphNodes
    /\ DOMAIN filedUnder = {n.key : n \in {m \in graphNodes : m.label = "ALERT"}}

\* An alert of which no write failed is in the graph with everything it touched
\* (_write_alert_to_graph, ingest_alert): no link was made before its ends.
AnsweredIsWritten ==
    \A a \in writtenWhole :
        /\ MergedBy(GraphWrites(a)) \subseteq graphNodes
        /\ LinkedBy(GraphWrites(a)) \subseteq graphLinks

\* An alert of which no write failed is found by its addresses, its users and,
\* when it names a destination, its domain, under the incident it was filed
\* under last, unless a bundle that names no incident took it out of all of
\* them; who logged in on two of its hosts is suspected of moving.
AnsweredIsFound ==
    \A a \in writtenWhole :
        /\ filedUnder[a.id] # NoField =>
             /\ \A ip \in {a.src, a.dst} \ {NoField} : filedUnder[a.id] \in FoundByIp(ip)
             /\ \A u \in ToSet(a.users) \ {NoField} : filedUnder[a.id] \in FoundByUser(u)
             /\ a.domain # NoField /\ a.dst # NoField
                  => filedUnder[a.id] \in FoundByDomain(a.domain)
        /\ \A b \in writtenWhole :
             HostOf(a) # HostOf(b) /\ NoField \notin {HostOf(a), HostOf(b)}
               => (ToSet(a.users) \cap ToSet(b.users)) \ {NoField} \subseteq LateralMovement(2)

\* A chain traced from an address (get_attack_chain) ends at the domains it
\* resolves to, unless an analyst linked more: the writes that are automatic
\* lead to an address, and only RESOLVES_TO leads on.
ChainsEndAtDomains ==
    \A n \in {m \in graphNodes : m.label = "IP_ADDRESS"} :
        \A reached \in AttackChain(n.key) \ {n} :
            \/ reached.label = "DOMAIN"
            \/ \E l \in graphLinks : l.rel = "RELATED" /\ l.from.label \in {"IP_ADDRESS", "DOMAIN"}

\* A bundle names no object it does not hold: both ends of every relationship
\* OpenCTI is sent were sent too (build_stix2_bundle, alert_to_stix_bundle).
BundlesAreClosed == \A l \in ctiLinks : {l[1], l[2]} \subseteq ctiObjects

\* An address, a user and a domain reach OpenCTI under one id, whichever of
\* the two mappings made the bundle and however often it came back, unless the
\* bundle of another tool or the body of POST /entities named it ("Namespace -
\* shared", wazuh_stix.py).
OneIdPerObservable ==
    \A o \in ctiObjects :
        o.type \in {"IP_ADDRESS", "USER", "DOMAIN"} /\ ~o.own
          => Node(o.type, o.key) \in ForeignItems \cup NamedEntities

\* What was exported and is read back is merged with what it was exported from,
\* apart from processes, whose host the bundle does not carry.
ReadBackIsMerged ==
    \A i \in FiledIncidents :
        \A n \in ParsedBundle(IncidentBundle(i).objects) \ graphNodes : n.label = "PROCESS"

\* Forensics: what was written is all there and is found again, and what leaves
\* for OpenCTI is whole, named once, and comes back to where it was.
ForensicsHold ==
    /\ ForensicTypeOK
    /\ AnsweredIsWritten /\ AnsweredIsFound /\ ChainsEndAtDomains
    /\ BundlesAreClosed /\ OneIdPerObservable /\ ReadBackIsMerged
=============================================================================
