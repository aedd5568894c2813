----------------------------- MODULE TrafficLog -----------------------------
(*****************************************************************************)
(* The log of MCP calls and its live feed (src/wazuh_mcp_server/             *)
(* mcp_traffic.py): a ring buffer of the latest calls, and a bounded queue   *)
(* for each subscriber of /observability/stream, who misses what is logged   *)
(* while its queue is full.  record() holds a lock and does not suspend.     *)
(*****************************************************************************)
EXTENDS Naturals, Sequences, SequencesExt, Selection

CONSTANTS
    Subscribers,
    Tools,
    Capacity,    \* of the ring (MCP_OBSERVABILITY_CAPACITY)
    QueueSize,   \* of a subscriber's queue (200)
    MaxLogged    \* bound: calls logged

ASSUME TrafficAssumption ==
    Capacity \in Nat \ {0} /\ QueueSize \in Nat \ {0} /\ MaxLogged \in Nat

VARIABLES
    logged,  \* every call, in order: [id, tool, status]
    ring,    \* _events
    queue,   \* _listeners: the queue of each subscriber
    delivered     \* what a subscriber was sent since it subscribed

trafficVars == <<logged, ring, queue, delivered>>

LoggedCall == [id : 1 .. MaxLogged, tool : Tools, status : {"success", "error"}]

TrafficInit ==
    /\ logged = << >> /\ ring = << >>
    /\ queue = << >> /\ delivered = << >>

\* Mutant of Appended: a full ring keeps the oldest
AppendedIfRoom(s, e) == IF Len(s) < Capacity THEN Append(s, e) ELSE s
\* deque(maxlen = Capacity)
Appended(s, e) == IF Len(s) < Capacity THEN Append(s, e) ELSE Append(Tail(s), e)

\* Mutants of Offered: a full queue grows, the newest is sent first
OfferedAlways(q, e) == Append(q, e)
OfferedFirst(q, e) == IF Len(q) < QueueSize THEN <<e>> \o q ELSE q
\* put_nowait, which leaves a full queue as it is
Offered(q, e) == IF Len(q) < QueueSize THEN Append(q, e) ELSE q

RecordCall(t, st) ==
    /\ Len(logged) < MaxLogged
    /\ LET e == [id |-> Len(logged) + 1, tool |-> t, status |-> st] IN
       /\ logged' = Append(logged, e)
       /\ ring' = Appended(ring, e)
       /\ queue' = [l \in DOMAIN queue |-> Offered(queue[l], e)]
    /\ UNCHANGED delivered

Subscribe(l) ==
    /\ l \notin DOMAIN queue
    /\ queue' = [x \in DOMAIN queue \cup {l} |-> IF x = l THEN << >> ELSE queue[x]]
    /\ delivered' = [x \in DOMAIN delivered \cup {l} |-> IF x = l THEN << >> ELSE delivered[x]]
    /\ UNCHANGED <<logged, ring>>

Deliver(l) ==
    /\ l \in DOMAIN queue /\ queue[l] # << >>
    /\ delivered' = [delivered EXCEPT ![l] = Append(@, Head(queue[l]))]
    /\ queue' = [queue EXCEPT ![l] = Tail(@)]
    /\ UNCHANGED <<logged, ring>>

Unsubscribe(l) ==
    /\ l \in DOMAIN queue
    /\ queue' = [x \in DOMAIN queue \ {l} |-> queue[x]]
    /\ delivered' = [x \in DOMAIN delivered \ {l} |-> delivered[x]]
    /\ UNCHANGED <<logged, ring>>

TrafficNext ==
    \/ \E t \in Tools, st \in {"success", "error"} : RecordCall(t, st)
    \/ \E l \in Subscribers : Subscribe(l) \/ Deliver(l) \/ Unsubscribe(l)

TrafficSpec == TrafficInit /\ [][TrafficNext]_trafficVars

\* list_recent: from the newest on, those of the tool asked for
ListRecent(limit, t) ==
    LET latest == Reverse(ring)
        found == Picked(latest, {i \in DOMAIN latest : latest[i].tool = t})
    IN SubSeq(found, 1, IF Len(found) < limit THEN Len(found) ELSE limit)

----------------------------------------------------------------------------
TrafficTypeOK ==
    /\ logged \in Seq(LoggedCall) /\ ring \in Seq(LoggedCall)
    /\ Len(ring) <= Capacity
    /\ DOMAIN queue = DOMAIN delivered
    /\ \A l \in DOMAIN queue : queue[l] \in Seq(LoggedCall) /\ Len(queue[l]) <= QueueSize

(* A subscriber is sent calls in the order they were logged and none twice,    *)
(* however slow it is and whatever it missed (mcp_traffic.py:97-105, 367-386). *)
FeedInOrder ==
    \A l \in DOMAIN queue :
        LET feed == delivered[l] \o queue[l] IN
        \A i, j \in DOMAIN feed : i < j => feed[i].id < feed[j].id

(* /recent answers with the latest calls there were of the tool asked for,   *)
(* newest first, as long as they are among the last Capacity of all          *)
(* (mcp_traffic.py:107-127).                                                 *)
RecentIsLatest ==
    \A t \in Tools, limit \in 1 .. Capacity :
        LET answer == ListRecent(limit, t)
            latest == {i \in DOMAIN logged : logged[i].tool = t /\ i + Capacity > Len(logged)}
        IN \A i \in latest :
               (\E k \in DOMAIN answer : answer[k] = logged[i])
               <=> limit > Cardinality({j \in i + 1 .. Len(logged) : logged[j].tool = t})

(* Each subscriber gets the calls in order, however many are dropped for     *)
(* it, and the list of recent calls is that of the latest.                   *)
TrafficHolds == TrafficTypeOK /\ FeedInOrder /\ RecentIsLatest
=============================================================================
