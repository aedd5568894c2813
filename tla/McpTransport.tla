---------------------------- MODULE McpTransport ----------------------------
(*****************************************************************************)
(* Sessions and transport of the MCP server (src/wazuh_mcp_server/           *)
(* server.py, mcp/session.py, session_store.py): requests on /, /mcp and     *)
(* /sse, and the end of a session by DELETE /mcp, by age and by restart.     *)
(*                                                                           *)
(* Sessions live in a dict or in Redis.  The methods of the dict never       *)
(* suspend, so a request is not interrupted between them; those of Redis     *)
(* do, they may fail, and Redis forgets a session when its time is over.     *)
(* What a request changes in the session besides its last activity           *)
(* (capabilities, client_info) is never stored again.                        *)
(*****************************************************************************)
EXTENDS Naturals, FiniteSets

CONSTANTS
    ReqCount,    \* bound: requests, numbered as they arrive
    Backends,    \* subset of {"memory", "redis"}
    MaxMade      \* bound: sessions made

ASSUME TransportAssumption ==
    ReqCount \in Nat /\ Backends \subseteq {"memory", "redis"} /\ MaxMade \in Nat

VARIABLES
    backend,
    sessionsMade, \* sessions are numbered in the order they are made
    stored,       \* sessions in the store
    idle,         \* those not active for 30 minutes
    point,           \* where a request is
    asking,          \* what it asks and works with: [path, wants, sid, young]
    gauge,        \* ACTIVE_CONNECTIONS
    closed,       \* sessions whose DELETE was answered 204
    unstarted     \* streams that ended before their generator started

sessionVars == <<backend, sessionsMade, stored, idle, closed>>
transportVars == <<sessionVars, point, asking, gauge, unstarted>>

Reqs == 1 .. ReqCount
Sids == 0 .. MaxMade
\* sid is the session named, then the one in use, 0 for none; young: the
\* session was found active in the last 30 minutes
Request == [path : {"mcp", "sse", "close"}, wants : {"call", "stream"},
            sid : Sids, young : BOOLEAN]
Over == [path |-> "mcp", wants |-> "call", sid |-> 0, young |-> TRUE]

TransportInit ==
    /\ backend \in Backends
    /\ sessionsMade = 0
    /\ stored = {} /\ idle = {} /\ closed = {}
    /\ point = [r \in Reqs |-> "new"]
    /\ asking = [r \in Reqs |-> Over]
    /\ gauge = 0 /\ unstarted = 0

Midway == {"lookup", "drop", "touch", "create"}

\* Mutant of Turn: the methods of the dict suspend too
AnyTurn(r) == r \in Reqs
\* Between those a request of the in-memory store does not suspend
Turn(r) == backend = "memory" => \A q \in Reqs \ {r} : point[q] \notin Midway

\* The bound MaxMade
MayCreate == sessionsMade + Cardinality({q \in Reqs : point[q] = "create"}) < MaxMade

MoveTo(r, l) == point' = [point EXCEPT ![r] = l]

\* Mutants of CountsOnArrival: streams of /sse too, and not the requests
CountsUnlessClosing(asked) == asked.path # "close"
CountsStreams(asked) == asked.path = "sse"

\* /sse counts a connection when its response is made, / and /mcp on arrival
CountsOnArrival(asked) == asked.path = "mcp"

Arrive(r, asked) ==
    /\ Turn(r) /\ point[r] = "new" /\ \A q \in 1 .. r - 1 : point[q] # "new"
    /\ IF asked.sid = 0 THEN MayCreate ELSE asked.sid <= sessionsMade
    /\ asking' = [asking EXCEPT ![r] = asked]
    /\ MoveTo(r, IF asked.sid = 0 THEN "create" ELSE "lookup")
    /\ gauge' = IF CountsOnArrival(asked) THEN gauge + 1 ELSE gauge
    /\ UNCHANGED <<sessionVars, unstarted>>

\* The response, and the finally of the endpoint
Leave(r) ==
    /\ MoveTo(r, "done")
    /\ asking' = [asking EXCEPT ![r] = Over]
    /\ gauge' = IF asking[r].path = "mcp" THEN gauge - 1 ELSE gauge
    /\ UNCHANGED unstarted

\* Mutant of NotFound: in memory, a session that is not there is waited for
NotFoundWaits(r) ==
    /\ Turn(r) /\ point[r] = "lookup"
    /\ backend = "redis"
    /\ Leave(r)
    /\ UNCHANGED sessionVars

\* sessions.get answers nothing: also when Redis does not
NotFound(r) ==
    /\ Turn(r) /\ point[r] = "lookup"
    /\ asking[r].sid \notin stored \/ backend = "redis"
    /\ Leave(r)
    /\ UNCHANGED sessionVars

\* Mutant of Refused: age is no reason
RefusedIfClosing(r) == asking[r].path = "close"
\* DELETE removes what it found, the MCP endpoints what is too old; /sse does
\* not look at the age
Refused(r) == asking[r].path = "close" \/ (asking[r].path = "mcp" /\ asking[r].sid \in idle)

FoundSession(r) ==
    /\ Turn(r) /\ point[r] = "lookup"
    /\ asking[r].sid \in stored
    /\ asking' = [asking EXCEPT ![r].young = asking[r].sid \notin idle]
    /\ MoveTo(r, IF Refused(r) THEN "drop" ELSE "touch")
    /\ UNCHANGED <<sessionVars, gauge, unstarted>>

\* sessions.remove; its result is not looked at
Drop(r) ==
    /\ Turn(r) /\ point[r] = "drop"
    /\ \/ stored' = stored \ {asking[r].sid} /\ idle' = idle \ {asking[r].sid}
       \/ backend = "redis" /\ UNCHANGED <<stored, idle>>
    /\ closed' = IF asking[r].path = "close" THEN closed \cup {asking[r].sid} ELSE closed
    /\ Leave(r)
    /\ UNCHANGED <<backend, sessionsMade>>

\* sessions.set of the session as it was read, active now
Touch(r) ==
    /\ Turn(r) /\ point[r] = "touch"
    /\ \/ stored' = stored \cup {asking[r].sid} /\ idle' = idle \ {asking[r].sid}
       \/ backend = "redis" /\ UNCHANGED <<stored, idle>>
    /\ MoveTo(r, "ready")
    /\ UNCHANGED <<backend, sessionsMade, closed, asking, gauge, unstarted>>

\* get_or_create_session without an id. The dict is swept too, at most every
\* 60 seconds; Redis has no sweep.
Create(r) ==
    /\ Turn(r) /\ point[r] = "create"
    /\ sessionsMade' = sessionsMade + 1
    /\ asking' = [asking EXCEPT ![r].sid = sessionsMade']
    /\ \/ stored' = stored \cup {sessionsMade'} /\ UNCHANGED idle
       \/ /\ backend = "memory"
          /\ stored' = (stored \ idle) \cup {sessionsMade'} /\ idle' = {}
       \/ backend = "redis" /\ UNCHANGED <<stored, idle>>
    /\ MoveTo(r, "ready")
    /\ UNCHANGED <<backend, closed, gauge, unstarted>>

\* The handler of the method answers, or fails and is answered for
AnswerRequest(r) ==
    /\ Turn(r) /\ point[r] = "ready" /\ asking[r].wants = "call"
    /\ Leave(r)
    /\ UNCHANGED sessionVars

\* A stream is counted down by its generator, once that runs
OpenStream(r) ==
    /\ Turn(r) /\ point[r] = "ready" /\ asking[r].wants = "stream"
    /\ MoveTo(r, "opened")
    /\ gauge' = IF asking[r].path = "sse" THEN gauge + 1 ELSE gauge
    /\ UNCHANGED <<sessionVars, asking, unstarted>>

StartStream(r) ==
    /\ Turn(r) /\ point[r] = "opened"
    /\ MoveTo(r, "stream")
    /\ UNCHANGED <<sessionVars, asking, gauge, unstarted>>

LoseStream(r) ==
    /\ Turn(r) /\ point[r] = "opened"
    /\ MoveTo(r, "done")
    /\ asking' = [asking EXCEPT ![r] = Over]
    /\ unstarted' = unstarted + 1
    /\ UNCHANGED <<sessionVars, gauge>>

CloseStream(r) ==
    /\ Turn(r) /\ point[r] = "stream"
    /\ MoveTo(r, "done")
    /\ asking' = [asking EXCEPT ![r] = Over]
    /\ gauge' = gauge - 1
    /\ UNCHANGED <<sessionVars, unstarted>>

\* Half an hour without a request
Age(s) ==
    /\ s \in stored \ idle
    /\ idle' = idle \cup {s}
    /\ UNCHANGED <<backend, sessionsMade, stored, closed, point, asking, gauge, unstarted>>

\* The background sweep of the dict every five minutes
Sweep ==
    /\ backend = "memory" /\ \A q \in Reqs : point[q] \notin Midway
    /\ stored' = stored \ idle /\ idle' = {}
    /\ UNCHANGED <<backend, sessionsMade, closed, point, asking, gauge, unstarted>>

\* Redis, when the time to live is over
Lapse(s) ==
    /\ backend = "redis"
    /\ stored' = stored \ {s} /\ idle' = idle \ {s}
    /\ UNCHANGED <<backend, sessionsMade, closed, point, asking, gauge, unstarted>>

\* The process ends, and another one starts. Shutting down clears the store
\* (sessions.clear); a crash leaves Redis as it is.
StartOver ==
    /\ point' = [r \in Reqs |-> IF point[r] = "new" THEN "new" ELSE "done"]
    /\ asking' = [r \in Reqs |-> Over]
    /\ gauge' = 0 /\ unstarted' = 0
    /\ UNCHANGED <<backend, sessionsMade, closed>>

Shutdown ==
    /\ \A r \in Reqs : point[r] \in {"new", "done"}
    /\ StartOver
    /\ stored' = {} /\ idle' = {}

Crash ==
    /\ StartOver
    /\ IF backend = "memory" THEN stored' = {} /\ idle' = {} ELSE UNCHANGED <<stored, idle>>

RequestStep(r) ==
    \/ NotFound(r) \/ FoundSession(r) \/ Drop(r) \/ Touch(r) \/ Create(r)
    \/ AnswerRequest(r) \/ OpenStream(r) \/ StartStream(r) \/ LoseStream(r)

Asked == {[path |-> "mcp", wants |-> w, sid |-> s, young |-> TRUE] :
              w \in {"call", "stream"}, s \in Sids}
         \cup {[path |-> "sse", wants |-> "stream", sid |-> s, young |-> TRUE] : s \in Sids}
         \cup {[path |-> "close", wants |-> "call", sid |-> s, young |-> TRUE] : s \in Sids \ {0}}

TransportNext ==
    \/ \E r \in Reqs, asked \in Asked : Arrive(r, asked)
    \/ \E r \in Reqs : RequestStep(r) \/ CloseStream(r)
    \/ \E s \in stored : Age(s) \/ Lapse(s)
    \/ Sweep
    \/ Shutdown
    \/ Crash

\* The event loop goes on with some request that can
TransportFairness == WF_transportVars(\E r \in Reqs : RequestStep(r))
TransportSpec == TransportInit /\ [][TransportNext]_transportVars /\ TransportFairness

----------------------------------------------------------------------------
TransportTypeOK ==
    /\ backend \in Backends
    /\ sessionsMade \in Sids
    /\ idle \subseteq stored /\ stored \cup closed \subseteq 1 .. sessionsMade
    /\ asking \in [Reqs -> Request]
    /\ point \in [Reqs -> Midway \cup {"new", "ready", "opened", "stream", "done"}]
    /\ gauge \in Nat /\ unstarted \in Nat

(* active_connections is the connections there are: a request counts until   *)
(* its answer, a stream until it closes, whichever check refuses them; only  *)
(* a stream that ends before it starts is never taken off (server.py:668,    *)
(* 845-847, 914, 1172-1174, 624-626).                                        *)
GaugeIsExact ==
    gauge = unstarted + Cardinality(
        {r \in Reqs : \/ asking[r].path = "mcp" /\ point[r] \notin {"new", "done"}
                      \/ asking[r].path = "sse" /\ point[r] \in {"opened", "stream"}})

(* A session that was closed stays closed: no request that was under way     *)
(* stores it again. Of the in-memory store only (server.py:681-696,          *)
(* 1190-1195); in Redis a request that read it before the DELETE does.       *)
ClosedStaysClosed == backend = "memory" => closed \cap stored = {}

(* A session that has aged is revived by /sse alone, which does not look at  *)
(* its age: any other request that stores it as active had found it young    *)
(* (server.py:687-696, 899-906).                                             *)
AgedIsRevivedBySseOnly ==
    [][\A s \in idle : s \notin idle' /\ s \in stored' =>
           \E r \in Reqs : /\ point[r] = "touch" /\ asking[r].sid = s
                           /\ asking[r].young \/ asking[r].path = "sse"]_transportVars

(* Every request is answered or has its stream, whatever Redis does and even *)
(* if the process ends (server.py:671-847, 893-935).                         *)
EveryHttpRequestEnds == <>[](\A r \in Reqs : point[r] \in {"new", "stream", "done"})

(* Sessions and streams: the gauge counts the connections there are, what    *)
(* was closed is not brought back, and of the sessions grown old only an     *)
(* event stream revives one.                                                 *)
SessionsHold == [](TransportTypeOK /\ GaugeIsExact /\ ClosedStaysClosed) /\ AgedIsRevivedBySseOnly
=============================================================================
