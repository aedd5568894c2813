------------------------------ MODULE JsonRpc -------------------------------
(*****************************************************************************)
(* What the MCP endpoints answer to the body of a POST                       *)
(* (src/wazuh_mcp_server/server.py: /, /mcp and process_mcp_request): the    *)
(* status, and for each JSON-RPC request in it a response.  A message is     *)
(* known by its kind and by what becomes of it.                              *)
(*****************************************************************************)
EXTENDS Naturals, FiniteSets, Sequences, Selection

CONSTANTS
    MaxBatch,    \* MAX_BATCH_SIZE (100)
    MaxItems     \* bound: messages in a body

ASSUME JsonRpcAssumption == MaxBatch \in Nat \ {0} /\ MaxItems \in Nat

\* call: a method the server has, answered or failing as it says; notice: a
\* message with a method and no id; reply: a response of the client; bare: an
\* object with neither method, result nor error; junk: no object at all
Messages ==
    {"ok", "value_error", "exception", "unknown_method", "notification_with_id"}
    \cup {"bad_request", "notice", "reply", "bare", "junk"}

\* is_json_rpc_request: it has a method and an id, the right or the wrong kind
IsRequest(m) ==
    m \in {"ok", "value_error", "exception", "unknown_method",
           "notification_with_id", "bad_request"}

\* process_mcp_request
Processed(m) ==
    CASE m = "ok" -> "result"
      [] m = "value_error" -> "invalid_params"
      [] m = "exception" -> "internal_error"
      [] m = "unknown_method" -> "method_not_found"
      [] m = "notification_with_id" -> "invalid_request"

\* Mutant of Answered: what cannot be understood is left out
AnsweredIfUnderstood(m) == IsRequest(m)
\* Messages of a batch that are neither processed silently nor skipped
Answered(m) == m \notin {"notice", "reply"}

ResponseTo(m) ==
    IF m \in {"bad_request", "bare", "junk"} THEN "invalid_request" ELSE Processed(m)

NoBody(status) == [status |-> status, responses |-> << >>]
Single(status, response) == [status |-> status, responses |-> <<response>>]

\* Mutant of HasRequests: all of them
AllRequests(body) == \A i \in DOMAIN body : IsRequest(body[i])
HasRequests(body) == \E i \in DOMAIN body : IsRequest(body[i])

BatchAnswer(body) ==
    IF body = << >> \/ Len(body) > MaxBatch THEN Single(400, "invalid_request")
    ELSE IF ~HasRequests(body) THEN NoBody(202)
    ELSE LET asked == Picked(body, {i \in DOMAIN body : Answered(body[i])})
         IN [status |-> 200, responses |-> [i \in DOMAIN asked |-> ResponseTo(asked[i])]]

\* The two endpoints differ in what is no object: / fails in building the
\* request, and the middleware answers 500
SingleAnswer(path, m) ==
    CASE m \in {"notice", "reply"} -> NoBody(202)
      [] m = "junk" -> IF path = "/" THEN NoBody(500) ELSE Single(400, "invalid_request")
      [] m \in {"bad_request", "bare"} -> Single(400, "invalid_request")
      [] OTHER -> Single(200, Processed(m))

VARIABLES
    path,    \* "/" or "/mcp"
    isBatch,   \* is the body a list?
    body,    \* its messages
    reply    \* what is answered

rpcVars == <<path, isBatch, body, reply>>

RpcInit ==
    /\ path \in {"/", "/mcp"}
    /\ isBatch \in BOOLEAN
    /\ body = << >>
    /\ reply = NoBody(0)

AddMessage(m) ==
    /\ reply.status = 0
    /\ Len(body) < IF isBatch THEN MaxItems ELSE 1
    /\ body' = Append(body, m)
    /\ UNCHANGED <<path, isBatch, reply>>

AnswerBody ==
    /\ reply.status = 0 /\ (isBatch \/ body # << >>)
    /\ reply' = IF isBatch THEN BatchAnswer(body) ELSE SingleAnswer(path, body[1])
    /\ UNCHANGED <<path, isBatch, body>>

RpcNext == AnswerBody \/ \E m \in Messages : AddMessage(m)

RpcSpec == RpcInit /\ [][RpcNext]_rpcVars

----------------------------------------------------------------------------
Requested == {i \in DOMAIN body : IsRequest(body[i])}

(* Every request of a body that is taken is answered, in its place among the *)
(* answers: with its result if it has one, else with an error. Notifications *)
(* and responses of the client are not answered (server.py:728-843).         *)
EveryRequestIsAnswered ==
    reply.status = 200 =>
        /\ Len(reply.responses) >= Cardinality(Requested)
        /\ Len(reply.responses) =
             Cardinality({i \in DOMAIN body : body[i] \notin {"notice", "reply"}})
        /\ \A i \in DOMAIN body :
               body[i] = "ok" =>
                   reply.responses[Cardinality({j \in 1 .. i : body[j] \notin {"notice", "reply"}})]
                       = "result"

(* A body that is answered 202, with nothing else, holds no request          *)
(* (server.py:742-765, 796-812).                                             *)
AcceptedHoldsNoRequest == reply.status = 202 => Requested = {}

(* Every request of a body is answered in its place, and 202 is said only    *)
(* to a body without one.                                                    *)
BodiesAreAnswered == EveryRequestIsAnswered /\ AcceptedHoldsNoRequest
=============================================================================
