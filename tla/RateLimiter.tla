---------------------------- MODULE RateLimiter -----------------------------
(*****************************************************************************)
(* The sliding-window rate limiter every request of the MCP server passes    *)
(* (src/wazuh_mcp_server/security.py, RateLimiter; the middleware and the    *)
(* endpoints of server.py have one each).                                    *)
(*                                                                           *)
(* is_allowed does not await, so a call is one step.  "requests" is the      *)
(* defaultdict of deques: a client has an entry from its first unblocked     *)
(* call to the cleanup that drops it.                                        *)
(*****************************************************************************)
EXTENDS Naturals, FiniteSets, Sequences, SequencesExt, Functions

CONSTANTS
    Clients,
    Window,      \* window_seconds
    MaxRequests, \* max_requests
    MaxTracked,  \* MAX_TRACKED_CLIENTS
    BlockFactor, \* seconds of block per request in the window (10)
    BlockCap,    \* the longest block (300)
    MaxClock     \* bound: the time a behaviour lasts

ASSUME LimiterAssumption ==
    /\ Window \in Nat /\ MaxRequests \in Nat \ {0}
    /\ MaxTracked \in Nat /\ BlockFactor \in Nat /\ BlockCap \in Nat
    /\ MaxClock \in Nat

VARIABLES
    clock,
    requests,     \* client -> times of the requests let in that are remembered
    blockedUntil, \* client -> end of its block
    admitted      \* every time a client was let in

limiterVars == <<clock, requests, blockedUntil, admitted>>

LimiterInit ==
    /\ clock = 0
    /\ requests = << >>
    /\ blockedUntil = << >>
    /\ admitted = [c \in Clients |-> << >>]

\* Mutant of Within: the window is too short by one
WithinLess(t) == t + Window > clock + 1
\* Is t inside the window?
Within(t) == t + Window >= clock

\* A defaultdict: a client without an entry has an empty deque
Deque(c) == IF c \in DOMAIN requests THEN requests[c] ELSE << >>
\* How many the loop drops from the left: to the first inside the window
Dropped(q) ==
    CHOOSE n \in 0 .. Len(q) :
        /\ \A i \in 1 .. n : ~Within(q[i])
        /\ n < Len(q) => Within(q[n + 1])
\* What is left of a client's deque once the old requests are dropped
Recent(c) == SubSeq(Deque(c), Dropped(Deque(c)) + 1, Len(Deque(c)))

Blocked(c) == c \in DOMAIN blockedUntil /\ clock < blockedUntil[c]

\* The length of a block over n remembered requests
BlockDuration(n) ==
    IF n * BlockFactor < BlockCap THEN n * BlockFactor ELSE BlockCap

\* cleanup(), run on the dict r when it tracks too many clients
BusyClient(r) == {c \in DOMAIN r : r[c] # << >> /\ Within(Last(r[c]))}
Full(r) == Cardinality(DOMAIN r) > MaxTracked
CleanedRequests(r) == IF Full(r) THEN Restrict(r, BusyClient(r)) ELSE r
CleanedBlocks(r, b) ==
    IF Full(r) THEN Restrict(b, {c \in DOMAIN b : b[c] >= clock}) ELSE b

Without(f, c) == Restrict(f, DOMAIN f \ {c})
With(f, c, v) == [x \in DOMAIN f \cup {c} |-> IF x = c THEN v ELSE f[x]]

RefuseRequest(c) ==
    /\ Blocked(c)
    /\ UNCHANGED limiterVars

\* Mutant of Block: the refused call is remembered too
BlockCounting(c) ==
    /\ ~Blocked(c)
    /\ Len(Recent(c)) >= MaxRequests
    /\ requests' = With(requests, c, Append(Recent(c), clock))
    /\ blockedUntil' = With(blockedUntil, c, clock + BlockDuration(Len(Recent(c)) + 1))
    /\ UNCHANGED <<clock, admitted>>

Block(c) ==
    /\ ~Blocked(c)
    /\ Len(Recent(c)) >= MaxRequests
    /\ requests' = With(requests, c, Recent(c))
    /\ blockedUntil' = With(blockedUntil, c, clock + BlockDuration(Len(Recent(c))))
    /\ UNCHANGED <<clock, admitted>>

Admit(c) ==
    /\ ~Blocked(c)
    /\ Len(Recent(c)) < MaxRequests
    /\ LET r == With(requests, c, Append(Recent(c), clock)) IN
       /\ requests' = CleanedRequests(r)
       /\ blockedUntil' = CleanedBlocks(r, Without(blockedUntil, c))
    /\ admitted' = [admitted EXCEPT ![c] = Append(@, clock)]
    /\ UNCHANGED clock

Tick ==
    /\ clock < MaxClock
    /\ clock' = clock + 1
    /\ UNCHANGED <<requests, blockedUntil, admitted>>

LimiterNext == Tick \/ \E c \in Clients : RefuseRequest(c) \/ Block(c) \/ Admit(c)

LimiterSpec == LimiterInit /\ [][LimiterNext]_limiterVars

----------------------------------------------------------------------------
LimiterTypeOK ==
    /\ clock \in 0 .. MaxClock
    /\ \E D \in SUBSET Clients : requests \in [D -> Seq(0 .. clock)]
    /\ \A c \in DOMAIN requests : Len(requests[c]) <= MaxRequests
    /\ \E D \in SUBSET Clients : blockedUntil \in [D -> Nat]
    /\ admitted \in [Clients -> Seq(0 .. clock)]

\* The requests of a client let in during the window that ends at t
Admissions(c, t) ==
    {i \in DOMAIN admitted[c] : admitted[c][i] <= t /\ t <= admitted[c][i] + Window}

(* No window of window_seconds holds more than max_requests requests of one  *)
(* client, wherever it begins, although the limiter forgets: old times are   *)
(* dropped, and cleanup() drops whole clients (security.py:580-597).         *)
WindowHolds ==
    \A c \in Clients : \A t \in 0 .. clock : Cardinality(Admissions(c, t)) <= MaxRequests

(* A block is earned and ends: the client filled a window, and the block is  *)
(* counted from a moment inside it. Calls refused meanwhile neither prolong  *)
(* it nor count against the client (security.py:569-587).  Every block is as *)
(* long as the first, BlockDuration(MaxRequests), however often a client     *)
(* comes back: a deque never holds more than max_requests times.  The code's *)
(* comment, "Block for escalating time periods" (security.py:585), and       *)
(* docs/security/README.md:17 and 39, "escalating block duration",           *)
(* "escalating blocks", say otherwise; the property states what the code     *)
(* does.                                                                     *)
BlocksAreEarned ==
    \A c \in DOMAIN blockedUntil :
        \E t \in 0 .. clock :
            /\ Cardinality(Admissions(c, t)) = MaxRequests
            /\ blockedUntil[c] = t + BlockDuration(MaxRequests)

(* No window of a client holds more than its maximum, and a block is earned  *)
(* by what its client asked for, and does not escalate.                      *)
LimiterHolds == LimiterTypeOK /\ WindowHolds /\ BlocksAreEarned
=============================================================================
