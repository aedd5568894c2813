------------------------------ MODULE ApiKeys -------------------------------
(*****************************************************************************)
(* API keys and session tokens of the MCP server (src/wazuh_mcp_server/      *)
(* auth.py, AuthManager) and the JWTs server.py issues for a key.            *)
(*                                                                           *)
(* No method awaits, so each is one step.  Session tokens are known by the   *)
(* order they were made in.  Keys and tokens expire when they like.          *)
(*****************************************************************************)
EXTENDS Naturals, FiniteSets, Sequences

CONSTANTS
    Keys,         \* API keys
    Configured,   \* those of MCP_API_KEY or API_KEYS
    SessionCap,   \* 10000 session tokens
    SessionsKept, \* 5000: what an eviction leaves
    MaxSessions,  \* bound: session tokens made
    MaxStarts     \* bound: restarts

ASSUME KeysAssumption ==
    /\ Configured \subseteq Keys
    /\ SessionCap \in Nat /\ SessionsKept \in 1 .. SessionCap
    /\ MaxSessions \in Nat /\ MaxStarts \in Nat

VARIABLES
    known,        \* api_keys
    active,       \* the keys among them that were not revoked
    oldKeys,      \* past expires_at
    made,         \* made[t] is the key session token t was made from
    tokens,       \* session tokens in memory
    oldSessions,  \* past expires_at
    withdrawn,    \* keys revoke_api_key was called for since the last start
    starts

keysVars == <<known, active, oldKeys, made, tokens, oldSessions, withdrawn, starts>>

KeysInit ==
    /\ known = Configured /\ active = Configured
    /\ oldKeys = {} /\ withdrawn = {}
    /\ made = << >> /\ tokens = {} /\ oldSessions = {}
    /\ starts = 0

\* validate_api_key
ValidKey(k) == k \in active \ oldKeys

CreateKey(k) ==
    /\ k \notin known \cup oldKeys
    /\ known' = known \cup {k}
    /\ active' = active \cup {k}
    /\ UNCHANGED <<oldKeys, made, tokens, oldSessions, withdrawn, starts>>

NewestSessions(S) == {t \in S : Cardinality({u \in S : u > t}) < SessionsKept}
OldestSessions(S) == {t \in S : Cardinality({u \in S : u < t}) < SessionsKept}

\* Mutants of Kept: nothing but expired tokens is dropped, or the newest are
KeptUnexpired(S) == IF Cardinality(S) <= SessionCap THEN S ELSE S \ oldSessions
KeptOldest(S) ==
    IF Cardinality(S) <= SessionCap THEN S
    ELSE IF Cardinality(S \ oldSessions) <= SessionCap THEN S \ oldSessions
    ELSE OldestSessions(S \ oldSessions)

\* What create_token keeps of the tokens there are: all below the cap, else
\* those that have not expired, else the newest of them
Kept(S) ==
    IF Cardinality(S) <= SessionCap THEN S
    ELSE IF Cardinality(S \ oldSessions) <= SessionCap THEN S \ oldSessions
    ELSE NewestSessions(S \ oldSessions)

CreateToken(k) ==
    /\ ValidKey(k)
    /\ Len(made) < MaxSessions
    /\ made' = Append(made, k)
    /\ tokens' = Kept(tokens) \cup {Len(made) + 1}
    /\ UNCHANGED <<known, active, oldKeys, oldSessions, withdrawn, starts>>

\* validate_token, for a request that carries it
PresentExpired(t) ==
    /\ t \in tokens \cap oldSessions
    /\ tokens' = tokens \ {t}
    /\ UNCHANGED <<known, active, oldKeys, made, oldSessions, withdrawn, starts>>

RevokeSession(t) ==
    /\ t \in tokens
    /\ tokens' = tokens \ {t}
    /\ UNCHANGED <<known, active, oldKeys, made, oldSessions, withdrawn, starts>>

\* Mutant of SessionsOf: one per key
LatestSessionOf(k) == {t \in tokens : made[t] = k /\ \A u \in tokens : made[u] = k => u <= t}
SessionsOf(k) == {t \in tokens : made[t] = k}

RevokeKey(k) ==
    /\ k \in known
    /\ active' = active \ {k}
    /\ tokens' = tokens \ SessionsOf(k)
    /\ withdrawn' = withdrawn \cup {k}
    /\ UNCHANGED <<known, oldKeys, made, oldSessions, starts>>

\* get_stats: cleanup_expired
Stats ==
    /\ tokens' = tokens \ oldSessions
    /\ UNCHANGED <<known, active, oldKeys, made, oldSessions, withdrawn, starts>>

ExpireKey(k) ==
    /\ oldKeys' = oldKeys \cup {k}
    /\ UNCHANGED <<known, active, made, tokens, oldSessions, withdrawn, starts>>

ExpireSession(t) ==
    /\ oldSessions' = oldSessions \cup {t}
    /\ UNCHANGED <<known, active, oldKeys, made, tokens, withdrawn, starts>>

\* Mutant of ActiveAtStart: keys stay active
ActiveAsBefore == active
ActiveAtStart == Configured

\* Keys that were created are gone, those that were configured are active
RestartServer ==
    /\ starts < MaxStarts
    /\ starts' = starts + 1
    /\ known' = Configured /\ active' = ActiveAtStart /\ tokens' = {} /\ withdrawn' = {}
    /\ UNCHANGED <<oldKeys, made, oldSessions>>

KeysNext ==
    \/ \E k \in Keys : CreateKey(k) \/ CreateToken(k) \/ RevokeKey(k)
    \/ \E k \in known : ExpireKey(k)
    \/ \E t \in DOMAIN made : PresentExpired(t) \/ RevokeSession(t) \/ ExpireSession(t)
    \/ Stats
    \/ RestartServer

KeysSpec == KeysInit /\ [][KeysNext]_keysVars

----------------------------------------------------------------------------
KeysTypeOK ==
    /\ active \subseteq known /\ known \subseteq Keys /\ oldKeys \subseteq Keys
    /\ made \in Seq(Keys)
    /\ tokens \cup oldSessions \subseteq DOMAIN made
    /\ withdrawn \subseteq Keys
    /\ starts \in 0 .. MaxStarts

(* A key that was revoked opens nothing until a restart: neither it nor any  *)
(* session token ever made from it is accepted, and none is kept             *)
(* (auth.py:241-254). The session tokens of the other keys are not touched.  *)
RevokedKeyIsOut ==
    \A k \in withdrawn : ~ValidKey(k) /\ \A t \in tokens : made[t] # k

(* Session tokens are bounded whatever their lifetime (auth.py:207-215). *)
SessionsWithinCap == Cardinality(tokens) <= SessionCap + 1

(* Making a session token ends no live one, unless eviction took it for its  *)
(* age: then every older one is gone too (auth.py:207-215).                  *)
SessionsLeaveByAge ==
    [][made' # made =>
           \A t \in tokens \ (tokens' \cup oldSessions), u \in tokens' : t < u]_keysVars

(* A revoked key is out with all its sessions, the sessions keep to their    *)
(* cap, and one leaves for its age only.                                     *)
KeysHold == [](KeysTypeOK /\ RevokedKeyIsOut /\ SessionsWithinCap) /\ SessionsLeaveByAge
=============================================================================
