---------------------------- MODULE OAuthServer -----------------------------
(*****************************************************************************)
(* OAuth of the MCP server (src/wazuh_mcp_server/oauth.py): clients,         *)
(* authorization codes, access and refresh tokens, and what a request with   *)
(* a token is told (mcp/auth.py).                                            *)
(*                                                                           *)
(* No handler awaits between reading and writing its dicts, so each is one   *)
(* step.  A token is a signed JWT, known here by the order it was issued     *)
(* in: what it says survives a restart and the dicts do not.  Without        *)
(* AUTH_SECRET_KEY each start draws a signing key of its own (config.py).    *)
(* Codes and tokens expire when they like.                                   *)
(*****************************************************************************)
EXTENDS Naturals, FiniteSets, Sequences, Functions

CONSTANTS
    OClients,    \* client ids
    Claude,      \* the client registered at start
    Verifiers,   \* PKCE verifiers
    NoVerifier,  \* the absence of one
    Scopes,
    DCR,         \* OAUTH_ENABLE_DCR
    CodeCap,     \* 1000: above it, codes and tokens that expired are dropped
    TokenCap,    \* 5000: likewise for the tokens of one kind
    TokensKept,  \* 2500: what an eviction leaves
    ClientCap,   \* 1000
    MaxCodes,    \* bound: codes drawn
    MaxIssued,   \* bound: tokens issued
    MaxBoots     \* bound: restarts

ASSUME OAuthAssumption ==
    /\ Claude \in OClients /\ NoVerifier \notin Verifiers /\ DCR \in BOOLEAN
    /\ CodeCap \in Nat /\ TokenCap \in Nat
    /\ TokensKept \in 1 .. TokenCap /\ ClientCap \in Nat
    /\ MaxCodes \in Nat /\ MaxIssued \in Nat /\ MaxBoots \in Nat

VARIABLES
    registered, \* clients
    codes,      \* authorization_codes: code -> what it was made for
    drawn,      \* the same of every code ever made
    issued,     \* every token ever signed
    access,     \* access_tokens
    refresh,    \* refresh_tokens
    oldCodes, oldTokens, \* past their time
    revoked,    \* refresh tokens /revoke was called for
    keyIsSet,   \* whether AUTH_SECRET_KEY is set
    boots

oauthVars == <<registered, codes, drawn, issued, access, refresh,
               oldCodes, oldTokens, revoked, keyIsSet, boots>>

\* Codes are numbered as they are drawn
Codes == 1 .. MaxCodes
GrantOf == [client : OClients, scope : Scopes, challenge : Verifiers \cup {NoVerifier}]
\* code is what the token goes back to, parent the refresh token it came from,
\* boot the start of the server it was signed in
Token == [type : {"access", "refresh"}, client : OClients, scope : Scopes,
          code : Codes, parent : 0 .. MaxIssued, boot : 0 .. MaxBoots]

OAuthInit ==
    /\ registered = {Claude}
    /\ codes = << >> /\ drawn = << >>
    /\ issued = << >>
    /\ access = {} /\ refresh = {}
    /\ oldCodes = {} /\ oldTokens = {} /\ revoked = {}
    /\ keyIsSet \in BOOLEAN
    /\ boots = 0

Put(f, k, v) == [x \in DOMAIN f \cup {k} |-> IF x = k THEN v ELSE f[x]]

\* cleanup_expired() when the dict in question has outgrown its cap
LiveCodes(f, full) == IF full THEN Restrict(f, DOMAIN f \ oldCodes) ELSE f
LiveTokens(S, full) == IF full THEN S \ oldTokens ELSE S

Register(c) ==
    /\ DCR /\ c \notin registered
    /\ Cardinality(registered) <= ClientCap
    /\ registered' = registered \cup {c}
    /\ UNCHANGED <<codes, drawn, issued, access, refresh, oldCodes, oldTokens, revoked, keyIsSet, boots>>

\* GET /authorize of a known client with one of its redirect URIs
Authorize(c, k, s, v) ==
    /\ c \in registered /\ k = Len(drawn) + 1
    /\ LET full == Cardinality(DOMAIN codes) > CodeCap
           grant == [client |-> c, scope |-> s, challenge |-> v]
       IN /\ codes' = Put(LiveCodes(codes, full), k, grant)
          /\ drawn' = Append(drawn, grant)
          /\ access' = LiveTokens(access, full)
          /\ refresh' = LiveTokens(refresh, full)
    /\ UNCHANGED <<registered, issued, oldCodes, oldTokens, revoked, keyIsSet, boots>>

\* Mutant of Fits: whoever the code was drawn for
FitsAnyClient(k, c, v) == codes[k].challenge \in {NoVerifier, v}

\* exchange_code_for_tokens raises unless the code is this client's and the
\* verifier, when there is a challenge, answers it
Fits(k, c, v) == codes[k].client = c /\ codes[k].challenge \in {NoVerifier, v}

\* Mutant of Spent: the code stays
NotSpent(k) == codes
Spent(k) == Restrict(codes, DOMAIN codes \ {k})

\* POST /token with a code and the redirect URI it was made for
Exchange(k, c, v) ==
    /\ c \in registered /\ k \in DOMAIN codes \ oldCodes /\ Fits(k, c, v)
    /\ Len(issued) + 2 <= MaxIssued
    /\ LET n == Len(issued)
           full == Cardinality(access) > TokenCap \/ Cardinality(refresh) > TokenCap
           token(type) == [type |-> type, client |-> c, scope |-> codes[k].scope,
                           code |-> k, parent |-> 0, boot |-> boots]
       IN /\ issued' = issued \o <<token("access"), token("refresh")>>
          /\ access' = LiveTokens(access, full) \cup {n + 1}
          /\ refresh' = LiveTokens(refresh, full) \cup {n + 2}
          /\ codes' = LiveCodes(Spent(k), full)
    /\ UNCHANGED <<registered, drawn, oldCodes, oldTokens, revoked, keyIsSet, boots>>

ExchangeExpired(k) ==
    /\ k \in DOMAIN codes \cap oldCodes
    /\ codes' = Spent(k)
    /\ UNCHANGED <<registered, drawn, issued, access, refresh, oldCodes, oldTokens, revoked, keyIsSet, boots>>

Newest(S, n) == {t \in S : Cardinality({u \in S : u > t}) < n}
Oldest(S, n) == {t \in S : Cardinality({u \in S : u < t}) < n}

\* Mutant of Trimmed: from the other end
TrimmedOldest(S) ==
    LET alive == LiveTokens(S, Cardinality(S) > TokenCap)
    IN IF Cardinality(alive) > TokenCap THEN Oldest(alive, TokensKept) ELSE alive

\* What refresh_access_token keeps of access_tokens: the newest, when
\* dropping what expired was not enough
Trimmed(S) ==
    LET alive == LiveTokens(S, Cardinality(S) > TokenCap)
    IN IF Cardinality(alive) > TokenCap THEN Newest(alive, TokensKept) ELSE alive

\* Mutant of Known: any refresh token the server signed
Signed(t) == issued[t].type = "refresh"
\* The refresh token is one the server remembers
Known(t) == t \in refresh

\* Mutant of Renewed: the new token says it is a refresh token
RenewedAsIs(t) == [issued[t] EXCEPT !.parent = t, !.boot = boots]
Renewed(t) == [issued[t] EXCEPT !.type = "access", !.parent = t, !.boot = boots]

Refresh(t, c) ==
    /\ c \in registered
    /\ Known(t) /\ t \notin oldTokens /\ issued[t].client = c
    /\ Len(issued) < MaxIssued
    /\ issued' = Append(issued, Renewed(t))
    /\ access' = Trimmed(access) \cup {Len(issued) + 1}
    /\ UNCHANGED <<registered, codes, drawn, refresh, oldCodes, oldTokens, revoked, keyIsSet, boots>>

RefreshExpired(t) ==
    /\ t \in refresh \cap oldTokens
    /\ refresh' = refresh \ {t}
    /\ UNCHANGED <<registered, codes, drawn, issued, access, oldCodes, oldTokens, revoked, keyIsSet, boots>>

\* POST /revoke by anybody who holds the token, or by a client
Revoke(t) ==
    /\ access' = access \ {t} /\ refresh' = refresh \ {t}
    /\ revoked' = revoked \cup ({t} \cap refresh)
    /\ UNCHANGED <<registered, codes, drawn, issued, oldCodes, oldTokens, keyIsSet, boots>>

ExpireCode(k) ==
    /\ oldCodes' = oldCodes \cup {k}
    /\ UNCHANGED <<registered, codes, drawn, issued, access, refresh, oldTokens, revoked, keyIsSet, boots>>

ExpireToken(t) ==
    /\ oldTokens' = oldTokens \cup {t}
    /\ UNCHANGED <<registered, codes, drawn, issued, access, refresh, oldCodes, revoked, keyIsSet, boots>>

Reboot ==
    /\ boots < MaxBoots
    /\ boots' = boots + 1
    /\ registered' = {Claude}
    /\ codes' = << >> /\ access' = {} /\ refresh' = {}
    /\ UNCHANGED <<drawn, issued, oldCodes, oldTokens, revoked, keyIsSet>>

OAuthNext ==
    \/ \E c \in OClients : Register(c)
    \/ \E c \in OClients, k \in Codes, s \in Scopes, v \in Verifiers \cup {NoVerifier} :
           Authorize(c, k, s, v)
    \/ \E k \in Codes, c \in OClients, v \in Verifiers \cup {NoVerifier} : Exchange(k, c, v)
    \/ \E k \in Codes : ExchangeExpired(k)
    \/ \E t \in DOMAIN issued, c \in OClients : Refresh(t, c)
    \/ \E t \in DOMAIN issued : RefreshExpired(t) \/ Revoke(t) \/ ExpireToken(t)
    \/ \E k \in DOMAIN codes : ExpireCode(k)
    \/ Reboot

OAuthSpec == OAuthInit /\ [][OAuthNext]_oauthVars

\* The key of this start is the one the token was signed with
SignedWithKey(t) == keyIsSet \/ issued[t].boot = boots

\* AuthenticationService.verify in OAuth mode (validate_access_token): a token
\* found in memory, or one that decodes to an access token
AcceptedFromMemory(t) == t \in access \ oldTokens
\* Mutant of AcceptedAsJwt: of any type
AcceptedAsAnyJwt(t) == SignedWithKey(t) /\ t \notin oldTokens
AcceptedAsJwt(t) == SignedWithKey(t) /\ t \notin oldTokens /\ issued[t].type = "access"
Accepts(t) == AcceptedFromMemory(t) \/ AcceptedAsJwt(t)

----------------------------------------------------------------------------
OAuthTypeOK ==
    /\ registered \subseteq OClients
    /\ DOMAIN codes \subseteq DOMAIN drawn /\ DOMAIN drawn \subseteq Codes
    /\ \A k \in DOMAIN drawn : drawn[k] \in GrantOf
    /\ \A k \in DOMAIN codes : codes[k] = drawn[k]
    /\ issued \in Seq(Token)
    /\ access \subseteq {t \in DOMAIN issued : issued[t].type = "access"}
    /\ refresh \subseteq {t \in DOMAIN issued : issued[t].type = "refresh"}
    /\ oldCodes \subseteq DOMAIN drawn
    /\ oldTokens \cup revoked \subseteq DOMAIN issued
    /\ keyIsSet \in BOOLEAN /\ boots \in 0 .. MaxBoots

(* An authorization code buys one access and one refresh token, whatever is  *)
(* refused, expires, is cleaned up or restarted around the exchange          *)
(* (oauth.py:282 deletes the code last).                                     *)
CodeBuysOnce ==
    \A t, u \in DOMAIN issued :
        /\ issued[t].parent = 0 /\ issued[u].parent = 0
        /\ issued[t].code = issued[u].code /\ issued[t].type = issued[u].type
        => t = u

(* However many times it is refreshed, a token speaks for the client the     *)
(* code was drawn for, with the scope that client was granted                *)
(* (oauth.py:243-272, 314-331).                                              *)
TokensKeepToTheirGrant ==
    \A t \in DOMAIN issued :
        LET grant == drawn[issued[t].code] IN
        /\ issued[t].client = grant.client /\ issued[t].scope = grant.scope
        /\ issued[t].parent # 0 => issued[issued[t].parent].type = "refresh"

(* A refresh token that was revoked, that expired, or that a restart forgot  *)
(* buys nothing any more (oauth.py:303-313, 369-377).                        *)
DeadRefreshBuysNothing ==
    [][\A t \in DOMAIN issued' \ DOMAIN issued :
           issued'[t].parent \notin revoked \cup oldTokens
           /\ (issued'[t].parent # 0 => issued'[t].parent \in refresh)]_oauthVars

(* Eviction is by age: a live access token that leaves access_tokens when    *)
(* another is made is older than every one that stays (oauth.py:316-324).    *)
EvictionIsByAge ==
    [][issued' # issued =>
           \A t \in access \ (access' \cup oldTokens), u \in access' : t < u]_oauthVars

(* What is in memory never decides: an access token is accepted until it     *)
(* expires, after an eviction, and after /revoke answered 200 for it; a      *)
(* refresh token is never accepted as one (oauth.py:345-367).  It is still   *)
(* accepted after a restart if AUTH_SECRET_KEY is set, and never if not: the *)
(* key is drawn anew then (config.py:214-217).                               *)
OnlyTimeEndsAccess ==
    \A t \in DOMAIN issued :
        Accepts(t) <=> /\ issued[t].type = "access" /\ t \notin oldTokens
                       /\ keyIsSet \/ issued[t].boot = boots

(* A code buys tokens once and only for what was granted, a dead refresh     *)
(* token buys nothing, an access token lives as long as it says or its key   *)
(* does, and the tokens are trimmed by their age.                            *)
GrantsHold ==
    /\ [](OAuthTypeOK /\ CodeBuysOnce /\ TokensKeepToTheirGrant /\ OnlyTimeEndsAccess)
    /\ DeadRefreshBuysNothing /\ EvictionIsByAge
=============================================================================
