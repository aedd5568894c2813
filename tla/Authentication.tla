--------------------------- MODULE Authentication ---------------------------
(*****************************************************************************)
(* Both ways into the MCP server side by side (src/wazuh_mcp_server/mcp/     *)
(* auth.py): OAuth tokens, and API keys with their session tokens.  They     *)
(* share no state.                                                           *)
(*****************************************************************************)
EXTENDS OAuthServer, ApiKeys

\* What OAuth grants and what the keys of ApiKeys open ends as it should: codes
\* and tokens buy once and keep to their grant, a revoked key is out at once.
AccessHolds == GrantsHold /\ KeysHold
=============================================================================
