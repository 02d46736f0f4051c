----------------------------- MODULE SeatClaims -----------------------------
(***************************************************************************)
(* What comments of the seats' connections say, where the code does        *)
(* otherwise.                                                              *)
(***************************************************************************)
EXTENDS SeatGrants

\* "so a renewing client never dies at the first token's 30-day mark"
\* (mcp-server/server-http.ts:1411): no refresh of a live token is refused for
\* want of an organisation.  The tokens provisionOrganization and the retrofit
\* write have no access token in their family to read one from.
RenewingSeatLives == \A q \in Request : requests[q].reason # "organisation-id-missing"
=============================================================================
