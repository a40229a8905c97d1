--------------------------- MODULE MCOAuthTokens ----------------------------
(* OAuthTokens for TLC. *)
EXTENDS OAuthTokens, TLC

CONSTANTS r1, r2, c1, c2, read, write

Symmetry == Permutations(Requests) \cup Permutations(Scopes) \cup Permutations(Clients)

=============================================================================
