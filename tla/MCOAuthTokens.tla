--------------------------- MODULE MCOAuthTokens ---------------------------
(***************************************************************************)
(* A small instance of OAuthTokens for TLC.                                 *)
(***************************************************************************)
EXTENDS OAuthTokens, TLC

CONSTANTS u1, u2, x1, a1, a2, a3, a4, t1, t2, t3

\* Three assertions of the first user (one binds, two complete), one of the second, all for one request.
UserOfFour == a1 :> u1 @@ a2 :> u1 @@ a3 :> u1 @@ a4 :> u2
OneRequest == [a \in Assertions |-> x1]

Symmetry == Permutations(Tokens) \cup Permutations(Calls) \cup Permutations(Scopes)
              \cup Permutations({a1, a2, a3})
=============================================================================
