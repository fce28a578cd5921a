---------------------------- MODULE OAuthTokens ----------------------------
(***************************************************************************)
(* The OAuth authorization server: app/storage/oauth.py and the routes and *)
(* the middleware that use it (api/routes/oauth.py, auth/onboarding.py,    *)
(* mcp/auth.py).                                                           *)
(*                                                                         *)
(* One API process serves the routes, so what a handler does between two   *)
(* awaits is one action; complete_authorization awaits the broker between  *)
(* its checks and issue_code.  Tokens are presented in any order, so a     *)
(* client whose answer was lost, or two that share a token, are included.  *)
(* A client stands for all that must match: client_id, redirect URI,       *)
(* resource and PKCE verifier.  A refresh token names the access token     *)
(* that was issued with it.                                                *)
(***************************************************************************)
EXTENDS FiniteSets

CONSTANTS
  Users, Clients, Scopes,
  Transactions,   \* authorization requests
  Assertions,     \* signed onboarding assertions of the frontend
  UserOf, TxOf,   \* the user and the transaction an assertion names
  Calls,          \* calls of complete_authorization
  Codes, Tokens,  \* authorization codes and refresh tokens, by hash
  None

ASSUME AssertionsNameThem ==
  /\ UserOf \in [Assertions -> Users]
  /\ TxOf \in [Assertions -> Transactions]
ASSUME NoneIsNone ==
  None \notin Users \cup Clients \cup Transactions \cup Assertions \cup Codes \cup Tokens

VARIABLES
  txState, txUser, txClient, txScope, txLive,   \* oauth_transactions
  nonces,                                       \* oauth_onboarding_assertion_nonces
  expired,                                      \* assertions past their exp
  accepted,                                     \* history: assertions ever accepted
  checking,                                     \* calls that await the onboarding status
  codeTx, codeUsed, codeLive,                   \* oauth_authorization_codes
  family, rotated, revoked, reused, live,       \* oauth_refresh_tokens
  owner, client, scope,
  codeOf                                        \* history: the code a family began with

tx     == <<txState, txUser, txClient, txScope, txLive>>
proofs == <<nonces, expired, accepted>>
codes  == <<codeTx, codeUsed, codeLive>>
marks  == <<rotated, revoked, reused>>
claims == <<family, owner, client, scope, codeOf>>
tokens == <<claims, marks, live>>
vars   == <<tx, proofs, checking, codes, tokens>>

Issued(t) == family[t] # None
Kin(t)    == {s \in Tokens : family[s] = family[t]}

\* Everything exchange_refresh_token asks of a row before it rotates it.
Usable(t) == Issued(t) /\ ~rotated[t] /\ ~revoked[t] /\ live[t]

Init ==
  /\ txState = [x \in Transactions |-> "none"]
  /\ txUser = [x \in Transactions |-> None]
  /\ txClient = [x \in Transactions |-> None]
  /\ txScope = [x \in Transactions |-> {}]
  /\ txLive = [x \in Transactions |-> FALSE]
  /\ nonces = {} /\ expired = {} /\ accepted = {}
  /\ checking = [c \in Calls |-> None]
  /\ codeTx = [k \in Codes |-> None]
  /\ codeUsed = [k \in Codes |-> FALSE]
  /\ codeLive = [k \in Codes |-> FALSE]
  /\ family = [t \in Tokens |-> None]
  /\ rotated = [t \in Tokens |-> FALSE]
  /\ revoked = [t \in Tokens |-> FALSE]
  /\ reused = [t \in Tokens |-> FALSE]
  /\ live = [t \in Tokens |-> FALSE]
  /\ owner = [t \in Tokens |-> None]
  /\ client = [t \in Tokens |-> None]
  /\ scope = [t \in Tokens |-> {}]
  /\ codeOf = [t \in Tokens |-> None]

-----------------------------------------------------------------------------
\* The authorization request, good for ten minutes.

Authorize(x, c, S) ==
  /\ txState[x] = "none" /\ S # {}
  /\ txState' = [txState EXCEPT ![x] = "auth0_required"]
  /\ txClient' = [txClient EXCEPT ![x] = c]
  /\ txScope' = [txScope EXCEPT ![x] = S]
  /\ txLive' = [txLive EXCEPT ![x] = TRUE]
  /\ UNCHANGED <<txUser, proofs, checking, codes, tokens>>

\* current_onboarding_claims: an unexpired assertion whose nonce can be
\* inserted after the expired nonces were deleted.
SlipCleansAll(a) ==   \* a slip: the clean-up deletes the nonces that still count
  /\ a \notin expired /\ a \notin nonces
  /\ nonces' = (nonces \cap expired) \cup {a}
  /\ accepted' = accepted \cup {a}
  /\ UNCHANGED expired

Accept(a) ==
  /\ a \notin expired /\ a \notin nonces
  /\ nonces' = (nonces \ expired) \cup {a}
  /\ accepted' = accepted \cup {a}
  /\ UNCHANGED expired

\* A route that stops at a check, only reads (onboarding/status) or repeats a
\* bind has used up the assertion and changes nothing else.
Refused(a) ==
  /\ Accept(a)
  /\ UNCHANGED <<tx, checking, codes, tokens>>

Bind(a) ==
  /\ Accept(a)
  /\ txLive[TxOf[a]] /\ txUser[TxOf[a]] = None
  /\ txUser' = [txUser EXCEPT ![TxOf[a]] = UserOf[a]]
  /\ txState' = [txState EXCEPT ![TxOf[a]] = "auth0_complete"]
  /\ UNCHANGED <<txClient, txScope, txLive, checking, codes, tokens>>

\* complete_authorization up to its await: the transaction is read, its owner
\* and the CSRF token are right.
BeginComplete(c, a) ==
  /\ checking[c] = None
  /\ Accept(a)
  /\ txLive[TxOf[a]] /\ txUser[TxOf[a]] = UserOf[a]
  /\ checking' = [checking EXCEPT ![c] = a]
  /\ UNCHANGED <<tx, codes, tokens>>

\* The account is not ready, or issue_code finds the transaction expired or
\* already complete.
GiveUp(c) ==
  /\ checking[c] # None
  /\ checking' = [checking EXCEPT ![c] = None]
  /\ UNCHANGED <<tx, proofs, codes, tokens>>

\* issue_code reads the transaction again; the code is good for five minutes.
SlipTrustsFirstRead(c, k) ==   \* a slip: issue_code relies on the read before the await
  LET a == checking[c] IN
  /\ a # None /\ codeTx[k] = None
  /\ txLive[TxOf[a]]
  /\ txState' = [txState EXCEPT ![TxOf[a]] = "complete"]
  /\ codeTx' = [codeTx EXCEPT ![k] = TxOf[a]]
  /\ codeLive' = [codeLive EXCEPT ![k] = TRUE]
  /\ checking' = [checking EXCEPT ![c] = None]
  /\ UNCHANGED <<txUser, txClient, txScope, txLive, proofs, codeUsed, tokens>>

IssueCode(c, k) ==
  LET a == checking[c] IN
  /\ a # None /\ codeTx[k] = None
  /\ txLive[TxOf[a]] /\ txUser[TxOf[a]] = UserOf[a] /\ txState[TxOf[a]] # "complete"
  /\ txState' = [txState EXCEPT ![TxOf[a]] = "complete"]
  /\ codeTx' = [codeTx EXCEPT ![k] = TxOf[a]]
  /\ codeLive' = [codeLive EXCEPT ![k] = TRUE]
  /\ checking' = [checking EXCEPT ![c] = None]
  /\ UNCHANGED <<txUser, txClient, txScope, txLive, proofs, codeUsed, tokens>>

-----------------------------------------------------------------------------
\* The token endpoint.  Each exchange is one BEGIN IMMEDIATE transaction.

\* _issue_token_pair: the row of a new refresh token t.
IssuePair(t, f, u, c, S) ==
  /\ ~Issued(t)
  /\ family' = [family EXCEPT ![t] = f]
  /\ owner' = [owner EXCEPT ![t] = u]
  /\ client' = [client EXCEPT ![t] = c]
  /\ scope' = [scope EXCEPT ![t] = S]
  /\ live' = [live EXCEPT ![t] = TRUE]

ExchangeCode(k, c, t) ==
  LET x == codeTx[k] IN
  /\ x # None /\ ~codeUsed[k] /\ codeLive[k] /\ c = txClient[x]
  /\ codeUsed' = [codeUsed EXCEPT ![k] = TRUE]
  /\ IssuePair(t, t, txUser[x], c, txScope[x])
  /\ codeOf' = [codeOf EXCEPT ![t] = k]
  /\ UNCHANGED <<tx, proofs, checking, codeTx, codeLive, marks>>

\* A rotated token is presented again: every row of its family is revoked.
SlipRevokesOne(t, c) ==   \* a slip: WHERE token_hash instead of WHERE family_id
  /\ Issued(t) /\ client[t] = c /\ rotated[t]
  /\ revoked' = [revoked EXCEPT ![t] = TRUE]
  /\ reused' = [reused EXCEPT ![t] = TRUE]
  /\ UNCHANGED <<tx, proofs, checking, codes, claims, rotated, live>>

DetectReuse(t, c) ==
  /\ Issued(t) /\ client[t] = c /\ rotated[t]
  /\ revoked' = [s \in Tokens |-> revoked[s] \/ s \in Kin(t)]
  /\ reused' = [reused EXCEPT ![t] = TRUE]
  /\ UNCHANGED <<tx, proofs, checking, codes, claims, rotated, live>>

SlipRefreshTwice(t, c, n, S) ==   \* a slip: rotated_at is written by a later statement
  /\ Usable(t) /\ client[t] = c
  /\ S # {} /\ S \subseteq scope[t]
  /\ IssuePair(n, family[t], owner[t], c, S)
  /\ UNCHANGED <<tx, proofs, checking, codes, marks, codeOf>>

SlipAnyScope(t, c, n, S) ==   \* a slip: the requested scopes are granted as they come
  /\ Usable(t) /\ client[t] = c
  /\ S # {}
  /\ IssuePair(n, family[t], owner[t], c, S)
  /\ rotated' = [rotated EXCEPT ![t] = TRUE]
  /\ UNCHANGED <<tx, proofs, checking, codes, revoked, reused, codeOf>>

SlipRevokedRefreshes(t, c, n, S) ==   \* a slip: revoked_at is not read
  /\ Issued(t) /\ ~rotated[t] /\ live[t] /\ client[t] = c
  /\ S # {} /\ S \subseteq scope[t]
  /\ IssuePair(n, family[t], owner[t], c, S)
  /\ rotated' = [rotated EXCEPT ![t] = TRUE]
  /\ UNCHANGED <<tx, proofs, checking, codes, revoked, reused, codeOf>>

\* The scope is the requested subset of the row's, all of it if none is asked.
Refresh(t, c, n, S) ==
  /\ Usable(t) /\ client[t] = c
  /\ S # {} /\ S \subseteq scope[t]
  /\ IssuePair(n, family[t], owner[t], c, S)
  /\ rotated' = [rotated EXCEPT ![t] = TRUE]
  /\ UNCHANGED <<tx, proofs, checking, codes, revoked, reused, codeOf>>

Revoke(t) ==
  /\ Issued(t)
  /\ revoked' = [revoked EXCEPT ![t] = TRUE]
  /\ UNCHANGED <<tx, proofs, checking, codes, claims, rotated, reused, live>>

-----------------------------------------------------------------------------
\* Time: a document of each kind reaches its expires_at.  A used code and a
\* rotated token are refused before their expiry is read, so theirs is left out.

ExpireTransaction(x) ==
  /\ txLive[x] /\ txLive' = [txLive EXCEPT ![x] = FALSE]
  /\ UNCHANGED <<txState, txUser, txClient, txScope, proofs, checking, codes, tokens>>
ExpireAssertion(a) ==
  /\ a \notin expired /\ expired' = expired \cup {a}
  /\ UNCHANGED <<tx, nonces, accepted, checking, codes, tokens>>
ExpireCode(k) ==
  /\ codeLive[k] /\ ~codeUsed[k] /\ codeLive' = [codeLive EXCEPT ![k] = FALSE]
  /\ UNCHANGED <<tx, proofs, checking, codeTx, codeUsed, tokens>>
ExpireToken(t) ==
  /\ live[t] /\ ~rotated[t] /\ live' = [live EXCEPT ![t] = FALSE]
  /\ UNCHANGED <<tx, proofs, checking, codes, claims, marks>>

Expire ==
  \/ \E x \in Transactions : ExpireTransaction(x)
  \/ \E a \in Assertions : ExpireAssertion(a)
  \/ \E k \in Codes : ExpireCode(k)
  \/ \E t \in Tokens : ExpireToken(t)

Onboard ==
  \/ \E x \in Transactions, c \in Clients, S \in SUBSET Scopes : Authorize(x, c, S)
  \/ \E a \in Assertions : Refused(a) \/ Bind(a)
  \/ \E c \in Calls, a \in Assertions : BeginComplete(c, a)
  \/ \E c \in Calls : GiveUp(c)
  \/ \E c \in Calls, k \in Codes : IssueCode(c, k)

Exchange ==
  \/ \E k \in Codes, c \in Clients, t \in Tokens : ExchangeCode(k, c, t)
  \/ \E t \in Tokens, c \in Clients : DetectReuse(t, c)
  \/ \E t, n \in Tokens, c \in Clients, S \in SUBSET Scopes : Refresh(t, c, n, S)
  \/ \E t \in Tokens : Revoke(t)

Next == Onboard \/ Exchange \/ Expire

Spec == Init /\ [][Next]_vars
-----------------------------------------------------------------------------
\* Properties.

TypeOK ==
  /\ txState \in [Transactions -> {"none", "auth0_required", "auth0_complete", "complete"}]
  /\ txUser \in [Transactions -> Users \cup {None}]
  /\ txClient \in [Transactions -> Clients \cup {None}]
  /\ txScope \in [Transactions -> SUBSET Scopes]
  /\ txLive \in [Transactions -> BOOLEAN]
  /\ nonces \subseteq Assertions /\ expired \subseteq Assertions /\ accepted \subseteq Assertions
  /\ checking \in [Calls -> Assertions \cup {None}]
  /\ codeTx \in [Codes -> Transactions \cup {None}]
  /\ codeUsed \in [Codes -> BOOLEAN] /\ codeLive \in [Codes -> BOOLEAN]
  /\ family \in [Tokens -> Tokens \cup {None}]
  /\ rotated \in [Tokens -> BOOLEAN] /\ revoked \in [Tokens -> BOOLEAN]
  /\ reused \in [Tokens -> BOOLEAN] /\ live \in [Tokens -> BOOLEAN]
  /\ owner \in [Tokens -> Users \cup {None}]
  /\ client \in [Tokens -> Clients \cup {None}]
  /\ scope \in [Tokens -> SUBSET Scopes]
  /\ codeOf \in [Tokens -> Codes \cup {None}]

\* A transaction yields one code and one family, though two calls may pass the
\* checks of complete_authorization and await the broker together.
OneGrantPerRequest ==
  /\ \A j, k \in Codes : codeTx[j] = codeTx[k] /\ codeTx[j] # None => j = k
  /\ \A s, t \in Tokens : codeOf[s] = codeOf[t] /\ codeOf[s] # None => s = t

\* docs/chatgpt-mcp-setup.md:61, "preventing concurrent replay from creating
\* multiple usable refresh credentials": every family has exactly one token
\* that was not rotated, so a refresh neither forks a family nor leaves the
\* client without a token; and once reuse was detected none is usable again.
OneHead ==
  /\ \A s, t \in Tokens :
       Issued(s) /\ family[s] = family[t] /\ ~rotated[s] /\ ~rotated[t] => s = t
  /\ \A f \in Tokens : family[f] = f => \E t \in Tokens : family[t] = f /\ ~rotated[t]
ReuseEndsFamily ==
  \A s, t \in Tokens : Issued(s) /\ family[s] = family[t] /\ reused[t] => ~Usable(s)

\* The middleware lets a tool through only for a scope the user's request asked
\* for, however often the token was refreshed; the user is the one who bound the
\* request.  (Access tokens are never revoked; their expiry is left out.)
Serves(t, need) == Issued(t) /\ owner[t] # None /\ need \subseteq scope[t]
ToolsWithinGrant ==
  \A t \in Tokens, s \in Scopes : Serves(t, {s}) =>
    LET x == codeTx[codeOf[family[t]]]
    IN  s \in txScope[x] /\ owner[t] = txUser[x] /\ client[t] = txClient[x]

\* docs/tradelocker-onboarding-status.md:44, "a single-use, 60-second
\* `Onboarding` assertion": deleting expired nonces never forgets one that
\* could still be accepted.
AssertionOnce == [][\A a \in Assertions : a \in nonces' \ nonces => a \notin accepted]_vars

\* The families of refresh tokens implement the grants of TokenGrants.
FamilyOpen(f) == \E t \in Tokens : family[t] = f /\ Usable(t)
phase == [f \in Tokens |-> IF family[f] # f THEN "unopened"
                           ELSE IF FamilyOpen(f) THEN "open" ELSE "ended"]
agreed == [f \in Tokens |-> UNION {scope[t] : t \in {s \in Tokens : family[s] = f /\ Usable(s)}}]
Grant == INSTANCE TokenGrants WITH Grants <- Tokens
ImplementsGrants == Grant!Spec
=============================================================================
