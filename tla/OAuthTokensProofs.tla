------------------------- MODULE OAuthTokensProofs -------------------------
(***************************************************************************)
(* Theorems about OAuthTokens for every set of users, clients, requests,   *)
(* assertions, calls, codes and tokens.                                    *)
(***************************************************************************)
EXTENDS OAuthTokens, TLAPS

USE DEF tx, proofs, codes, marks, claims, tokens, vars

\* A request has scopes from its creation and an owner once a code was made.
Requests ==
  /\ \A x \in Transactions : txState[x] # "none" => txScope[x] # {}
  /\ \A x \in Transactions : txState[x] = "complete" => txUser[x] # None
  /\ \A x \in Transactions : txLive[x] => txState[x] # "none"
  /\ \A x \in Transactions : txUser[x] # None => txState[x] # "none"

CodesOfRequests ==
  /\ \A k \in Codes : codeTx[k] # None => txState[codeTx[k]] = "complete"
  /\ \A j, k \in Codes : codeTx[j] = codeTx[k] /\ codeTx[j] # None => j = k

\* Only the first token of a family knows the code, and the code is used up.
RootsOfCodes ==
  /\ \A t \in Tokens : codeOf[t] # None =>
       family[t] = t /\ codeUsed[codeOf[t]] /\ codeTx[codeOf[t]] # None
  /\ \A s, t \in Tokens : codeOf[s] = codeOf[t] /\ codeOf[s] # None => s = t

Families ==
  \A t \in Tokens : family[t] # None =>
    /\ family[t] \in Tokens /\ family[family[t]] = family[t]
    /\ codeOf[family[t]] # None
    /\ scope[t] # {} /\ scope[t] \subseteq scope[family[t]]
    /\ owner[t] = owner[family[t]] /\ client[t] = client[family[t]]

RootsAsGranted ==
  \A t \in Tokens : codeOf[t] # None =>
    /\ scope[t] = txScope[codeTx[codeOf[t]]]
    /\ owner[t] = txUser[codeTx[codeOf[t]]]
    /\ client[t] = txClient[codeTx[codeOf[t]]]

UnissuedAreClean ==
  \A t \in Tokens : family[t] = None =>
    ~rotated[t] /\ ~revoked[t] /\ ~reused[t] /\ ~live[t]

ReuseRevokes ==
  \A s, t \in Tokens : family[s] # None /\ family[s] = family[t] /\ reused[t] => revoked[s]

Remembered == accepted \subseteq nonces \cup expired

IInv ==
  /\ TypeOK /\ Requests /\ CodesOfRequests /\ RootsOfCodes /\ Families
  /\ RootsAsGranted /\ UnissuedAreClean /\ OneHead /\ ReuseRevokes /\ Remembered

-----------------------------------------------------------------------------
LEMMA InitHolds == Init => IInv
BY NoneIsNone DEF Init, IInv, TypeOK, Requests, CodesOfRequests, RootsOfCodes, Families,
   RootsAsGranted, UnissuedAreClean, OneHead, ReuseRevokes, Remembered, Issued

LEMMA AuthorizeKeeps ==
  ASSUME IInv, NEW x \in Transactions, NEW c \in Clients, NEW S \in SUBSET Scopes,
         Authorize(x, c, S)
  PROVE  IInv'
<1> USE NoneIsNone DEF IInv, TypeOK, Authorize
<1>1. TypeOK'
  OBVIOUS
<1>2. Requests'
  BY DEF Requests
<1>3. CodesOfRequests' /\ RootsOfCodes' /\ Families'
  BY DEF CodesOfRequests, RootsOfCodes, Families
<1>4. RootsAsGranted'
  BY DEF RootsAsGranted, CodesOfRequests, RootsOfCodes
<1>5. UnissuedAreClean' /\ OneHead' /\ ReuseRevokes' /\ Remembered'
  BY DEF UnissuedAreClean, OneHead, ReuseRevokes, Remembered, Issued
<1> QED
  BY <1>1, <1>2, <1>3, <1>4, <1>5

LEMMA AcceptRemembers ==
  ASSUME Remembered, nonces \subseteq Assertions, expired \subseteq Assertions,
         accepted \subseteq Assertions, NEW a \in Assertions, Accept(a)
  PROVE  /\ Remembered'
         /\ nonces' \subseteq Assertions /\ expired' \subseteq Assertions
         /\ accepted' \subseteq Assertions
BY DEF Remembered, Accept

LEMMA BindKeeps ==
  ASSUME IInv, NEW a \in Assertions, Bind(a)
  PROVE  IInv'
<1> USE NoneIsNone, AssertionsNameThem DEF IInv, Bind
<1>1. Accept(a) /\ TxOf[a] \in Transactions /\ UserOf[a] \in Users
  OBVIOUS
<1>2. /\ Remembered' /\ nonces' \subseteq Assertions /\ expired' \subseteq Assertions
      /\ accepted' \subseteq Assertions
  BY <1>1, AcceptRemembers DEF TypeOK
<1>3. TypeOK'
  BY <1>1, <1>2 DEF TypeOK
<1>4. txState[TxOf[a]] # "complete"
  BY <1>1 DEF Requests, TypeOK
<1>5. Requests'
  BY <1>1, <1>4 DEF Requests, TypeOK
<1>6. CodesOfRequests' /\ RootsOfCodes' /\ Families'
  BY <1>1, <1>4 DEF CodesOfRequests, RootsOfCodes, Families, TypeOK
<1>7. RootsAsGranted'
  BY <1>1, <1>4 DEF RootsAsGranted, CodesOfRequests, RootsOfCodes, TypeOK
<1>8. UnissuedAreClean' /\ OneHead' /\ ReuseRevokes'
  BY DEF UnissuedAreClean, OneHead, ReuseRevokes, Issued
<1> QED
  BY <1>2, <1>3, <1>5, <1>6, <1>7, <1>8

\* What leaves requests, codes and tokens alone.
LEMMA RestKeeps ==
  ASSUME IInv, TypeOK', Remembered', UNCHANGED <<tx, codeTx, codeUsed, claims, marks, live>>
  PROVE  IInv'
BY DEF IInv, Requests, CodesOfRequests, RootsOfCodes, Families, RootsAsGranted,
   UnissuedAreClean, OneHead, ReuseRevokes, Issued

LEMMA BeginCompleteKeeps ==
  ASSUME IInv, NEW c \in Calls, NEW a \in Assertions, BeginComplete(c, a)
  PROVE  IInv'
<1>1. Accept(a)
  BY DEF BeginComplete
<1>2. /\ Remembered' /\ nonces' \subseteq Assertions /\ expired' \subseteq Assertions
      /\ accepted' \subseteq Assertions
  BY <1>1, AcceptRemembers DEF IInv, TypeOK
<1>3. TypeOK'
  BY <1>2 DEF IInv, TypeOK, BeginComplete
<1> QED
  BY <1>2, <1>3, RestKeeps DEF BeginComplete

LEMMA RefusedKeeps ==
  ASSUME IInv, NEW a \in Assertions, Refused(a)
  PROVE  IInv'
<1>1. Accept(a)
  BY DEF Refused
<1>2. /\ Remembered' /\ nonces' \subseteq Assertions /\ expired' \subseteq Assertions
      /\ accepted' \subseteq Assertions
  BY <1>1, AcceptRemembers DEF IInv, TypeOK
<1>3. TypeOK'
  BY <1>2 DEF IInv, TypeOK, Refused
<1> QED
  BY <1>2, <1>3, RestKeeps DEF Refused

LEMMA GiveUpKeeps ==
  ASSUME IInv, NEW c \in Calls, GiveUp(c)
  PROVE  IInv'
<1>1. TypeOK' /\ Remembered'
  BY DEF IInv, TypeOK, GiveUp, Remembered
<1> QED
  BY <1>1, RestKeeps DEF GiveUp

LEMMA IssueCodeKeeps ==
  ASSUME IInv, NEW c \in Calls, NEW k \in Codes, IssueCode(c, k)
  PROVE  IInv'
<1> DEFINE x == TxOf[checking[c]]
<1> USE NoneIsNone, AssertionsNameThem
<1>1. /\ x \in Transactions /\ txState[x] # "complete" /\ txUser[x] # None
      /\ codeTx[k] = None /\ txScope[x] # {}
  BY DEF IInv, TypeOK, IssueCode, Requests
<1>2. /\ txState' = [txState EXCEPT ![x] = "complete"]
      /\ codeTx' = [codeTx EXCEPT ![k] = x]
      /\ codeLive' = [codeLive EXCEPT ![k] = TRUE]
      /\ checking' = [checking EXCEPT ![c] = None]
      /\ UNCHANGED <<txUser, txClient, txScope, txLive, proofs, codeUsed, tokens>>
  BY DEF IssueCode
<1> HIDE DEF x
<1>3. TypeOK'
  BY <1>1, <1>2 DEF IInv, TypeOK
<1>4. Requests'
  BY <1>1, <1>2 DEF IInv, TypeOK, Requests
<1>5. \A j \in Codes : codeTx[j] # x
  BY <1>1 DEF IInv, CodesOfRequests
<1>6. CodesOfRequests'
  BY <1>1, <1>2, <1>5 DEF IInv, TypeOK, CodesOfRequests
<1>7. \A t \in Tokens : codeOf[t] # k
  BY <1>1 DEF IInv, RootsOfCodes
<1>8. RootsOfCodes' /\ Families'
  BY <1>1, <1>2, <1>7 DEF IInv, TypeOK, RootsOfCodes, Families
<1>9. RootsAsGranted'
  BY <1>1, <1>2, <1>7 DEF IInv, TypeOK, RootsOfCodes, RootsAsGranted
<1>10. UnissuedAreClean' /\ OneHead' /\ ReuseRevokes' /\ Remembered'
  BY <1>2 DEF IInv, UnissuedAreClean, OneHead, ReuseRevokes, Remembered, Issued
<1> QED
  BY <1>3, <1>4, <1>6, <1>8, <1>9, <1>10 DEF IInv

LEMMA ExchangeCodeKeeps ==
  ASSUME IInv, NEW k \in Codes, NEW c \in Clients, NEW t \in Tokens, ExchangeCode(k, c, t)
  PROVE  IInv'
<1> USE NoneIsNone
<1> DEFINE x == codeTx[k]
<1>1. /\ x \in Transactions /\ ~codeUsed[k] /\ c = txClient[x] /\ family[t] = None
      /\ txScope[x] # {} /\ txUser[x] # None /\ x # None
  BY DEF IInv, TypeOK, ExchangeCode, IssuePair, Issued, Requests, CodesOfRequests
<1>2. /\ codeUsed' = [codeUsed EXCEPT ![k] = TRUE]
      /\ family' = [family EXCEPT ![t] = t]
      /\ owner' = [owner EXCEPT ![t] = txUser[x]]
      /\ client' = [client EXCEPT ![t] = c]
      /\ scope' = [scope EXCEPT ![t] = txScope[x]]
      /\ live' = [live EXCEPT ![t] = TRUE]
      /\ codeOf' = [codeOf EXCEPT ![t] = k]
      /\ UNCHANGED <<tx, proofs, checking, codeTx, codeLive, marks>>
  BY DEF ExchangeCode, IssuePair
<1>3. TypeOK'
  BY <1>1, <1>2 DEF IInv, TypeOK
<1>4. Requests' /\ CodesOfRequests' /\ Remembered'
  BY <1>2 DEF IInv, Requests, CodesOfRequests, Remembered
<1>5. \A s \in Tokens : codeOf[s] # k /\ family[s] # t /\ s # None
  BY <1>1 DEF IInv, TypeOK, RootsOfCodes, Families
<1>6. RootsOfCodes'
  BY <1>1, <1>2, <1>5 DEF IInv, TypeOK, RootsOfCodes
<1>7. Families'
  BY <1>1, <1>2, <1>5 DEF IInv, TypeOK, Families
<1>8. RootsAsGranted'
  BY <1>1, <1>2, <1>5 DEF IInv, TypeOK, RootsAsGranted
<1>9. UnissuedAreClean' /\ ReuseRevokes'
  BY <1>1, <1>2, <1>5 DEF IInv, TypeOK, UnissuedAreClean, ReuseRevokes
<1>10. OneHead'
  BY <1>1, <1>2, <1>5 DEF IInv, TypeOK, OneHead, Issued, UnissuedAreClean
<1> QED
  BY <1>3, <1>4, <1>6, <1>7, <1>8, <1>9, <1>10 DEF IInv

LEMMA RefreshKeeps ==
  ASSUME IInv, NEW t \in Tokens, NEW n \in Tokens, NEW c \in Clients,
         NEW S \in SUBSET Scopes, Refresh(t, c, n, S)
  PROVE  IInv'
<1> USE NoneIsNone
<1>1. /\ family[t] # None /\ ~rotated[t] /\ ~revoked[t] /\ family[n] = None /\ n # t
      /\ family[t] \in Tokens /\ family[t] # n /\ client[t] = c /\ S # {} /\ S \subseteq scope[t]
  BY DEF IInv, TypeOK, Refresh, Usable, IssuePair, Issued, Families
<1>2. /\ family' = [family EXCEPT ![n] = family[t]]
      /\ owner' = [owner EXCEPT ![n] = owner[t]]
      /\ client' = [client EXCEPT ![n] = c]
      /\ scope' = [scope EXCEPT ![n] = S]
      /\ live' = [live EXCEPT ![n] = TRUE]
      /\ rotated' = [rotated EXCEPT ![t] = TRUE]
      /\ UNCHANGED <<tx, proofs, checking, codes, revoked, reused, codeOf>>
  BY DEF Refresh, IssuePair
<1>3. TypeOK'
  BY <1>1, <1>2 DEF IInv, TypeOK
<1>4. Requests' /\ CodesOfRequests' /\ Remembered'
  BY <1>2 DEF IInv, Requests, CodesOfRequests, Remembered
<1>5. codeOf[n] = None /\ (\A s \in Tokens : family[s] # n /\ s # None)
  BY <1>1 DEF IInv, TypeOK, RootsOfCodes, Families
<1>6. RootsOfCodes'
  BY <1>1, <1>2, <1>5 DEF IInv, TypeOK, RootsOfCodes
<1>7. Families'
  BY <1>1, <1>2, <1>5 DEF IInv, TypeOK, Families
<1>8. RootsAsGranted'
  BY <1>1, <1>2, <1>5 DEF IInv, TypeOK, RootsAsGranted
<1>9. UnissuedAreClean'
  BY <1>1, <1>2, <1>5 DEF IInv, TypeOK, UnissuedAreClean
<1>10. \A s \in Tokens : family[s] = family[t] => ~reused[s]
  BY <1>1 DEF IInv, ReuseRevokes
<1>11. ReuseRevokes'
  BY <1>1, <1>2, <1>10 DEF IInv, TypeOK, ReuseRevokes, UnissuedAreClean
<1>12. ~rotated[n] /\ (\A s \in Tokens : family[s] = family[t] /\ ~rotated[s] => s = t)
  BY <1>1 DEF IInv, TypeOK, OneHead, Issued, UnissuedAreClean
<1>13. OneHead'
  BY <1>1, <1>2, <1>5, <1>12 DEF IInv, TypeOK, OneHead, Issued
<1> QED
  BY <1>3, <1>4, <1>6, <1>7, <1>8, <1>9, <1>11, <1>13 DEF IInv

\* A step that only adds revocations and marks of reuse.
LEMMA RevokingKeeps ==
  ASSUME IInv, UNCHANGED <<tx, proofs, checking, codes, claims, rotated, live>>,
         TypeOK', ReuseRevokes', UnissuedAreClean'
  PROVE  IInv'
BY DEF IInv, Requests, CodesOfRequests, RootsOfCodes, Families, RootsAsGranted,
   OneHead, Remembered, Issued

LEMMA DetectReuseKeeps ==
  ASSUME IInv, NEW t \in Tokens, NEW c \in Clients, DetectReuse(t, c)
  PROVE  IInv'
<1>1. TypeOK' /\ ReuseRevokes' /\ UnissuedAreClean'
  BY DEF IInv, TypeOK, DetectReuse, ReuseRevokes, UnissuedAreClean, Kin, Issued
<1> QED
  BY <1>1, RevokingKeeps DEF DetectReuse

LEMMA RevokeKeeps ==
  ASSUME IInv, NEW t \in Tokens, Revoke(t)
  PROVE  IInv'
<1>1. TypeOK' /\ ReuseRevokes' /\ UnissuedAreClean'
  BY DEF IInv, TypeOK, Revoke, ReuseRevokes, UnissuedAreClean, Issued
<1> QED
  BY <1>1, RevokingKeeps DEF Revoke

LEMMA ExpireKeeps ==
  ASSUME IInv, Expire
  PROVE  IInv'
<1>1. ASSUME NEW x \in Transactions, ExpireTransaction(x) PROVE IInv'
  BY <1>1 DEF ExpireTransaction, IInv, TypeOK, Requests, CodesOfRequests, RootsOfCodes,
     Families, RootsAsGranted, UnissuedAreClean, OneHead, ReuseRevokes, Remembered, Issued
<1>2. ASSUME NEW a \in Assertions, ExpireAssertion(a) PROVE IInv'
  <2>1. TypeOK' /\ Remembered'
    BY <1>2 DEF IInv, TypeOK, ExpireAssertion, Remembered
  <2> QED
    BY <1>2, <2>1, RestKeeps DEF ExpireAssertion
<1>3. ASSUME NEW k \in Codes, ExpireCode(k) PROVE IInv'
  <2>1. TypeOK' /\ Remembered'
    BY <1>3 DEF IInv, TypeOK, ExpireCode, Remembered
  <2> QED
    BY <1>3, <2>1, RestKeeps DEF ExpireCode
<1>4. ASSUME NEW t \in Tokens, ExpireToken(t) PROVE IInv'
  BY <1>4 DEF ExpireToken, IInv, TypeOK, Requests, CodesOfRequests, RootsOfCodes,
     Families, RootsAsGranted, UnissuedAreClean, OneHead, ReuseRevokes, Remembered, Issued
<1> QED
  BY <1>1, <1>2, <1>3, <1>4 DEF Expire

LEMMA StepKeeps == IInv /\ [Next]_vars => IInv'
<1> SUFFICES ASSUME IInv, [Next]_vars PROVE IInv'
  OBVIOUS
<1>1. CASE Onboard
  BY <1>1, AuthorizeKeeps, RefusedKeeps, BindKeeps, BeginCompleteKeeps, GiveUpKeeps,
     IssueCodeKeeps DEF Onboard
<1>2. CASE Exchange
  BY <1>2, ExchangeCodeKeeps, DetectReuseKeeps, RefreshKeeps, RevokeKeeps DEF Exchange
<1>3. CASE Expire
  BY <1>3, ExpireKeeps
<1>4. CASE UNCHANGED vars
  <2>1. TypeOK' /\ Remembered'
    BY <1>4 DEF IInv, TypeOK, Remembered
  <2> QED
    BY <1>4, <2>1, RestKeeps
<1> QED
  BY <1>1, <1>2, <1>3, <1>4 DEF Next

LEMMA Invariant == Spec => []IInv
BY InitHolds, StepKeeps, PTL DEF Spec

-----------------------------------------------------------------------------
\* Rows keep to their columns.
THEOREM TypeCorrect == Spec => []TypeOK
<1>1. IInv => TypeOK
  BY DEF IInv
<1> QED
  BY <1>1, Invariant, PTL

\* Every family has one unrotated token, so a replayed or concurrent refresh
\* never leaves two that work, nor none.
THEOREM OneTokenWorks == Spec => []OneHead
<1>1. IInv => OneHead
  BY DEF IInv
<1> QED
  BY <1>1, Invariant, PTL

\* Once a rotated token came back, no token of its family is accepted again.
THEOREM ReuseIsTheEnd == Spec => []ReuseEndsFamily
<1>1. IInv => ReuseEndsFamily
  BY DEF IInv, ReuseRevokes, ReuseEndsFamily, Usable, Issued
<1> QED
  BY <1>1, Invariant, PTL

\* One request yields at most one code and one family.
THEOREM OneGrant == Spec => []OneGrantPerRequest
<1>1. IInv => OneGrantPerRequest
  BY DEF IInv, CodesOfRequests, RootsOfCodes, OneGrantPerRequest
<1> QED
  BY <1>1, Invariant, PTL

\* No chain of refreshes lets a tool through that the request did not ask for,
\* nor for another user or client.
THEOREM ScopesNeverGrow == Spec => []ToolsWithinGrant
<1>1. IInv => ToolsWithinGrant
  BY DEF IInv, Families, RootsAsGranted, ToolsWithinGrant, Serves, Issued
<1> QED
  BY <1>1, Invariant, PTL

\* An assertion is accepted once, whatever clean-up happens in between.
THEOREM AssertionsAreSingleUse == Spec => AssertionOnce
<1>1. ASSUME IInv, [Next]_vars
      PROVE  [\A a \in Assertions : a \in nonces' \ nonces => a \notin accepted]_vars
  <2>1. ASSUME NEW b \in Assertions, Accept(b)
        PROVE  \A a \in Assertions : a \in nonces' \ nonces => a \notin accepted
    BY <1>1, <2>1 DEF Accept, IInv, Remembered
  <2>2. CASE UNCHANGED nonces
    BY <2>2
  <2> QED
    BY <1>1, <2>1, <2>2 DEF Next, Onboard, Exchange, Expire, Authorize, Refused, Bind,
       BeginComplete, GiveUp, IssueCode, ExchangeCode, DetectReuse, Refresh, Revoke,
       ExpireTransaction, ExpireAssertion, ExpireCode, ExpireToken
<1> QED
  BY <1>1, Invariant, PTL DEF Spec, AssertionOnce
-----------------------------------------------------------------------------
\* Refinement: a family with a usable token is an open grant with that token's
\* scopes.

UsableOf(f) == {s \in Tokens : family[s] = f /\ Usable(s)}

LEMMA GrantOf ==
  ASSUME NEW f \in Tokens
  PROVE  /\ phase[f] = IF family[f] # f THEN "unopened"
                       ELSE IF UsableOf(f) # {} THEN "open" ELSE "ended"
         /\ agreed[f] = UNION {scope[t] : t \in UsableOf(f)}
BY DEF phase, agreed, UsableOf, FamilyOpen

LEMMA GrantOfNext ==
  ASSUME NEW f \in Tokens
  PROVE  /\ phase'[f] = IF family'[f] # f THEN "unopened"
                        ELSE IF UsableOf(f)' # {} THEN "open" ELSE "ended"
         /\ agreed'[f] = UNION {scope'[t] : t \in UsableOf(f)'}
BY DEF phase, agreed, UsableOf, FamilyOpen

LEMMA GrantInit == Init => Grant!Init
<1> SUFFICES ASSUME Init PROVE Grant!Init
  OBVIOUS
<1>1. \A f \in Tokens : f # None /\ family[f] = None /\ UsableOf(f) = {}
  BY NoneIsNone DEF Init, UsableOf, Usable, Issued
<1>2. \A f \in Tokens : phase[f] = "unopened" /\ agreed[f] = {}
  BY <1>1, GrantOf
<1>3. phase = [f \in Tokens |-> phase[f]] /\ agreed = [f \in Tokens |-> agreed[f]]
  BY DEF phase, agreed
<1> QED
  BY <1>2, <1>3 DEF Grant!Init

\* The families other than f0 are as they were.
Elsewhere(f0) ==
  \A f \in Tokens \ {f0} :
    /\ (family'[f] = f) <=> (family[f] = f)
    /\ UsableOf(f)' = UsableOf(f)
    /\ \A t \in UsableOf(f) : scope'[t] = scope[t]

LEMMA ElsewhereIsSame ==
  ASSUME NEW f0, Elsewhere(f0), NEW f \in Tokens \ {f0}
  PROVE  phase'[f] = phase[f] /\ agreed'[f] = agreed[f]
<1>1. phase'[f] = phase[f]
  BY GrantOf, GrantOfNext DEF Elsewhere
<1>2. {scope'[t] : t \in UsableOf(f)'} = {scope[t] : t \in UsableOf(f)}
  BY DEF Elsewhere
<1>3. agreed'[f] = UNION {scope'[t] : t \in UsableOf(f)'}
  BY GrantOfNext
<1>4. agreed[f] = UNION {scope[t] : t \in UsableOf(f)}
  BY GrantOf
<1> QED
  BY <1>1, <1>2, <1>3, <1>4

LEMMA SameEverywhere ==
  ASSUME \A f \in Tokens : phase'[f] = phase[f] /\ agreed'[f] = agreed[f]
  PROVE  phase' = phase /\ agreed' = agreed
<1>1. /\ phase = [f \in Tokens |-> phase[f]] /\ agreed = [f \in Tokens |-> agreed[f]]
      /\ phase' = [f \in Tokens |-> phase'[f]] /\ agreed' = [f \in Tokens |-> agreed'[f]]
  BY DEF phase, agreed
<1> QED
  BY <1>1

\* Then the step is seen at f0 only.
LEMMA SeenAt ==
  ASSUME NEW f0 \in Tokens, Elsewhere(f0)
  PROVE  /\ phase' = [phase EXCEPT ![f0] = phase'[f0]]
         /\ agreed' = [agreed EXCEPT ![f0] = agreed'[f0]]
<1>1. \A f \in Tokens \ {f0} : phase'[f] = phase[f] /\ agreed'[f] = agreed[f]
  BY ElsewhereIsSame
<1>2. /\ phase = [f \in Tokens |-> phase[f]] /\ agreed = [f \in Tokens |-> agreed[f]]
      /\ phase' = [f \in Tokens |-> phase'[f]] /\ agreed' = [f \in Tokens |-> agreed'[f]]
  BY DEF phase, agreed
<1> QED
  BY <1>1, <1>2

LEMMA NothingSeen ==
  ASSUME UNCHANGED <<family, rotated, revoked, live, scope>>
  PROVE  UNCHANGED <<phase, agreed>>
BY DEF phase, agreed, FamilyOpen, Usable, Issued

\* A family that loses its usable token, if it had one, ends.
LEMMA Closes ==
  ASSUME NEW f0 \in Tokens, family[f0] = f0, family'[f0] = f0,
         Elsewhere(f0), UsableOf(f0)' = {}
  PROVE  [Grant!Next]_<<phase, agreed>>
<1>1. phase'[f0] = "ended" /\ agreed'[f0] = {}
  BY GrantOfNext
<1>2. CASE UsableOf(f0) = {}
  <2>1. phase[f0] = "ended" /\ agreed[f0] = {}
    BY <1>2, GrantOf
  <2>2. \A f \in Tokens : phase'[f] = phase[f] /\ agreed'[f] = agreed[f]
    BY <1>1, <2>1, ElsewhereIsSame
  <2>3. phase' = phase /\ agreed' = agreed
    BY <2>2, SameEverywhere
  <2> QED
    BY <2>3
<1>3. CASE UsableOf(f0) # {}
  <2>1. phase[f0] = "open"
    BY <1>3, GrantOf
  <2>2. Grant!End(f0)
    BY <1>1, <2>1, SeenAt DEF Grant!End
  <2> QED
    BY <2>2 DEF Grant!Next
<1> QED
  BY <1>2, <1>3

LEMMA OneUsable ==
  ASSUME IInv, NEW t \in Tokens, Usable(t)
  PROVE  /\ UsableOf(family[t]) = {t}
         /\ family[t] \in Tokens /\ family[family[t]] = family[t]
BY DEF IInv, OneHead, Families, UsableOf, Usable, Issued

LEMMA ExchangeOpens ==
  ASSUME IInv, NEW k \in Codes, NEW c \in Clients, NEW t \in Tokens, ExchangeCode(k, c, t)
  PROVE  [Grant!Next]_<<phase, agreed>>
<1> DEFINE S == txScope[codeTx[k]]
<1>1. /\ family[t] = None /\ t # None /\ S \in SUBSET Scopes /\ S # {}
      /\ \A s \in Tokens : family[s] # t
  BY NoneIsNone DEF IInv, TypeOK, ExchangeCode, IssuePair, Issued, Requests,
     CodesOfRequests, Families
<1>2. /\ family' = [family EXCEPT ![t] = t] /\ scope' = [scope EXCEPT ![t] = S]
      /\ live' = [live EXCEPT ![t] = TRUE]
      /\ UNCHANGED <<rotated, revoked>> /\ ~rotated[t] /\ ~revoked[t]
  BY <1>1 DEF ExchangeCode, IssuePair, IInv, UnissuedAreClean
<1> HIDE DEF S
<1>3. Elsewhere(t)
  BY <1>1, <1>2 DEF Elsewhere, UsableOf, Usable, Issued, IInv, TypeOK
<1>4. UsableOf(t)' = {t} /\ scope'[t] = S /\ family'[t] = t
  BY <1>1, <1>2 DEF UsableOf, Usable, Issued, IInv, TypeOK
<1>5. phase[t] = "unopened" /\ phase'[t] = "open"
  BY <1>1, <1>4, GrantOf, GrantOfNext
<1>6. agreed'[t] = S
  <2>1. agreed'[t] = UNION {scope'[s] : s \in UsableOf(t)'}
    BY GrantOfNext
  <2>2. {scope'[s] : s \in UsableOf(t)'} = {S}
    BY <1>4
  <2> QED
    BY <2>1, <2>2
<1>7. Grant!Open(t, S)
  BY <1>1, <1>3, <1>5, <1>6, SeenAt DEF Grant!Open
<1> QED
  BY <1>1, <1>7 DEF Grant!Next

LEMMA RefreshRenews ==
  ASSUME IInv, NEW t \in Tokens, NEW n \in Tokens, NEW c \in Clients,
         NEW S \in SUBSET Scopes, Refresh(t, c, n, S)
  PROVE  [Grant!Next]_<<phase, agreed>>
<1> SUFFICES ASSUME NEW f0, f0 = family[t] PROVE [Grant!Next]_<<phase, agreed>>
  OBVIOUS
<1>1. /\ Usable(t) /\ family[n] = None /\ n # t /\ S # {} /\ S \subseteq scope[t]
      /\ family' = [family EXCEPT ![n] = f0] /\ scope' = [scope EXCEPT ![n] = S]
      /\ live' = [live EXCEPT ![n] = TRUE] /\ rotated' = [rotated EXCEPT ![t] = TRUE]
      /\ UNCHANGED revoked
  BY DEF Refresh, IssuePair, Usable, Issued
<1>2. UsableOf(f0) = {t} /\ f0 \in Tokens /\ family[f0] = f0 /\ f0 # None /\ f0 # n
  BY <1>1, OneUsable, NoneIsNone
<1>3. ~rotated[n] /\ ~revoked[n]
  BY <1>1 DEF IInv, UnissuedAreClean
<1>4. \A s \in Tokens : family[s] # n
  BY <1>1, NoneIsNone DEF IInv, TypeOK, Families
<1>5. Elsewhere(f0)
  <2> SUFFICES ASSUME NEW f \in Tokens \ {f0}
               PROVE  /\ (family'[f] = f) <=> (family[f] = f)
                      /\ UsableOf(f)' = UsableOf(f)
                      /\ \A s \in UsableOf(f) : scope'[s] = scope[s]
    BY DEF Elsewhere
  <2>1. t \notin UsableOf(f) /\ n \notin UsableOf(f)
    BY <1>1, <1>2, NoneIsNone DEF UsableOf, Usable, Issued
  <2>2. t \notin UsableOf(f)' /\ n \notin UsableOf(f)'
    BY <1>1, <1>2 DEF UsableOf, IInv, TypeOK
  <2>3. \A s \in Tokens \ {t, n} : s \in UsableOf(f)' <=> s \in UsableOf(f)
    BY <1>1 DEF UsableOf, Usable, Issued, IInv, TypeOK
  <2>4. UsableOf(f)' \subseteq Tokens /\ UsableOf(f) \subseteq Tokens
    BY DEF UsableOf
  <2>5. UsableOf(f)' = UsableOf(f)
    BY <2>1, <2>2, <2>3, <2>4
  <2>6. (family'[f] = f) <=> (family[f] = f)
    BY <1>1, <1>4, NoneIsNone DEF IInv, TypeOK
  <2>7. \A s \in UsableOf(f) : scope'[s] = scope[s]
    BY <1>1, <2>1, <2>4 DEF IInv, TypeOK
  <2> QED
    BY <2>5, <2>6, <2>7
<1>6. UsableOf(f0)' = {n}
  <2>1. n \in UsableOf(f0)'
    BY <1>1, <1>2, <1>3 DEF UsableOf, Usable, Issued, IInv, TypeOK
  <2>2. t \notin UsableOf(f0)'
    BY <1>1 DEF UsableOf, Usable, IInv, TypeOK
  <2>3. \A s \in Tokens \ {t, n} : s \in UsableOf(f0)' => s \in UsableOf(f0)
    BY <1>1 DEF UsableOf, Usable, Issued, IInv, TypeOK
  <2>4. UsableOf(f0)' \subseteq Tokens
    BY DEF UsableOf
  <2> QED
    BY <1>2, <2>1, <2>2, <2>3, <2>4
<1>7. scope'[n] = S /\ family'[f0] = f0
  BY <1>1, <1>2 DEF IInv, TypeOK
<1>8. phase[f0] = "open" /\ agreed[f0] = scope[t]
  <2>1. phase[f0] = "open" /\ agreed[f0] = UNION {scope[s] : s \in UsableOf(f0)}
    BY <1>2, GrantOf
  <2>2. {scope[s] : s \in UsableOf(f0)} = {scope[t]}
    BY <1>2
  <2> QED
    BY <2>1, <2>2
<1>9. phase'[f0] = "open" /\ agreed'[f0] = S
  <2>1. phase'[f0] = "open" /\ agreed'[f0] = UNION {scope'[s] : s \in UsableOf(f0)'}
    BY <1>2, <1>6, <1>7, GrantOfNext
  <2>2. {scope'[s] : s \in UsableOf(f0)'} = {S}
    BY <1>6, <1>7
  <2> QED
    BY <2>1, <2>2
<1>10. phase' = phase
  <2>1. \A f \in Tokens : phase'[f] = phase[f]
    BY <1>5, <1>8, <1>9, ElsewhereIsSame
  <2> QED
    BY <2>1 DEF phase
<1>11. Grant!Renew(f0, S)
  BY <1>1, <1>2, <1>5, <1>8, <1>9, <1>10, SeenAt DEF Grant!Renew
<1> QED
  BY <1>2, <1>11 DEF Grant!Next

LEMMA ReuseCloses ==
  ASSUME IInv, NEW t \in Tokens, NEW c \in Clients, DetectReuse(t, c)
  PROVE  [Grant!Next]_<<phase, agreed>>
<1> SUFFICES ASSUME NEW f0, f0 = family[t] PROVE [Grant!Next]_<<phase, agreed>>
  OBVIOUS
<1>1. f0 \in Tokens /\ family[f0] = f0 /\ UNCHANGED <<family, rotated, live, scope>>
  BY DEF DetectReuse, IInv, Families, Issued
<1>2. \A s \in Tokens : revoked'[s] = (revoked[s] \/ family[s] = f0)
  BY DEF DetectReuse, Kin
<1>3. UsableOf(f0)' = {}
  BY <1>1, <1>2 DEF UsableOf, Usable, Issued
<1>4. Elsewhere(f0)
  BY <1>1, <1>2 DEF Elsewhere, UsableOf, Usable, Issued
<1> QED
  BY <1>1, <1>3, <1>4, Closes

\* A token is withdrawn: revoked on its own, or expired.
LEMMA WithdrawalCloses ==
  ASSUME IInv, NEW t \in Tokens, UNCHANGED <<family, rotated, scope>>,
         \A s \in Tokens \ {t} : revoked'[s] = revoked[s] /\ live'[s] = live[s],
         ~Usable(t)'
  PROVE  [Grant!Next]_<<phase, agreed>>
<1>1. \A s \in Tokens \ {t} : Usable(s)' = Usable(s)
  BY DEF Usable, Issued
<1>2. CASE Usable(t)
  <2> SUFFICES ASSUME NEW f0, f0 = family[t] PROVE [Grant!Next]_<<phase, agreed>>
    OBVIOUS
  <2>1. UsableOf(f0) = {t} /\ f0 \in Tokens /\ family[f0] = f0
    BY <1>2, OneUsable
  <2>2. UsableOf(f0)' = {}
    BY <1>1, <2>1 DEF UsableOf
  <2>3. Elsewhere(f0)
    BY <1>1, <2>1 DEF Elsewhere, UsableOf
  <2> QED
    BY <2>1, <2>2, <2>3, Closes
<1>3. CASE ~Usable(t)
  <2>1. \A s \in Tokens : Usable(s)' = Usable(s)
    BY <1>1, <1>3 DEF Usable, Issued
  <2> QED
    BY <2>1 DEF phase, agreed, FamilyOpen
<1> QED
  BY <1>2, <1>3

LEMMA GrantStep == IInv /\ [Next]_vars => [Grant!Next]_<<phase, agreed>>
<1> SUFFICES ASSUME IInv, [Next]_vars PROVE [Grant!Next]_<<phase, agreed>>
  OBVIOUS
<1>1. CASE UNCHANGED <<family, rotated, revoked, live, scope>>
  BY <1>1, NothingSeen
<1>2. ASSUME NEW t \in Tokens, Revoke(t) PROVE [Grant!Next]_<<phase, agreed>>
  BY <1>2, WithdrawalCloses DEF Revoke, IInv, TypeOK, Usable
<1>3. ASSUME NEW t \in Tokens, ExpireToken(t) PROVE [Grant!Next]_<<phase, agreed>>
  BY <1>3, WithdrawalCloses DEF ExpireToken, IInv, TypeOK, Usable
<1>4. CASE Onboard
  BY <1>1, <1>4 DEF Onboard, Authorize, Refused, Bind, BeginComplete, GiveUp, IssueCode
<1>5. CASE Exchange
  BY <1>2, <1>5, ExchangeOpens, RefreshRenews, ReuseCloses DEF Exchange
<1>6. CASE Expire
  BY <1>1, <1>3, <1>6 DEF Expire, ExpireTransaction, ExpireAssertion, ExpireCode
<1>7. CASE UNCHANGED vars
  BY <1>1, <1>7
<1> QED
  BY <1>4, <1>5, <1>6, <1>7 DEF Next

\* The code keeps the promise of TokenGrants: a grant opens once, narrows at
\* most, and stays ended.
THEOREM Refinement == Spec => ImplementsGrants
BY GrantInit, GrantStep, Invariant, PTL DEF Spec, ImplementsGrants, Grant!Spec, Grant!gvars
=============================================================================
