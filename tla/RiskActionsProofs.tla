-------------------------- MODULE RiskActionsProofs --------------------------
(***************************************************************************)
(* Theorems about BrokerAccounts and RiskActions for every set of          *)
(* connections, accounts, targets, previews, keys and calls.               *)
(***************************************************************************)
EXTENDS RiskActions, TLAPS

USE DEF connections, rows, broker, previewRows, executions, past, actions, vars

\* Where a call has got to, and what that says of its preview.
Working == {"claimed", "sent", "accepted"}

CallsAreBound ==
  /\ \A c \in Calls : call[c].at # "idle" =>
       call[c].p \in Previews /\ call[c].key \in Keys /\ aim[call[c].p] # None
  /\ \A c \in Calls : call[c].at \in Working =>
       state[call[c].p] = "claimed" /\ call[c].to = seenAt[call[c].p]
  /\ \A c \in Calls : call[c].at = "claimed" => sends[call[c].p] = 0

\* One call works for a claim, however many calls have the preview.
OneWorker ==
  \A c, d \in Calls :
    call[c].at \in Working /\ call[d].at \in Working /\ call[c].p = call[d].p => c = d

RowsAgree ==
  /\ \A p \in Previews : keyOf[p] # None <=> state[p] # "none"
  /\ \A p, q \in Previews : keyOf[p] = keyOf[q] /\ keyOf[p] # None => p = q
  /\ \A p \in Previews : state[p] \in {"none", "rejected"} => sends[p] = 0
  /\ \A p \in Previews : sends[p] <= 1
  /\ \A p \in Previews : sends[p] > 0 => sentTo[p] = seenAt[p]
  /\ \A p \in Previews : fresh[p] => aim[p] # None
  /\ \A p \in Previews : aim[p] = None => state[p] = "none"

ActsAgree ==
  \A p \in Previews : p \in acted => sends[p] > 0 /\ aim[p] \notin present

IInv == CallsAreBound /\ OneWorker /\ RowsAgree /\ ActsAgree

-----------------------------------------------------------------------------
(* The connections and accounts.                                            *)

\* The rows of connections and accounts keep their types.
LEMMA BrokerTypeStep ==
  ASSUME BrokerTypeOK, Routed PROVE BrokerTypeOK'
<1> USE AccountsHaveConnections, NoneIsNothing DEF BrokerTypeOK
<1>1. ASSUME NEW k \in Asks, NEW c \in Connections, NEW r \in Routes \cup {None}, NEW kind \in AskKinds,
             Ask(k, kind, c, r)
      PROVE  BrokerTypeOK'
  BY <1>1 DEF Ask, AskType
<1>2. ASSUME NEW c \in Connections, SyncAccounts(c)
      PROVE  /\ status' \in [Connections -> Statuses] /\ needs' \in [Connections -> BOOLEAN]
             /\ selected' \in [Connections -> Accounts \cup {None}]
             /\ standing' \in [Accounts -> Standings] /\ enabled' \in [Accounts -> BOOLEAN]
             /\ default' \subseteq Accounts
  <2>1. PICK seen \in SUBSET Held(c) : \E open \in SUBSET seen, d \in SUBSET Accounts :
          /\ standing' = [a \in Accounts |-> Listed(c, seen, open, a)]
          /\ NewDefault(c, seen, d) /\ default' = d
    BY <1>2 DEF SyncAccounts
  <2>2. \A open \in SUBSET seen, a \in Accounts : Listed(c, seen, open, a) \in Standings
    BY DEF Listed, Standings
  <2>3. standing' \in [Accounts -> Standings] /\ default' \subseteq Accounts
    BY <2>1, <2>2
  <2> QED
    BY <1>2, <2>3 DEF SyncAccounts, Statuses
<1>3. CASE \E k \in Asks, c \in Connections :
             BeginOnboarding(k, c) \/ BeginDiscovery(k, c) \/ \E r \in Routes : BeginSave(k, c, r)
  BY <1>1, <1>3 DEF BeginOnboarding, BeginDiscovery, BeginSave, AskKinds, Ask, AskType, Preferred
<1>4. ASSUME NEW k \in Asks,
             Saved(k) \/ SavedOnly(k) \/ Discovered(k) \/ Rejected(k) \/ Unanswered(k)
      PROVE  BrokerTypeOK'
  <2>1. asks[k] \in AskType /\ asks' \in [Asks -> AskType \cup {None}]
    BY <1>4 DEF Saved, SavedOnly, Discovered, Rejected, Unanswered, Answered
  <2>2. asks[k].conn \in Connections /\ asks[k].route \in Routes \cup {None}
    BY <2>1 DEF AskType
  <2>3. CASE Saved(k)
    BY <2>1, <2>2, <2>3, <1>2 DEF Saved
  <2>4. CASE SavedOnly(k)
    BY <2>1, <2>2, <2>4 DEF SavedOnly, Statuses
  <2>5. CASE Discovered(k)
    BY <2>1, <2>2, <2>5, <1>2 DEF Discovered
  <2>6. CASE Rejected(k)
    BY <2>1, <2>2, <2>6 DEF Rejected, Statuses
  <2>7. CASE Unanswered(k)
    BY <2>1, <2>7 DEF Unanswered
  <2> QED
    BY <1>4, <2>3, <2>4, <2>5, <2>6, <2>7
<1>5. ASSUME NEW a \in Accounts, SetDefault(a) \/ SelectAccount(a) \/ DisableAccount(a)
      PROVE  BrokerTypeOK'
  <2>1. ASSUME MakeDefault(a)
        PROVE  selected' \in [Connections -> Accounts \cup {None}] /\ default' \subseteq Accounts
    BY <2>1 DEF MakeDefault
  <2>2. CASE SetDefault(a)
    BY <2>1, <2>2 DEF SetDefault
  <2>3. CASE SelectAccount(a)
    <3>1. standing' \in [Accounts -> Standings]
      BY <2>3 DEF SelectAccount, Standings
    <3> QED
      BY <3>1, <2>1, <2>3 DEF SelectAccount
  <2>4. CASE DisableAccount(a)
    BY <2>4 DEF DisableAccount
  <2> QED
    BY <1>5, <2>2, <2>3, <2>4
<1>6. CASE \E c \in Connections : DisableConnection(c) \/ DeleteConnection(c)
  BY <1>6 DEF DisableConnection, DeleteConnection, SetDisabled, Statuses
<1> QED
  BY <1>3, <1>4, <1>5, <1>6 DEF Routed

\* With the flag that no two rows have, which the index alone keeps in the code.
DefaultInv == DefaultAgrees /\ \A a, b \in default : a = b

\* A discovery inserts a default only if there is none, and forgets no row.
LEMMA SyncKeepsDefault ==
  ASSUME BrokerTypeOK, DefaultInv, NEW c \in Connections, SyncAccounts(c)
  PROVE  DefaultInv' /\ (default # {} => default' = default)
         /\ \A a \in Accounts : standing[a] # "none" => standing'[a] # "none"
<1>1. PICK seen \in SUBSET Held(c) : \E open \in SUBSET seen, d \in SUBSET Accounts :
        /\ standing' = [a \in Accounts |-> Listed(c, seen, open, a)]
        /\ NewDefault(c, seen, d) /\ default' = d
  BY DEF SyncAccounts
<1>2. seen \subseteq Accounts /\ \A a \in seen : ConnOf[a] = c
  BY DEF Held
<1>3. \A a \in Accounts : (standing[a] # "none" \/ a \in seen) => standing'[a] # "none"
  BY <1>1, <1>2 DEF Listed, BrokerTypeOK
<1>4. default \subseteq Accounts /\ selected' = selected
  BY DEF BrokerTypeOK, SyncAccounts
<1>5. CASE default' = default
  BY <1>3, <1>4, <1>5 DEF DefaultInv, DefaultAgrees
<1>6. CASE default' # default
  <2>1. default = {} /\ \E a \in seen : default' = {a}
    BY <1>1, <1>6 DEF NewDefault
  <2>2. \A e \in Connections : selected[e] = None
    BY <2>1 DEF DefaultInv, DefaultAgrees
  <2> QED
    BY <1>2, <1>3, <1>4, <2>1, <2>2 DEF DefaultInv, DefaultAgrees
<1> QED
  BY <1>3, <1>5, <1>6, <1>1 DEF NewDefault

\* Only MakeDefault writes the selection.
LEMMA DefaultStep ==
  ASSUME BrokerTypeOK, DefaultInv, Routed
  PROVE  /\ DefaultInv'
         /\ \A a \in Accounts : /\ standing[a] # "none" => standing'[a] # "none"
                                /\ ~enabled[a] => ~enabled'[a]
         /\ default # {} => default' = default \/ selected' # selected
<1> USE AccountsHaveConnections, NoneIsNothing
<1>1. ASSUME NEW c \in Connections, SyncAccounts(c)
      PROVE  enabled' = enabled /\ DefaultInv' /\ (default # {} => default' = default)
             /\ \A a \in Accounts : standing[a] # "none" => standing'[a] # "none"
  BY <1>1, SyncKeepsDefault DEF SyncAccounts
<1>2. ASSUME UNCHANGED <<selected, standing, enabled, default>> PROVE DefaultInv'
  BY <1>2 DEF DefaultInv, DefaultAgrees
<1>3. CASE \E k \in Asks, c \in Connections :
             BeginOnboarding(k, c) \/ BeginDiscovery(k, c) \/ \E r \in Routes : BeginSave(k, c, r)
  BY <1>3, <1>2 DEF BeginOnboarding, BeginDiscovery, BeginSave, Ask
<1>4. ASSUME NEW k \in Asks, Saved(k) \/ Discovered(k)
      PROVE  \E c \in Connections : SyncAccounts(c)
  <2>1. asks[k] \in AskType
    BY <1>4 DEF Saved, Discovered, Answered, BrokerTypeOK
  <2> QED
    BY <1>4, <2>1 DEF Saved, Discovered, AskType
<1>5. CASE \E k \in Asks : SavedOnly(k) \/ Rejected(k) \/ Unanswered(k)
  BY <1>5, <1>2 DEF SavedOnly, Rejected, Unanswered
<1>6. ASSUME NEW a \in Accounts, MakeDefault(a), standing'[a] # "none"
      PROVE  DefaultInv' /\ (default # {} => default' = default \/ selected' # selected)
  <2>1. default' = {a} /\ selected' = [c \in Connections |-> IF c = ConnOf[a] THEN a ELSE None]
    BY <1>6 DEF MakeDefault
  <2>2. DefaultInv'
    BY <1>6, <2>1 DEF DefaultInv, DefaultAgrees
  <2>3. ASSUME selected' = selected PROVE a \in default
    BY <2>1, <2>3 DEF DefaultInv, DefaultAgrees
  <2>4. ASSUME selected' = selected PROVE default' = default
    BY <2>1, <2>3, <2>4 DEF DefaultInv, DefaultAgrees
  <2> QED
    BY <2>2, <2>4
<1>7. CASE \E a \in Accounts : SetDefault(a)
  BY <1>6, <1>7 DEF SetDefault
<1>8. ASSUME NEW a \in Accounts, SelectAccount(a)
      PROVE  /\ DefaultInv'
             /\ \A b \in Accounts : standing[b] # "none" => standing'[b] # "none"
             /\ enabled' = enabled
             /\ default # {} => default' = default \/ selected' # selected
  <2>1. standing'[a] # "none" /\ \A b \in Accounts : standing[b] # "none" => standing'[b] # "none"
    BY <1>8 DEF SelectAccount, BrokerTypeOK
  <2>2. CASE MakeDefault(a)
    BY <2>1, <2>2, <1>6, <1>8 DEF SelectAccount
  <2>3. CASE UNCHANGED <<default, selected>>
    BY <2>1, <2>3, <1>8 DEF SelectAccount, DefaultInv, DefaultAgrees, BrokerTypeOK
  <2> QED
    BY <1>8, <2>2, <2>3, <2>1 DEF SelectAccount
<1>9. CASE \E a \in Accounts : DisableAccount(a)
  <2>1. UNCHANGED <<selected, standing, default>>
    BY <1>9 DEF DisableAccount
  <2>2. \A b \in Accounts : ~enabled[b] => ~enabled'[b]
    BY <1>9 DEF DisableAccount, BrokerTypeOK
  <2> QED
    BY <2>1, <2>2 DEF DefaultInv, DefaultAgrees
<1>10. CASE \E c \in Connections : DisableConnection(c) \/ DeleteConnection(c)
  BY <1>10, <1>2 DEF DisableConnection, DeleteConnection, SetDisabled
<1> QED
  BY <1>1, <1>3, <1>4, <1>5, <1>7, <1>8, <1>9, <1>10 DEF Routed

-----------------------------------------------------------------------------
(* The actions.                                                             *)

\* A call keeps its type, and the rows theirs, in every step of an action.
LEMMA ActionTypeStep ==
  ASSUME TypeOK, RowsAgree, CallsAreBound, UNCHANGED broker,
         \/ \E p \in Previews : Expire(p) \/ CarryOut(p) \/ \E t \in Targets : Review(p, t)
         \/ \E t \in Targets : EndsItself(t)
         \/ \E c \in Calls : \/ CallStep(c) \/ Die(c)
                             \/ \E p \in Previews, key \in Keys : Begin(c, p, key)
  PROVE  TypeOK'
<1> USE TargetsHaveAccounts, NoneIsNoAction, AccountsHaveConnections DEF TypeOK
<1>1. BrokerTypeOK'
  BY DEF BrokerTypeOK
<1>2. \A t \in Targets : route[ConnOf[AccountOf[t]]] \in Routes \cup {None}
  BY DEF BrokerTypeOK
<1>3. ASSUME NEW p \in Previews, Expire(p) \/ CarryOut(p) \/ \E t \in Targets : Review(p, t)
      PROVE  TypeOK'
  <2>1. CASE Expire(p)
    BY <1>1, <2>1 DEF Expire
  <2>2. CASE CarryOut(p)
    BY <1>1, <2>2 DEF CarryOut
  <2>3. ASSUME NEW t \in Targets, Review(p, t) PROVE TypeOK'
    BY <1>1, <1>2, <2>3 DEF Review
  <2> QED
    BY <1>3, <2>1, <2>2, <2>3
<1>4. CASE \E t \in Targets : EndsItself(t)
  BY <1>1, <1>4 DEF EndsItself
<1>5. ASSUME NEW c \in Calls, CallStep(c) \/ Die(c) PROVE TypeOK'
  <2>1. call' \in [Calls -> CallType]
    <3>1. CASE call' = [call EXCEPT ![c] = Idle]
      BY <3>1 DEF Idle, CallType, Stages
    <3>2. ASSUME NEW s \in Stages, call' = [call EXCEPT ![c].at = s]
          PROVE  call' \in [Calls -> CallType]
      BY <3>2 DEF CallType
    <3> QED
      BY <1>5, <3>1, <3>2 DEF CallStep, Die, Stops, Claim, NotSent, Send, Ambiguous, Accepted,
           Verify, Record, Leaves, Goes, Stages
  <2>3. state' \in [Previews -> {"none", "claimed", "verified", "unknown", "rejected"}]
    <3>1. \/ UNCHANGED state
          \/ \E s \in {"claimed", "verified", "unknown", "rejected"} :
               state' = [state EXCEPT ![call[c].p] = s]
      BY <1>5 DEF CallStep, Die, Stops, Claim, NotSent, Send, Ambiguous, Accepted,
             Verify, Record, Leaves, Goes
    <3> QED BY <3>1
  <2>4. keyOf' \in [Previews -> Keys \cup {None}]
    <3>1. call[c].key \in Keys \cup {None}
      BY DEF CallType
    <3> QED
      BY <1>5, <3>1 DEF CallStep, Die, Stops, Claim, NotSent, Send, Ambiguous, Accepted,
           Verify, Record, Leaves, Goes
  <2>5. sends' \in [Previews -> Nat] /\ sentTo' \in [Previews -> Routes \cup {None}]
    <3>1. call[c].to \in Routes \cup {None}
      BY DEF CallType
    <3>2. CASE Send(c)
      <4>1. call[c].p \in Previews /\ sends[call[c].p] + 1 \in Nat
        BY <3>2 DEF Send, CallsAreBound
      <4> QED
        BY <3>1, <3>2, <4>1 DEF Send
    <3>3. CASE ~Send(c)
      BY <1>5, <3>3 DEF CallStep, Die, Stops, Claim, NotSent, Ambiguous, Accepted,
           Verify, Record, Leaves, Goes
    <3> QED
      BY <3>2, <3>3
  <2>6. UNCHANGED <<present, aim, seenAt, fresh, acted>>
    BY <1>5 DEF CallStep, Die, Stops, Claim, NotSent, Send, Ambiguous, Accepted,
           Verify, Record, Leaves, Goes
  <2> QED
    BY <1>1, <2>1, <2>3, <2>4, <2>5, <2>6
<1>6. CASE \E c \in Calls, p \in Previews, key \in Keys : Begin(c, p, key)
  <2>1. PICK c \in Calls, p \in Previews, key \in Keys : Begin(c, p, key)
    BY <1>6
  <2>2. route[ConnFor(p)] \in Routes \cup {None}
    BY <1>2, <2>1 DEF ConnFor, Begin, RowsAgree
  <2> QED
    BY <1>1, <2>1, <2>2 DEF Begin, Stages, CallType
<1> QED
  BY <1>3, <1>4, <1>5, <1>6

\* What the proofs need of a step of a call: it touches its own preview only,
\* and what it does to it depends on where the call is.
LEMMA ActionStep ==
  ASSUME TypeOK, IInv, UNCHANGED broker,
         \/ \E p \in Previews : Expire(p) \/ CarryOut(p) \/ \E t \in Targets : Review(p, t)
         \/ \E t \in Targets : EndsItself(t)
         \/ \E c \in Calls : \/ CallStep(c) \/ Die(c)
                             \/ \E p \in Previews, key \in Keys : Begin(c, p, key)
  PROVE  IInv'
<1> USE NoneIsNoAction DEF TypeOK, IInv
<1>1. ASSUME NEW p \in Previews, NEW t \in Targets, Review(p, t) PROVE IInv'
  <2>1. state[p] = "none" /\ sends[p] = 0 /\ p \notin acted
    BY <1>1 DEF Review, RowsAgree, ActsAgree
  <2>2. \A c \in Calls : call[c].at # "idle" => call[c].p # p
    BY <1>1 DEF Review, CallsAreBound
  <2>3. CallsAreBound' /\ OneWorker'
    BY <1>1, <2>2 DEF Review, CallsAreBound, OneWorker, Working
  <2>4. RowsAgree'
    BY <1>1, <2>1 DEF Review, RowsAgree
  <2>5. ActsAgree'
    BY <1>1, <2>1 DEF Review, ActsAgree
  <2> QED
    BY <2>3, <2>4, <2>5
<1>2. ASSUME NEW p \in Previews, Expire(p) PROVE IInv'
  BY <1>2 DEF Expire, CallsAreBound, OneWorker, RowsAgree, ActsAgree
<1>3. ASSUME NEW p \in Previews, CarryOut(p) PROVE IInv'
  BY <1>3 DEF CarryOut, CallsAreBound, OneWorker, RowsAgree, ActsAgree
<1>4. ASSUME NEW t \in Targets, EndsItself(t) PROVE IInv'
  BY <1>4 DEF EndsItself, CallsAreBound, OneWorker, RowsAgree, ActsAgree
<1>5. ASSUME NEW c \in Calls, NEW p \in Previews, NEW key \in Keys, Begin(c, p, key) PROVE IInv'
  <2>1. aim[p] # None
    BY <1>5 DEF Begin, RowsAgree
  <2>2. call' = [call EXCEPT ![c] = [at |-> "resolving", p |-> p, key |-> key, to |-> route[ConnFor(p)]]]
    BY <1>5 DEF Begin
  <2>3. CallsAreBound' /\ OneWorker'
    BY <1>5, <2>1, <2>2 DEF Begin, CallsAreBound, OneWorker, Working
  <2> QED
    BY <1>5, <2>3 DEF Begin, RowsAgree, ActsAgree
<1>6. ASSUME NEW c \in Calls, call' = [call EXCEPT ![c] = Idle],
             UNCHANGED <<present, previewRows, executions, past, acted>>
      PROVE  IInv'
  <2>1. \A d \in Calls : call'[d] = call[d] \/ call'[d].at = "idle"
    BY <1>6 DEF Idle
  <2>2. CallsAreBound' /\ OneWorker'
    BY <1>6, <2>1 DEF CallsAreBound, OneWorker, Working
  <2> QED
    BY <1>6, <2>2 DEF RowsAgree, ActsAgree
<1>7. ASSUME NEW c \in Calls, NEW s \in {"verified", "unknown", "rejected"}, Record(c, s),
             call[c].at \in Working, s = "rejected" => call[c].at = "claimed"
      PROVE  IInv'
  <2> DEFINE p == call[c].p
  <2>1. p \in Previews /\ state[p] = "claimed" /\ (s = "rejected" => sends[p] = 0)
    BY <1>7 DEF CallsAreBound, Working
  <2>2. call' = [call EXCEPT ![c] = Idle] /\ state' = [state EXCEPT ![p] = s]
        /\ UNCHANGED <<present, aim, seenAt, fresh, keyOf, sends, sentTo, acted>>
    BY <1>7 DEF Record, Leaves
  <2>3. \A d \in Calls : call'[d].at # "idle" => call'[d] = call[d] /\ d # c
    BY <2>2 DEF Idle
  <2>4. \A d \in Calls : d # c /\ call[d].at \in Working => call[d].p # p
    BY <1>7 DEF OneWorker
  <2>5. CallsAreBound'
    BY <2>1, <2>2, <2>3, <2>4 DEF CallsAreBound, Working
  <2>6. OneWorker'
    BY <2>3 DEF OneWorker, Working
  <2>7. RowsAgree'
    BY <2>1, <2>2 DEF RowsAgree
  <2>8. ActsAgree'
    BY <2>2 DEF ActsAgree
  <2> QED
    BY <2>5, <2>6, <2>7, <2>8
<1>8. ASSUME NEW c \in Calls, Claim(c) PROVE IInv'
  <2> DEFINE p == call[c].p
  <2>1. p \in Previews /\ call[c].key \in Keys /\ aim[p] # None /\ state[p] = "none" /\ sends[p] = 0
    BY <1>8 DEF Claim, CallsAreBound, RowsAgree
  <2>2. /\ call' = [call EXCEPT ![c].at = "claimed"] /\ state' = [state EXCEPT ![p] = "claimed"]
        /\ keyOf' = [keyOf EXCEPT ![p] = call[c].key]
        /\ UNCHANGED <<present, aim, seenAt, fresh, sends, sentTo, acted>>
        /\ call[c].to = seenAt[p] /\ \A q \in Previews : keyOf[q] # call[c].key
    BY <1>8 DEF Claim, Goes, Matches, KeyFree
  <2>3. \A d \in Calls : d # c => call'[d] = call[d]
    BY <2>2
  <2>4. call'[c] = [call[c] EXCEPT !.at = "claimed"]
    BY <2>2
  <2>5. /\ call'[c].at = "claimed" /\ call'[c].p = p
        /\ call'[c].key = call[c].key /\ call'[c].to = call[c].to
    BY <2>4 DEF CallType
  <2>6. \A d \in Calls : call[d].at \in Working => call[d].p # p
    BY <2>1 DEF CallsAreBound
  <2>7. CallsAreBound'
    BY <2>1, <2>2, <2>3, <2>5, <2>6 DEF CallsAreBound, Working
  <2>8. OneWorker'
    BY <2>3, <2>5, <2>6 DEF OneWorker, Working
  <2>9. RowsAgree'
    BY <2>1, <2>2 DEF RowsAgree
  <2>10. ActsAgree'
    BY <2>2 DEF ActsAgree
  <2> QED
    BY <2>7, <2>8, <2>9, <2>10
<1>9. ASSUME NEW c \in Calls, NEW s \in {"sent", "accepted"}, Goes(c, s), UNCHANGED executions,
             call[c].at \in Working,
             \A q \in Previews : q # call[c].p => sends'[q] = sends[q]
      PROVE  CallsAreBound' /\ OneWorker'
  <2> DEFINE p == call[c].p
  <2>1. \A d \in Calls : d # c => call'[d] = call[d]
    BY <1>9 DEF Goes
  <2>2. call'[c] = [call[c] EXCEPT !.at = s]
    BY <1>9 DEF Goes
  <2>3. /\ call'[c].at = s /\ call'[c].p = p
        /\ call'[c].key = call[c].key /\ call'[c].to = call[c].to
    BY <2>2 DEF CallType
  <2>4. \A d \in Calls : d # c /\ call[d].at \in Working => call[d].p # p
    BY <1>9 DEF OneWorker
  <2>5. UNCHANGED <<aim, seenAt, state>>
    BY <1>9 DEF Goes
  <2>6. CallsAreBound'
    BY <1>9, <2>1, <2>3, <2>4, <2>5 DEF CallsAreBound, Working
  <2>7. OneWorker'
    BY <1>9, <2>1, <2>3 DEF OneWorker, Working
  <2> QED
    BY <2>6, <2>7
<1>10. ASSUME NEW c \in Calls, Send(c) PROVE IInv'
  <2> DEFINE p == call[c].p
  <2>1. p \in Previews /\ state[p] = "claimed" /\ sends[p] = 0 /\ call[c].to = seenAt[p]
    BY <1>10 DEF Send, CallsAreBound, Working
  <2>2. sends' = [sends EXCEPT ![p] = sends[p] + 1] /\ sentTo' = [sentTo EXCEPT ![p] = call[c].to]
        /\ UNCHANGED <<present, aim, seenAt, fresh, state, keyOf, acted>>
    BY <1>10 DEF Send, Goes
  <2>3. sends'[p] = 1 /\ \A q \in Previews : q # p => sends'[q] = sends[q]
    BY <2>1, <2>2
  <2>4. CallsAreBound' /\ OneWorker'
    BY <1>9, <1>10, <2>3 DEF Send, Working
  <2>5. RowsAgree'
    BY <2>1, <2>2, <2>3 DEF RowsAgree
  <2>6. ActsAgree'
    BY <2>2, <2>3 DEF ActsAgree
  <2> QED
    BY <2>4, <2>5, <2>6
<1>11. ASSUME NEW c \in Calls, Accepted(c) PROVE IInv'
  <2>1. CallsAreBound' /\ OneWorker'
    BY <1>9, <1>11 DEF Accepted, Working
  <2> QED
    BY <2>1, <1>11 DEF Accepted, Goes, RowsAgree, ActsAgree
<1>12. ASSUME NEW c \in Calls, CallStep(c) \/ Die(c) PROVE IInv'
  <2>1. CASE Stops(c) \/ Die(c)
    BY <1>6, <2>1 DEF Stops, Die, Leaves
  <2>2. CASE NotSent(c) \/ Ambiguous(c) \/ Verify(c)
    BY <1>7, <2>2 DEF NotSent, Ambiguous, Verify, Working
  <2> QED
    BY <1>8, <1>10, <1>11, <1>12, <2>1, <2>2 DEF CallStep
<1> QED
  BY <1>1, <1>2, <1>3, <1>4, <1>5, <1>12

\* A change of the connections or accounts leaves every action as it was.
LEMMA RoutedStep ==
  ASSUME TypeOK, IInv, DefaultInv, Routed, UNCHANGED actions
  PROVE  TypeOK' /\ IInv' /\ DefaultInv'
<1>1. BrokerTypeOK' /\ DefaultInv'
  BY BrokerTypeStep, DefaultStep DEF TypeOK
<1>2. TypeOK'
  BY <1>1 DEF TypeOK
<1>3. IInv'
  BY DEF IInv, CallsAreBound, OneWorker, RowsAgree, ActsAgree
<1> QED
  BY <1>1, <1>2, <1>3

\* A step of the actions is one of its disjuncts, beside an unchanged broker.
LEMMA ActionOrRouted ==
  ASSUME Next
  PROVE  \/ Routed /\ UNCHANGED actions
         \/ /\ UNCHANGED broker
            /\ \/ \E p \in Previews : Expire(p) \/ CarryOut(p) \/ \E t \in Targets : Review(p, t)
               \/ \E t \in Targets : EndsItself(t)
               \/ \E c \in Calls : \/ CallStep(c) \/ Die(c)
                                   \/ \E p \in Previews, key \in Keys : Begin(c, p, key)
<1>1. ASSUME NEW c \in Calls, CallStep(c) \/ Die(c) PROVE UNCHANGED broker
  BY <1>1 DEF CallStep, Die, Stops, Claim, NotSent, Send, Ambiguous, Accepted, Verify, Record,
         Leaves, Goes
<1> QED
  BY <1>1 DEF Next, Expire, CarryOut, Review, EndsItself, Begin

\* Nothing has happened in the initial state.
LEMMA Initially ==
  ASSUME Init PROVE TypeOK /\ IInv /\ DefaultInv /\ VerifiedIsGone
<1> USE NoneIsNothing, NoneIsNoAction DEF Init, BrokerInit
<1>1. BrokerTypeOK /\ DefaultInv
  BY DEF BrokerTypeOK, DefaultInv, DefaultAgrees, Statuses, Standings
<1>2. TypeOK
  BY <1>1 DEF TypeOK, Idle, CallType, Stages
<1>3. IInv
  BY DEF IInv, CallsAreBound, OneWorker, RowsAgree, ActsAgree, Idle, Working
<1> QED
  BY <1>1, <1>2, <1>3 DEF VerifiedIsGone

\* The strengthening the theorems below are read from.
LEMMA Invariant == Spec => [](TypeOK /\ IInv /\ DefaultInv)
<1>1. ASSUME TypeOK, IInv, DefaultInv, [Next]_vars
      PROVE  TypeOK' /\ IInv' /\ DefaultInv'
  <2>1. CASE UNCHANGED vars
    BY <1>1, <2>1 DEF TypeOK, BrokerTypeOK, IInv, CallsAreBound, OneWorker, RowsAgree, ActsAgree,
                      DefaultInv, DefaultAgrees
  <2>2. CASE Routed /\ UNCHANGED actions
    BY <1>1, <2>2, RoutedStep
  <2>3. CASE Next /\ ~(Routed /\ UNCHANGED actions)
    <3>1. TypeOK' /\ IInv'
      BY <1>1, <2>3, ActionOrRouted, ActionTypeStep, ActionStep DEF IInv
    <3>2. DefaultInv'
      BY <1>1, <2>3, ActionOrRouted DEF DefaultInv, DefaultAgrees
    <3> QED
      BY <3>1, <3>2
  <2> QED
    BY <1>1, <2>1, <2>2, <2>3
<1> QED
  BY <1>1, Initially, PTL DEF Spec

-----------------------------------------------------------------------------
(* The theorems.                                                            *)

\* Every row, call and ask keeps its type.
THEOREM TypeCorrect == Spec => []TypeOK
<1> QED
  BY Invariant, PTL

\* The default analysis account has a row, and no connection's selection names
\* another account, whatever a handler leaves undone.
THEOREM OneDefault == Spec => []DefaultAgrees
<1>1. DefaultInv => DefaultAgrees
  BY DEF DefaultInv
<1> QED
  BY <1>1, Invariant, PTL

\* A discovery, early or late, forgets no account, re-enables none and moves no
\* default that exists.
THEOREM DiscoveryIsGentle == Spec => DiscoveryPreserves
<1> DEFINE A == /\ \A a \in Accounts : /\ standing[a] # "none" => standing'[a] # "none"
                                       /\ ~enabled[a] => ~enabled'[a]
                /\ default # {} => default' = default \/ selected' # selected
<1>1. ASSUME TypeOK, IInv, DefaultInv, [Next]_vars PROVE [A]_broker
  <2>1. CASE Routed
    BY <1>1, <2>1, DefaultStep DEF TypeOK
  <2>2. CASE UNCHANGED broker
    BY <2>2
  <2> QED
    BY <1>1, <2>1, <2>2, ActionOrRouted
<1> QED
  BY <1>1, Invariant, PTL DEF Spec, DiscoveryPreserves

\* A preview is sent once at most, and a key sends one preview at most.
THEOREM SentAtMostOnce == Spec => []SentOnce
<1>1. TypeOK /\ IInv /\ DefaultInv => SentOnce
  <2> SUFFICES ASSUME TypeOK, IInv PROVE SentOnce
    OBVIOUS
  <2>1. \A p \in Previews : sends[p] > 0 => keyOf[p] # None
    BY DEF IInv, RowsAgree, TypeOK
  <2> QED
    BY <2>1 DEF SentOnce, IInv, RowsAgree
<1> QED
  BY <1>1, Invariant, PTL

\* What is sent goes where its target was reviewed.
THEOREM RoutedSafely == Spec => []RoutedAsReviewed
<1>1. TypeOK /\ IInv /\ DefaultInv => RoutedAsReviewed
  BY DEF RoutedAsReviewed, IInv, RowsAgree
<1> QED
  BY <1>1, Invariant, PTL

\* A verified action's target is gone, and stays gone.
THEOREM VerifiedTargetsAreGone == Spec => []VerifiedIsGone
<1>1. ASSUME TypeOK, IInv, VerifiedIsGone, Next PROVE VerifiedIsGone'
  <2> USE <1>1 DEF TypeOK, VerifiedIsGone
  <2>1. CASE UNCHANGED actions
    BY <2>1
  <2>2. ASSUME NEW p \in Previews, NEW t \in Targets, Review(p, t) PROVE VerifiedIsGone'
    <3>1. state[p] = "none"
      BY <2>2 DEF Review, IInv, RowsAgree
    <3> QED
      BY <2>2, <3>1 DEF Review
  <2>3. CASE (\E p \in Previews : Expire(p) \/ CarryOut(p)) \/ \E t \in Targets : EndsItself(t)
    BY <2>3 DEF Expire, CarryOut, EndsItself
  <2>4. ASSUME NEW c \in Calls, NEW p \in Previews, NEW key \in Keys, Begin(c, p, key)
        PROVE  VerifiedIsGone'
    BY <2>4 DEF Begin
  <2>5. ASSUME NEW c \in Calls, CallStep(c) \/ Die(c) PROVE VerifiedIsGone'
    <3>1. UNCHANGED <<present, aim>>
      BY <2>5 DEF CallStep, Die, Stops, Claim, NotSent, Send, Ambiguous, Accepted, Verify, Record,
                  Leaves, Goes
    <3>2. \A p \in Previews : state'[p] = "verified" => state[p] = "verified" \/ aim[p] \notin present
      BY <2>5 DEF CallStep, Die, Stops, Claim, NotSent, Send, Ambiguous, Accepted, Verify, Record,
                  Leaves, Goes
    <3> QED
      BY <3>1, <3>2
  <2> QED
    BY <2>1, <2>2, <2>3, <2>4, <2>5, ActionOrRouted
<1>2. VerifiedIsGone /\ UNCHANGED vars => VerifiedIsGone'
  BY DEF VerifiedIsGone
<1> QED
  BY <1>1, <1>2, Initially, Invariant, PTL DEF Spec

\* An action is a command as OrderCommand promises it: claimed once, carried
\* out once at most, and rejected only when it never was nor will be.
THEOREM Refinement == Spec => ImplementsCommand
<1> USE DEF Command!CmdNext, Command!cmdVars, Command!ClaimOnce, Command!PlaceOnce,
            Command!Settle, Command!Resolve, Command!Settled
<1>1. Init => Command!CmdInit
  BY DEF Init, Command!CmdInit
<1>2. ASSUME TypeOK, IInv, Next PROVE [Command!CmdNext]_(Command!cmdVars)
  <2> USE <1>2 DEF TypeOK, IInv
  <2>1. CASE UNCHANGED <<state, acted>>
    BY <2>1
  <2>2. ASSUME NEW p \in Previews, CarryOut(p) PROVE Command!PlaceOnce(p)
    BY <2>2 DEF CarryOut, RowsAgree, ActsAgree
  <2>3. ASSUME NEW c \in Calls, Claim(c) PROVE \E p \in Previews : Command!ClaimOnce(p)
    BY <2>3 DEF Claim, Goes, CallsAreBound
  <2>4. ASSUME NEW c \in Calls, NotSent(c) \/ Ambiguous(c) \/ Verify(c)
        PROVE  \E p \in Previews : Command!Settle(p)
    <3>1. call[c].p \in Previews /\ state[call[c].p] = "claimed" /\ UNCHANGED acted
      BY <2>4 DEF NotSent, Ambiguous, Verify, Record, Leaves, CallsAreBound, Working
    <3>2. CASE NotSent(c)
      <4>1. call[c].p \notin acted
        BY <3>1, <3>2 DEF NotSent, CallsAreBound, ActsAgree
      <4> QED
        BY <3>1, <3>2, <4>1 DEF NotSent, Record
    <3>3. CASE Ambiguous(c) \/ Verify(c)
      BY <3>1, <3>3 DEF Ambiguous, Verify, Record
    <3> QED
      BY <2>4, <3>2, <3>3
  <2>5. CASE \E p \in Previews : Expire(p) \/ \E t \in Targets : Review(p, t)
    BY <2>5, <2>1 DEF Expire, Review
  <2>6. CASE \E t \in Targets : EndsItself(t)
    BY <2>6, <2>1 DEF EndsItself
  <2>7. CASE \E c \in Calls : \/ Stops(c) \/ Send(c) \/ Accepted(c) \/ Die(c)
                              \/ \E p \in Previews, key \in Keys : Begin(c, p, key)
    BY <2>7, <2>1 DEF Stops, Send, Accepted, Die, Begin, Leaves, Goes
  <2> QED
    BY <2>1, <2>2, <2>3, <2>4, <2>5, <2>6, <2>7, ActionOrRouted DEF CallStep
<1>3. UNCHANGED vars => UNCHANGED Command!cmdVars
  OBVIOUS
<1> QED
  BY <1>1, <1>2, <1>3, Invariant, PTL DEF Spec, ImplementsCommand, Command!CmdSpec
=============================================================================
