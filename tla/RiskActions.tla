----------------------------- MODULE RiskActions -----------------------------
(***************************************************************************)
(* The risk-reducing actions, cancel an order and close a position:        *)
(* review_action and submit_action of services/autonomous/execution.py and *)
(* their rows in storage/execution.py, over the connections that           *)
(* BrokerAccounts keeps changing meanwhile.                                *)
(*                                                                         *)
(* A target is an order or a position of the account its profile is bound  *)
(* to.  The broker may act on a request long after the caller gave up on   *)
(* it, and a target may also end without us.  review_action changes        *)
(* nothing before it inserts the preview, so it is one step, at the moment *)
(* it reads the connection.                                                *)
(***************************************************************************)
EXTENDS BrokerAccounts

CONSTANTS
  Targets, AccountOf,   \* orders and positions, and their account
  Previews, Keys,       \* action previews and idempotency keys
  Calls                 \* calls of submit_action

ASSUME TargetsHaveAccounts == AccountOf \in [Targets -> Accounts]
ASSUME NoneIsNoAction == None \notin Targets \cup Previews \cup Keys

VARIABLES
  present,              \* the targets the broker still lists
  aim, seenAt, fresh,   \* demo_action_previews: target, routing, not expired
  state, keyOf,         \* demo_action_executions: state, idempotency_key
  call,                 \* where each submit_action is
  sends, sentTo,        \* history: requests sent for a preview, and where
  acted                 \* the previews whose request the broker carried out

previewRows == <<aim, seenAt, fresh>>
executions  == <<state, keyOf>>
past        == <<sends, sentTo>>
actions     == <<present, previewRows, executions, call, past, acted>>
vars        == <<broker, actions>>

ConnFor(p) == ConnOf[AccountOf[aim[p]]]
Idle == [at |-> "idle", p |-> None, key |-> None, to |-> None]
Stages == {"idle", "resolving", "claimed", "sent", "accepted"}
CallType == [at : Stages, p : Previews \cup {None}, key : Keys \cup {None}, to : Routes \cup {None}]

Init ==
  /\ BrokerInit
  /\ present = Targets
  /\ aim = [p \in Previews |-> None]
  /\ seenAt = [p \in Previews |-> None]
  /\ fresh = [p \in Previews |-> FALSE]
  /\ state = [p \in Previews |-> "none"]
  /\ keyOf = [p \in Previews |-> None]
  /\ call = [c \in Calls |-> Idle]
  /\ sends = [p \in Previews |-> 0]
  /\ sentTo = [p \in Previews |-> None]
  /\ acted = {}
-----------------------------------------------------------------------------
Review(p, t) ==
  /\ aim[p] = None /\ t \in present
  /\ Resolves(AccountOf[t])
  /\ aim' = [aim EXCEPT ![p] = t]
  /\ seenAt' = [seenAt EXCEPT ![p] = route[ConnOf[AccountOf[t]]]]
  /\ fresh' = [fresh EXCEPT ![p] = TRUE]
  /\ UNCHANGED <<broker, present, executions, call, past, acted>>

Expire(p) ==
  /\ fresh[p] /\ fresh' = [fresh EXCEPT ![p] = FALSE]
  /\ UNCHANGED <<broker, present, aim, seenAt, executions, call, past, acted>>

\* submit_action up to the await in context(): the profile is resolved again.
Begin(c, p, key) ==
  /\ call[c] = Idle
  /\ fresh[p] /\ Resolves(AccountOf[aim[p]])
  /\ call' = [call EXCEPT ![c] = [at |-> "resolving", p |-> p, key |-> key, to |-> route[ConnFor(p)]]]
  /\ UNCHANGED <<broker, present, previewRows, executions, past, acted>>

Leaves(c) ==
  /\ call' = [call EXCEPT ![c] = Idle]
  /\ UNCHANGED <<broker, present, previewRows, past, acted>>

Goes(c, stage) ==
  /\ call' = [call EXCEPT ![c].at = stage]
  /\ UNCHANGED <<broker, present, previewRows, acted>>

\* The broker is out of reach or no longer lists the account, or the routing
\* is not the reviewed one, or the claim finds a row with the preview or the key.
Stops(c) ==
  /\ call[c].at = "resolving"
  /\ Leaves(c) /\ UNCHANGED executions

Matches(c) == call[c].to = seenAt[call[c].p]
KeyFree(key) == \A q \in Previews : keyOf[q] # key

SlipRoutesAnywhere(c) ==   \* a slip: the routing of the preview is not compared
  /\ call[c].at = "resolving"
  /\ state[call[c].p] = "none" /\ KeyFree(call[c].key)
  /\ state' = [state EXCEPT ![call[c].p] = "claimed"]
  /\ keyOf' = [keyOf EXCEPT ![call[c].p] = call[c].key]
  /\ Goes(c, "claimed") /\ UNCHANGED past

SlipClaimsAgain(c) ==   \* a slip: an upsert in the place of the insert
  /\ call[c].at = "resolving" /\ Matches(c)
  /\ state' = [state EXCEPT ![call[c].p] = "claimed"]
  /\ keyOf' = [keyOf EXCEPT ![call[c].p] = call[c].key]
  /\ Goes(c, "claimed") /\ UNCHANGED past

\* claim_action: one row for a preview, one for a key.
Claim(c) ==
  /\ call[c].at = "resolving" /\ Matches(c)
  /\ state[call[c].p] = "none" /\ KeyFree(call[c].key)
  /\ state' = [state EXCEPT ![call[c].p] = "claimed"]
  /\ keyOf' = [keyOf EXCEPT ![call[c].p] = call[c].key]
  /\ Goes(c, "claimed") /\ UNCHANGED past

Record(c, s) ==
  /\ state' = [state EXCEPT ![call[c].p] = s]
  /\ UNCHANGED keyOf
  /\ Leaves(c)

\* The target is gone, or one of the reads before the request fails.
NotSent(c) == call[c].at = "claimed" /\ Record(c, "rejected")

Send(c) ==
  LET p == call[c].p IN
  /\ call[c].at = "claimed" /\ aim[p] \in present
  /\ sends' = [sends EXCEPT ![p] = @ + 1]
  /\ sentTo' = [sentTo EXCEPT ![p] = call[c].to]
  /\ Goes(c, "sent") /\ UNCHANGED executions

\* A timeout or a refusal of the request itself proves nothing.
SlipBlamesBroker(c) ==   \* a slip: a timeout of the request counts as a refusal
  call[c].at = "sent" /\ Record(c, "rejected")

Ambiguous(c) == call[c].at = "sent" /\ Record(c, "unknown")

Accepted(c) ==
  /\ call[c].at = "sent"
  /\ Goes(c, "accepted") /\ UNCHANGED <<executions, past>>

\* The list is read again; a failed read is as ambiguous as a target still there.
SlipTrustsAnswer(c) ==   \* a slip: an accepted request counts as done
  /\ call[c].at = "accepted"
  /\ Record(c, "verified")

Verify(c) ==
  /\ call[c].at = "accepted"
  /\ \/ aim[call[c].p] \notin present /\ Record(c, "verified")
     \/ Record(c, "unknown")

\* The process stops, or an error that no except clause names.
Die(c) ==
  /\ call[c] # Idle
  /\ Leaves(c) /\ UNCHANGED executions

\* The broker carries out a request that reached it, or a target ends otherwise.
CarryOut(p) ==
  /\ sends[p] > 0 /\ aim[p] \in present
  /\ acted' = acted \cup {p}
  /\ present' = present \ {aim[p]}
  /\ UNCHANGED <<broker, previewRows, executions, call, past>>

EndsItself(t) ==
  /\ t \in present /\ present' = present \ {t}
  /\ UNCHANGED <<broker, previewRows, executions, call, past, acted>>

CallStep(c) ==
  \/ Stops(c) \/ Claim(c) \/ NotSent(c) \/ Send(c)
  \/ Ambiguous(c) \/ Accepted(c) \/ Verify(c)

Next ==
  \/ Routed /\ UNCHANGED actions
  \/ \E p \in Previews : Expire(p) \/ CarryOut(p) \/ \E t \in Targets : Review(p, t)
  \/ \E t \in Targets : EndsItself(t)
  \/ \E c \in Calls : \/ CallStep(c) \/ Die(c)
                      \/ \E p \in Previews, key \in Keys : Begin(c, p, key)

Spec == Init /\ [][Next]_vars
-----------------------------------------------------------------------------
TypeOK ==
  /\ BrokerTypeOK
  /\ present \subseteq Targets
  /\ aim \in [Previews -> Targets \cup {None}]
  /\ seenAt \in [Previews -> Routes \cup {None}]
  /\ fresh \in [Previews -> BOOLEAN]
  /\ state \in [Previews -> {"none", "claimed", "verified", "unknown", "rejected"}]
  /\ keyOf \in [Previews -> Keys \cup {None}]
  /\ call \in [Calls -> CallType]
  /\ sends \in [Previews -> Nat]
  /\ sentTo \in [Previews -> Routes \cup {None}]
  /\ acted \subseteq Previews

\* docs/tradelocker-multi-account.md:62, "durable user-scoped idempotency" and
\* "never blindly retried": a preview is sent once at most however often it is
\* submitted, and a key that sent one preview sends no other.
SentOnce ==
  /\ \A p \in Previews : sends[p] <= 1
  /\ \A p, q \in Previews : keyOf[p] = keyOf[q] /\ sends[p] > 0 /\ sends[q] > 0 => p = q

\* The request goes where the target was reviewed, although the credentials of
\* the connection may be replaced at any await in between.
RoutedAsReviewed == \A p \in Previews : sends[p] > 0 => sentTo[p] = seenAt[p]

\* "reconcile by confirming that the target disappeared": verified is true and
\* remains so.
VerifiedIsGone == \A p \in Previews : state[p] = "verified" => aim[p] \notin present

\* The action as the abstract command OrderSubmission implements too.
Command == INSTANCE OrderCommand WITH outcome <- state, placed <- acted
ImplementsCommand == Command!CmdSpec
=============================================================================
