--------------------------- MODULE OrderSubmission ---------------------------
(***************************************************************************)
(* The path of one demo entry order: review writes an approved preview,     *)
(* submit claims it in SQLite, re-reads the account and the broker, checks  *)
(* the controls, posts the order, polls the broker and records the answer;  *)
(* execution_result settles an unknown answer later.                        *)
(*                                                                          *)
(* A Caller is one in-flight call of the API, of an MCP tool or of the      *)
(* scheduler; calls run in several processes that share the database, so    *)
(* they interleave at every database transaction and at every await.  The   *)
(* broker is the environment: a request may be lost, refused, answered      *)
(* late or never, and the order may be accepted after the caller gave up.   *)
(***************************************************************************)
EXTENDS Naturals, FiniteSets

CONSTANTS
  Callers, Previews, Keys, OrderIds,
  None,               \* no preview, no key, no order
  Setups, SetupOf,    \* pair, side, type, lots and prices, all a setup is
  Instruments, InstrumentOf,
  Origin,             \* Origin[p]: "autonomous" or "manual"
  MaxOpenPositions, MaxPendingOrders, MaxNewEntries,   \* the risk settings
  Protections,        \* may the broker book an order without its stops?
  Echoes,             \* may the broker drop the strategyId?
  CallsMayDie,        \* may a process crash or a task be cancelled?
  SwitchesMove,       \* may the owner flip the two switches?
  DocumentsExpire     \* may previews and snapshots run out?

ASSUME NoneIsFresh == /\ None \notin Previews
                      /\ None \notin Keys
                      /\ None \notin OrderIds
ASSUME SetupAssumption == /\ SetupOf \in [Previews -> Setups]
                          /\ InstrumentOf \in [Setups -> Instruments]
                          /\ Origin \in [Previews -> {"autonomous", "manual"}]
ASSUME LimitAssumption == /\ MaxOpenPositions \in Nat
                          /\ MaxPendingOrders \in Nat
                          /\ MaxNewEntries \in Nat
ASSUME ChoiceAssumption == /\ Protections \subseteq BOOLEAN
                           /\ Echoes \subseteq BOOLEAN
                           /\ CallsMayDie \in BOOLEAN
                           /\ SwitchesMove \in BOOLEAN
                           /\ DocumentsExpire \in BOOLEAN

VARIABLES
  kill, demo,                  \* global_autonomous_kill_switch, demo_autonomous_enabled
  preview,                     \* preview[p]: "none", "approved", "submitted"
  previewLive, snapshotLive,   \* expires_at still ahead
  sub, subKey, subOrder, subLinked,   \* broker_submissions: state, key, order, execution_id set
  run,                         \* autonomous_runs: result_status
  wire, reply,                 \* POSTs under way, the broker's answer to them
  owner, book, protected, echoed,     \* the broker's orders
  pc, target, key, seen, response, found, outcome, position, retried  \* the calls

controls   == <<kill, demo>>
documents  == <<preview, previewLive, snapshotLive>>
submission == <<sub, subKey, subOrder, subLinked>>
network    == <<wire, reply>>
broker     == <<owner, book, protected, echoed>>
local      == <<target, key, seen, response, found, outcome, position, retried>>
vars == <<controls, documents, submission, run, network, broker, pc, local>>

Steps == {"idle", "reviewing", "context", "account", "entries", "positions",
          "orders", "sending", "placing", "relogin", "polling", "closing",
          "store", "mark", "record", "link", "late", "lateRun"}

SubStates == {"none", "claimed", "rejected", "verified", "unknown",
              "protection_failure"}
Settled   == {"verified", "unknown", "protection_failure"}

TypeOK ==
  /\ kill \in BOOLEAN /\ demo \in BOOLEAN
  /\ preview \in [Previews -> {"none", "approved", "submitted"}]
  /\ previewLive \in [Previews -> BOOLEAN]
  /\ snapshotLive \in [Previews -> BOOLEAN]
  /\ sub \in [Previews -> SubStates]
  /\ subKey \in [Previews -> Keys \cup {None}]
  /\ subOrder \in [Previews -> OrderIds \cup {None}]
  /\ subLinked \in [Previews -> BOOLEAN]
  /\ run \in [Previews -> Settled \cup {"none"}]
  /\ wire \subseteq Previews
  /\ reply \in [Previews -> {"none", "accepted", "refused", "fault",
                             "unauthorized"}]
  /\ owner \in [OrderIds -> Previews \cup {None}]
  /\ book \in [OrderIds -> {"free", "pending", "position", "closed",
                            "cancelled"}]
  /\ protected \in [OrderIds -> BOOLEAN]
  /\ echoed \in [OrderIds -> BOOLEAN]
  /\ pc \in [Callers -> Steps]
  /\ target \in [Callers -> Previews \cup {None}]
  /\ key \in [Callers -> Keys \cup {None}]
  /\ seen \in [Callers -> SUBSET OrderIds]
  /\ response \in [Callers -> OrderIds \cup {None}]
  /\ found \in [Callers -> OrderIds \cup {None}]
  /\ outcome \in [Callers -> Settled]
  /\ position \in [Callers -> OrderIds \cup {None}]
  /\ retried \in [Callers -> BOOLEAN]

Init ==
  /\ kill = FALSE /\ demo = TRUE
  /\ preview = [p \in Previews |-> "none"]
  /\ previewLive = [p \in Previews |-> TRUE]
  /\ snapshotLive = [p \in Previews |-> TRUE]
  /\ sub = [p \in Previews |-> "none"]
  /\ subKey = [p \in Previews |-> None]
  /\ subOrder = [p \in Previews |-> None]
  /\ subLinked = [p \in Previews |-> FALSE]
  /\ run = [p \in Previews |-> "none"]
  /\ wire = {}
  /\ reply = [p \in Previews |-> "none"]
  /\ owner = [o \in OrderIds |-> None]
  /\ book = [o \in OrderIds |-> "free"]
  /\ protected = [o \in OrderIds |-> TRUE]
  /\ echoed = [o \in OrderIds |-> TRUE]
  /\ pc = [c \in Callers |-> "idle"]
  /\ target = [c \in Callers |-> None]
  /\ key = [c \in Callers |-> None]
  /\ seen = [c \in Callers |-> {}]
  /\ response = [c \in Callers |-> None]
  /\ found = [c \in Callers |-> None]
  /\ outcome = [c \in Callers |-> "unknown"]
  /\ position = [c \in Callers |-> None]
  /\ retried = [c \in Callers |-> FALSE]

-----------------------------------------------------------------------------
\* The owner's switches and the clock.

SetKillSwitch ==
  /\ SwitchesMove
  /\ kill' = ~kill
  /\ UNCHANGED <<demo, documents, submission, run, network, broker, pc, local>>

SetDemoEnabled ==
  /\ SwitchesMove
  /\ demo' = ~demo
  /\ UNCHANGED <<kill, documents, submission, run, network, broker, pc, local>>

ExpirePreview(p) ==
  /\ DocumentsExpire /\ preview[p] # "none" /\ previewLive[p]
  /\ previewLive' = [previewLive EXCEPT ![p] = FALSE]
  /\ UNCHANGED <<controls, preview, snapshotLive, submission, run, network, broker, pc, local>>

ExpireSnapshot(p) ==
  /\ DocumentsExpire /\ snapshotLive[p]
  /\ snapshotLive' = [snapshotLive EXCEPT ![p] = FALSE]
  /\ UNCHANGED <<controls, preview, previewLive, submission, run, network, broker, pc, local>>

-----------------------------------------------------------------------------
\* Shared pieces of a call.

Goto(c, step) == pc' = [pc EXCEPT ![c] = step]

\* The call ends, by a return or an exception, and forgets its locals.
Return(c) ==
  /\ Goto(c, "idle")
  /\ target' = [target EXCEPT ![c] = None]
  /\ key' = [key EXCEPT ![c] = None]
  /\ seen' = [seen EXCEPT ![c] = {}]
  /\ response' = [response EXCEPT ![c] = None]
  /\ found' = [found EXCEPT ![c] = None]
  /\ outcome' = [outcome EXCEPT ![c] = "unknown"]
  /\ position' = [position EXCEPT ![c] = None]
  /\ retried' = [retried EXCEPT ![c] = FALSE]

\* get_autonomous_controls, asked for autonomous previews only.
MayTrade(p) == Origin[p] = "autonomous" => ~kill /\ demo

\* UNIQUE(broker_order_id): NULLs never clash.
OrderIdFree(p, o) == o = None \/ \A q \in Previews \ {p} : subOrder[q] # o

\* An exception of submit after its claim: the row becomes "rejected".
Reject(c) ==
  /\ sub' = [sub EXCEPT ![target[c]] = "rejected"]
  /\ Return(c)
  /\ UNCHANGED <<controls, documents, subKey, subOrder, subLinked, run, wire, broker>>

-----------------------------------------------------------------------------
\* review: check, await the instrument metadata, insert.

HasActivePreview(p) ==
  \E q \in Previews : /\ preview[q] = "approved" /\ previewLive[q]
                      /\ InstrumentOf[SetupOf[q]] = InstrumentOf[SetupOf[p]]

ReviewCheck(c, p) ==
  /\ pc[c] = "idle" /\ preview[p] = "none"
  /\ \A d \in Callers : target[d] # p      \* preview ids are fresh uuids
  /\ MayTrade(p) /\ snapshotLive[p] /\ ~HasActivePreview(p)
  /\ Goto(c, "reviewing")
  /\ target' = [target EXCEPT ![c] = p]
  /\ UNCHANGED <<controls, documents, submission, run, network, broker, key, seen, response, found, outcome, position, retried>>

ReviewInsert(c) ==
  /\ pc[c] = "reviewing"
  /\ preview' = [preview EXCEPT ![target[c]] = "approved"]
  /\ Return(c)
  /\ UNCHANGED <<controls, previewLive, snapshotLive, submission, run, network, broker>>

\* The instrument metadata or the deterministic checks fail; nothing is stored.
ReviewFails(c) ==
  /\ pc[c] = "reviewing"
  /\ Return(c)
  /\ UNCHANGED <<controls, documents, submission, run, network, broker>>

-----------------------------------------------------------------------------
\* submit, up to the POST.

KeyUsed(k) == \E q \in Previews : subKey[q] = k

\* A call that finds a submission of its preview or key returns it or an
\* idempotency_conflict, and changes nothing.
Begin(c, p, k) ==
  /\ pc[c] = "idle" /\ preview[p] = "approved"
  /\ sub[p] = "none" /\ ~KeyUsed(k)
  /\ Goto(c, "context")
  /\ target' = [target EXCEPT ![c] = p]
  /\ key' = [key EXCEPT ![c] = k]
  /\ UNCHANGED <<controls, documents, submission, run, network, broker, seen, response, found, outcome, position, retried>>

\* Slip: the table enforces the key only.
SlipKeyOnlyClaim(p, k) == ~KeyUsed(k)

\* claim_submission: UNIQUE(preview_id) and UNIQUE(idempotency_key) decide.
ClaimFree(p, k) == sub[p] = "none" /\ ~KeyUsed(k)

ClaimWins(c) ==
  LET p == target[c] IN
  /\ pc[c] = "context"
  /\ previewLive[p] /\ snapshotLive[p] /\ ClaimFree(p, key[c])
  /\ sub' = [sub EXCEPT ![p] = "claimed"]
  /\ subKey' = [subKey EXCEPT ![p] = key[c]]
  /\ key' = [key EXCEPT ![c] = None]
  /\ Goto(c, "account")
  /\ UNCHANGED <<controls, documents, subOrder, subLinked, run, network, broker, target, seen, response, found, outcome, position, retried>>

\* The profile context fails, its routing changed, the preview or snapshot
\* expired, or another call holds the claim.
ClaimLoses(c) ==
  /\ pc[c] = "context"
  /\ Return(c)
  /\ UNCHANGED <<controls, documents, submission, run, network, broker>>

\* The forced fresh account status, then the first look at the controls.
CheckAccount(c) ==
  /\ pc[c] = "account" /\ MayTrade(target[c])
  /\ Goto(c, "entries")
  /\ UNCHANGED <<controls, documents, submission, run, network, broker, local>>

\* new_entries_since: the day's runs that are verified or unknown.
NewEntries == Cardinality({p \in Previews : run[p] \in {"verified", "unknown"}})

CheckEntries(c) ==
  /\ pc[c] = "entries" /\ NewEntries < MaxNewEntries
  /\ Goto(c, "positions")
  /\ UNCHANGED <<controls, documents, submission, run, network, broker, local>>

Open    == {o \in OrderIds : book[o] = "position"}
Pending == {o \in OrderIds : book[o] = "pending"}

ReadPositions(c) ==
  /\ pc[c] = "positions"
  /\ seen' = [seen EXCEPT ![c] = Open]
  /\ Goto(c, "orders")
  /\ UNCHANGED <<controls, documents, submission, run, network, broker, target, key, response, found, outcome, position, retried>>

InstrumentTaken(p, orders) ==
  \E o \in orders : InstrumentOf[SetupOf[owner[o]]] = InstrumentOf[SetupOf[p]]

WithinLimits(p, open, pending) ==
  /\ Cardinality(open) < MaxOpenPositions
  /\ Cardinality(pending) < MaxPendingOrders
  /\ ~InstrumentTaken(p, open \cup pending)

\* The order list arrives; the limits, the equivalent order and the last look
\* at the controls follow without an await.
FinalCheck(c) ==
  /\ pc[c] = "orders"
  /\ WithinLimits(target[c], seen[c], Pending) /\ MayTrade(target[c])
  /\ seen' = [seen EXCEPT ![c] = {}]
  /\ Goto(c, "sending")
  /\ UNCHANGED <<controls, documents, submission, run, network, broker, target, key, response, found, outcome, position, retried>>

\* Slip: an exception of the poll is handled like one of a check.
SlipRejectPolled(c) ==
  /\ pc[c] \in {"account", "entries", "positions", "orders", "sending", "relogin", "polling"}
  /\ Reject(c)
  /\ UNCHANGED reply

\* Any check of submit may fail between its claim and the POST: the account,
\* providers, loss limits, price, risk, limits, controls, or a read or login.
CheckFails(c) ==
  /\ pc[c] \in {"account", "entries", "positions", "orders", "sending", "relogin"}
  /\ Reject(c)
  /\ UNCHANGED reply

-----------------------------------------------------------------------------
\* place_order and the broker.

Post(c) ==
  /\ pc[c] = "sending"
  /\ wire' = wire \cup {target[c]}
  /\ Goto(c, "placing")
  /\ UNCHANGED <<controls, documents, submission, run, reply, broker, local>>

\* An answer is lost when no call waits for it any more.
Deliver(p, a) ==
  reply' = [reply EXCEPT ![p] =
              IF \E c \in Callers : pc[c] = "placing" /\ target[c] = p THEN a ELSE "none"]

BrokerAccepts(p, o) ==
  /\ p \in wire /\ owner[o] = None
  /\ wire' = wire \ {p}
  /\ owner' = [owner EXCEPT ![o] = p]
  /\ \E s \in {"pending", "position"}, x \in Protections, e \in Echoes :
       /\ book' = [book EXCEPT ![o] = s]
       /\ protected' = [protected EXCEPT ![o] = x]
       /\ echoed' = [echoed EXCEPT ![o] = e]
  /\ \E a \in {"accepted", "fault", "none"} : Deliver(p, a)
  /\ UNCHANGED <<controls, documents, submission, run, pc, local>>

\* The request dies on the way ("none"), or fails before any order is booked.
BrokerDeclines(p) ==
  /\ p \in wire
  /\ wire' = wire \ {p}
  /\ \E a \in {"none", "refused", "fault", "unauthorized"} : Deliver(p, a)
  /\ UNCHANGED <<controls, documents, submission, run, broker, pc, local>>

Fill(o) ==
  /\ book[o] = "pending"
  /\ book' = [book EXCEPT ![o] = "position"]
  /\ UNCHANGED <<controls, documents, submission, run, network, owner, protected, echoed, pc, local>>

Finish(o) ==
  /\ book[o] \in {"pending", "position"}
  /\ book' = [book EXCEPT ![o] = IF @ = "pending" THEN "cancelled" ELSE "closed"]
  /\ UNCHANGED <<controls, documents, submission, run, network, owner, protected, echoed, pc, local>>

\* The call stops waiting for its POST.
Hear(c) == reply' = [reply EXCEPT ![target[c]] = "none"]

\* HTTP 401: log in again and send the same request once more.
Unauthorized(c) ==
  /\ pc[c] = "placing" /\ reply[target[c]] = "unauthorized" /\ ~retried[c]
  /\ retried' = [retried EXCEPT ![c] = TRUE]
  /\ Hear(c) /\ Goto(c, "relogin")
  /\ UNCHANGED <<controls, documents, submission, run, wire, broker, target, key, seen, response, found, outcome, position>>

LoggedIn(c) ==
  /\ pc[c] = "relogin"
  /\ Goto(c, "sending")
  /\ UNCHANGED <<controls, documents, submission, run, network, broker, local>>

\* Slip: a 5xx answer is taken for a refusal.
SlipFaultRefuses(a) == a \in {"refused", "unauthorized", "fault"}

\* Only a 4xx answer proves that the broker holds no order.
ProvesRefusal(a) == a \in {"refused", "unauthorized"}

\* Slip: a refused order gets an execution record too.
Refused(c) ==
  /\ pc[c] = "placing" /\ ProvesRefusal(reply[target[c]])
  /\ reply[target[c]] = "unauthorized" => retried[c]
  /\ Hear(c) /\ Reject(c)

Answered(c) ==
  /\ pc[c] = "placing" /\ reply[target[c]] = "accepted"
  /\ response' = [response EXCEPT ![c] = CHOOSE o \in OrderIds : owner[o] = target[c]]
  /\ Hear(c) /\ Goto(c, "polling")
  /\ UNCHANGED <<controls, documents, submission, run, wire, broker, target, key, seen, found, outcome, position, retried>>

\* A timeout, at any time, or a 5xx answer: the order may exist.
Ambiguous(c) ==
  /\ pc[c] = "placing"
  /\ Hear(c) /\ Goto(c, "polling")
  /\ UNCHANGED <<controls, documents, submission, run, wire, broker, local>>

-----------------------------------------------------------------------------
\* _poll_reconciliation and _reconcile.

Booked == {o \in OrderIds : owner[o] # None}

\* Slip: the composite match forgets the stops.
SlipLooseComposite(p, o) == SetupOf[owner[o]] = SetupOf[p]

\* Same instrument, side, type, lots and prices; equal prices include the
\* stop loss and the take profit, so an unprotected row never matches.
CompositeMatch(p, o) == SetupOf[owner[o]] = SetupOf[p] /\ protected[o]

\* rows: ids in the order and history lists; open: ids in the position list.
Matches(p, answer, rows, open) ==
  LET byId          == rows \cap {answer}
      byCorrelation == {o \in rows \cup open : owner[o] = p /\ echoed[o]}
      byComposite   == {o \in rows \cup open : CompositeMatch(p, o)}
  IN  IF byId # {} THEN byId
      ELSE IF byCorrelation # {} THEN byCorrelation ELSE byComposite

\* Slip: a row without its stops verifies.
SlipVerifiesBare(p, o) == book[o] # "cancelled" /\ SetupOf[owner[o]] = SetupOf[p]

\* The order was not refused, cancelled or expired, and all its terms match.
Verifies(p, o) == /\ book[o] # "cancelled" /\ protected[o]
                  /\ SetupOf[owner[o]] = SetupOf[p]

\* One of the bounded reads: rows may lag behind the broker or fail to arrive.
Reads(rows, open) == rows \subseteq Booked /\ open \subseteq Open

PollVerifies(c) ==
  /\ pc[c] = "polling"
  /\ \E rows \in SUBSET Booked, open \in SUBSET Open :
       \E o \in Matches(target[c], response[c], rows, open) :
         /\ Verifies(target[c], o)
         /\ found' = [found EXCEPT ![c] = IF o \in rows THEN o ELSE response[c]]
  /\ outcome' = [outcome EXCEPT ![c] = "verified"]
  /\ Goto(c, "store")
  /\ UNCHANGED <<controls, documents, submission, run, network, broker, target, key, seen, response, position, retried>>

\* The attempts are used up without a row at all.
PollFindsNothing(c) ==
  /\ pc[c] = "polling"
  /\ found' = [found EXCEPT ![c] = response[c]]
  /\ Goto(c, "store")
  /\ UNCHANGED <<controls, documents, submission, run, network, broker, target, key, seen, response, outcome, position, retried>>

\* The last attempt found a row that does not verify.  An open position
\* without its stops must be closed, whatever else matched.
PollDiffers(c) ==
  /\ pc[c] = "polling"
  /\ \E rows \in SUBSET Booked, open \in SUBSET Open :
       \E o \in Matches(target[c], response[c], rows, open) :
         /\ ~Verifies(target[c], o)
         /\ found' = [found EXCEPT ![c] = IF o \in rows THEN o ELSE response[c]]
         /\ IF o \in open /\ ~protected[o]
            THEN Goto(c, "closing") /\ position' = [position EXCEPT ![c] = o]
            ELSE Goto(c, "store") /\ UNCHANGED position
  /\ UNCHANGED <<controls, documents, submission, run, network, broker, target, key, seen, response, outcome, retried>>

ClosePosition(o) == book' = [book EXCEPT ![o] = IF @ = "position" THEN "closed" ELSE @]

\* close_position is accepted and the positions are read back; whether the
\* position is gone is noted and changes nothing.
EmergencyClose(c) ==
  /\ pc[c] = "closing"
  /\ ClosePosition(position[c]) \/ UNCHANGED book
  /\ outcome' = [outcome EXCEPT ![c] = "protection_failure"]
  /\ Goto(c, "store")
  /\ UNCHANGED <<controls, documents, submission, run, network, owner, protected, echoed, target, key, seen, response, found, position, retried>>

\* Slip: the failing close escapes the handler.
SlipCloseEscapes(c) ==
  /\ pc[c] = "closing"
  /\ Return(c)
  /\ UNCHANGED <<controls, documents, submission, run, network, broker>>

\* The close or the read after it fails; the broker may have closed anyway.
EmergencyCloseFails(c) ==
  /\ pc[c] = "closing"
  /\ ClosePosition(position[c]) \/ UNCHANGED book
  /\ found' = [found EXCEPT ![c] = None]
  /\ Goto(c, "store")
  /\ UNCHANGED <<controls, documents, submission, run, network, owner, protected, echoed, target, key, seen, response, outcome, position, retried>>

-----------------------------------------------------------------------------
\* Four transactions record the answer.

StoreOutcome(c) ==
  /\ pc[c] = "store" /\ OrderIdFree(target[c], found[c])
  /\ sub' = [sub EXCEPT ![target[c]] = outcome[c]]
  /\ subOrder' = [subOrder EXCEPT ![target[c]] = found[c]]
  /\ found' = [found EXCEPT ![c] = None]
  /\ response' = [response EXCEPT ![c] = None]
  /\ position' = [position EXCEPT ![c] = None]
  /\ retried' = [retried EXCEPT ![c] = FALSE]
  /\ Goto(c, "mark")
  /\ UNCHANGED <<controls, documents, subKey, subLinked, run, network, broker, target, key, seen, outcome>>

\* UNIQUE(broker_order_id) fails: the IntegrityError leaves submit uncaught.
StoreClashes(c) ==
  /\ pc[c] = "store" /\ ~OrderIdFree(target[c], found[c])
  /\ Return(c)
  /\ UNCHANGED <<controls, documents, submission, run, network, broker>>

MarkPreview(c) ==
  /\ pc[c] = "mark"
  /\ preview' = [preview EXCEPT ![target[c]] = "submitted"]
  /\ Goto(c, "record")
  /\ UNCHANGED <<controls, previewLive, snapshotLive, submission, run, network, broker, local>>

RecordRun(c) ==
  /\ pc[c] = "record"
  /\ run' = [run EXCEPT ![target[c]] = outcome[c]]
  /\ Goto(c, "link")
  /\ UNCHANGED <<controls, documents, submission, network, broker, local>>

LinkRun(c) ==
  /\ pc[c] = "link"
  /\ subLinked' = [subLinked EXCEPT ![target[c]] = TRUE]
  /\ Return(c)
  /\ UNCHANGED <<controls, documents, sub, subKey, subOrder, run, network, broker>>

-----------------------------------------------------------------------------
\* execution_result of an unknown run reads the broker once more.

LateBegin(c, p) ==
  /\ pc[c] = "idle" /\ run[p] = "unknown" /\ subLinked[p]
  /\ target' = [target EXCEPT ![c] = p]
  /\ response' = [response EXCEPT ![c] = subOrder[p]]
  /\ Goto(c, "late")
  /\ UNCHANGED <<controls, documents, submission, run, network, broker, key, seen, found, outcome, position, retried>>

LateVerifies(c) ==
  LET p == target[c] IN
  /\ pc[c] = "late"
  /\ \E rows \in SUBSET Booked, open \in SUBSET Open :
       \E o \in Matches(p, response[c], rows, open) :
         LET id == IF o \in rows THEN o ELSE response[c] IN
         /\ Verifies(p, o) /\ OrderIdFree(p, id)
         /\ subOrder' = [subOrder EXCEPT ![p] = id]
  /\ sub' = [sub EXCEPT ![p] = "verified"]
  /\ Goto(c, "lateRun")
  /\ UNCHANGED <<controls, documents, subKey, subLinked, run, network, broker, local>>

LateRun(c) ==
  /\ pc[c] = "lateRun"
  /\ run' = [run EXCEPT ![target[c]] = "verified"]
  /\ Return(c)
  /\ UNCHANGED <<controls, documents, submission, network, broker>>

\* Slip: an unreachable broker closes the question on the run alone.
SlipLateCloses(c) ==
  /\ pc[c] = "late"
  /\ run' = [run EXCEPT ![target[c]] = "verified"]
  /\ Return(c)
  /\ UNCHANGED <<controls, documents, submission, network, broker>>

\* Slip: a read that verifies nothing writes its "unknown" back.
SlipLateWritesBack(c) ==
  /\ pc[c] = "late"
  /\ sub' = [sub EXCEPT ![target[c]] = "unknown"]
  /\ Return(c)
  /\ UNCHANGED <<controls, documents, subKey, subOrder, subLinked, run, network, broker>>

\* Not verified, unreachable, rerouted, or stopped by UNIQUE(broker_order_id).
LateEnds(c) ==
  /\ pc[c] = "late"
  /\ Return(c)
  /\ UNCHANGED <<controls, documents, submission, run, network, broker>>

-----------------------------------------------------------------------------
\* A crash of the process or a cancelled task: no handler runs.
Die(c) ==
  /\ CallsMayDie /\ pc[c] # "idle"
  /\ IF pc[c] = "placing" THEN Hear(c) ELSE UNCHANGED reply
  /\ Return(c)
  /\ UNCHANGED <<controls, documents, submission, run, wire, broker>>

CallStep(c) ==
  \/ ReviewInsert(c) \/ ReviewFails(c)
  \/ ClaimWins(c) \/ ClaimLoses(c)
  \/ CheckAccount(c) \/ CheckEntries(c) \/ ReadPositions(c) \/ FinalCheck(c)
  \/ CheckFails(c) \/ Post(c) \/ Unauthorized(c) \/ LoggedIn(c)
  \/ Refused(c) \/ Answered(c) \/ Ambiguous(c)
  \/ PollVerifies(c) \/ PollFindsNothing(c) \/ PollDiffers(c)
  \/ EmergencyClose(c) \/ EmergencyCloseFails(c)
  \/ StoreOutcome(c) \/ StoreClashes(c) \/ MarkPreview(c) \/ RecordRun(c)
  \/ LinkRun(c)
  \/ LateVerifies(c) \/ LateRun(c) \/ LateEnds(c)

NewCall(c) ==
  \/ \E p \in Previews : ReviewCheck(c, p) \/ LateBegin(c, p)
  \/ \E p \in Previews, k \in Keys : Begin(c, p, k)

Owner == SetKillSwitch \/ SetDemoEnabled

Clock == \E p \in Previews : ExpirePreview(p) \/ ExpireSnapshot(p)

Broker ==
  \/ \E p \in Previews : BrokerDeclines(p) \/ \E o \in OrderIds : BrokerAccepts(p, o)
  \/ \E o \in OrderIds : Fill(o) \/ Finish(o)

Next == \/ Owner \/ Clock \/ Broker
        \/ \E c \in Callers : CallStep(c) \/ NewCall(c) \/ Die(c)

Spec == Init /\ [][Next]_vars

\* Every await of a call ends: the HTTP client, the poll and the account
\* service all have timeouts.
FairSpec == Spec /\ \A c \in Callers : WF_vars(CallStep(c))
-----------------------------------------------------------------------------
\* Correctness.

OrdersOf(p) == {o \in OrderIds : owner[o] = p}

\* Two calls with one preview, whatever their keys and however they die, time
\* out or log in again, never leave two orders at the broker ("submits at most
\* once", docs/tradelocker-demo-execution.md:26).
AtMostOneOrder == \A p \in Previews : Cardinality(OrdersOf(p)) <= 1

\* "rejected" tells the trader that nothing was sent that can still trade:
\* no order is booked and no request is under way that could book one.
RejectedIsTrue ==
  \A p \in Previews : sub[p] = "rejected" => OrdersOf(p) = {} /\ p \notin wire

\* A verified answer rests on an order the broker did accept with these very
\* terms and both stops, although rows are matched by id, tag or terms.
VerifiedIsBacked ==
  \A p \in Previews : sub[p] = "verified" =>
     \E o \in Booked : SetupOf[owner[o]] = SetupOf[p] /\ protected[o]

\* The two records of one submission agree: a run is written only for an
\* answer that is stored, and no run claims more than its submission.
RunAgrees ==
  \A p \in Previews : run[p] # "none" =>
     /\ sub[p] \in Settled /\ preview[p] = "submitted"
     /\ run[p] = sub[p] \/ (run[p] = "unknown" /\ sub[p] = "verified")

\* An answer is final: only "unknown" is ever replaced, and only by
\* "verified", although late reconcilers write without a guard.
AnswerIsFinal ==
  [][\A p \in Previews :
       /\ sub[p] \in {"rejected", "verified", "protection_failure"} => sub'[p] = sub[p]
       /\ sub[p] = "unknown" => sub'[p] \in {"unknown", "verified"}]_vars

\* The emergency close of one submission never closes the position of
\* another, even when rows are matched without id or tag.
EmergencyClosesOwn ==
  [][\A c \in Callers : pc[c] = "closing" /\ book' # book /\ pc'[c] = "store" =>
       owner[position[c]] = target[c]]_vars

\* A call that got past its final check always comes to an end and, unless two
\* setups are alike or calls die, leaves an answer behind.
ClaimIsAnswered ==
  \A p \in Previews : sub[p] = "claimed" ~> sub[p] \in Settled \cup {"rejected"}

\* The submission as the abstract command: its answer and its orders.
Command == INSTANCE OrderCommand WITH outcome <- sub,
             placed <- {p \in Previews : OrdersOf(p) # {}}
ImplementsCommand == Command!CmdSpec

\* Documented, and not what the code does.

\* "any failure after dispatch during reconciliation, is persisted as
\* `unknown`", docs/tradelocker-demo-execution.md:42: a call that ends after
\* its POST does not leave the row "claimed".
FailureAfterDispatchIsStored ==
  [][\A c \in Callers : pc[c] \in {"polling", "closing", "store"} /\ pc'[c] = "idle" =>
       sub'[target[c]] # "claimed"]_vars
=============================================================================
