----------------------------- MODULE EntrySizing -----------------------------
(***************************************************************************)
(* How much an entry may lose: the snapshot, the size of the preview and   *)
(* the checks of submit in services/autonomous/execution.py, with          *)
(* build_capital_state of services/trading_policy.py and                   *)
(* profile_broker_ids of storage/execution.py, while the owner changes the *)
(* profiles of ProfileCapital.                                             *)
(*                                                                         *)
(* An entry is one proposal with its snapshot, preview and submission, on  *)
(* an instrument of its own; OrderSubmission models how a submission is    *)
(* claimed and settled.  What the broker reports (equity, quotes) is any   *)
(* value of a small set at each read.  A unit is the loss of one lot at    *)
(* the stop: price risk, spread, contract, conversion and commission.      *)
(* Rates are thousandths.  The broker reports no margin or risk of its own *)
(* for an order: what it reports can only refuse more.                     *)
(***************************************************************************)
EXTENDS ProfileCapital

CONSTANTS
  Entries, OwnerOf,           \* the profile an entry is for
  Units, Profits,             \* losses of a lot; realized profits of a profile
  Rate, TotalRate,            \* risk_per_trade, maximum_total_open_risk
  MarginRate, MarginOfLot,    \* maximum_margin_utilization; margin of a lot
  Step, MinLots, MaxLots,     \* the broker's quantities
  MaxOpenPositions

ASSUME EntriesHaveOwners == OwnerOf \in [Entries -> Profiles]
ASSUME SizesArePositive == /\ Units \subseteq Nat \ {0} /\ Profits \subseteq Int
                           /\ Step \in Nat \ {0} /\ MinLots \in Nat \ {0}
                           /\ MaxLots \in Nat /\ MarginOfLot \in Nat
                           /\ MaxOpenPositions \in Nat
ASSUME RatesAreThousandths == {Rate, TotalRate, MarginRate} \subseteq 0..1000

VARIABLES
  entry,          \* what snapshot, preview and the call of submit hold
  record,         \* broker_submissions: "held" is verified with a position id
  book,           \* the order at the broker
  tally           \* history: the orders of its profile that were past their
                  \* budget check at the entry's own, and those this one missed

vars == <<profiles, entry, record, book, tally>>

Stages == {"none", "snapping", "snapped", "reviewed", "checking", "quoting",
           "reading", "sent", "done"}
\* base, room: risk_base_amount, remaining_margin_budget; loss: of the lots at
\* the last quote; budget: what the profile's positions may lose in all.
EntryType == [at : Stages, ctx : AllocationType, base : Nat, room : Nat, lots : Nat,
              risk : Nat, unit : Nat, equity : Nat, loss : Nat, budget : Nat]
NoEntry == [at |-> "none", ctx |-> Default, base |-> 0, room |-> 0, lots |-> 0,
            risk |-> 0, unit |-> 0, equity |-> 0, loss |-> 0, budget |-> 0]

Init ==
  /\ ProfileInit
  /\ entry = [e \in Entries |-> NoEntry]
  /\ record = [e \in Entries |-> "none"]
  /\ book = [e \in Entries |-> "none"]
  /\ tally = [e \in Entries |-> [past |-> {}, missed |-> {}]]
-----------------------------------------------------------------------------
\* build_capital_state.
Left(x, used) == IF x > used THEN x - used ELSE 0
BaseOf(q, a, pnl) == IF a.onCapital THEN Authorized(q, a, pnl) ELSE q
MarginBudget(q, a, pnl) == (Authorized(q, a, pnl) * MarginRate) \div 1000
RiskBudget(q, a) == (Authorized(q, a, 0) * TotalRate) \div 1000

\* profile_broker_ids: what the recorded positions of a profile were sized for.
HeldBy(p) == {e \in Entries : OwnerOf[e] = p /\ record[e] = "held"}
SlipForgetsRows(p) == 0   \* a slip: only what the broker reports counts
RiskOf(S) == SumFunctionOnSet([e \in Entries |-> entry[e].risk], S)
OwnedRisk(p) == RiskOf(HeldBy(p))
OwnedMargin(p) == MarginOfLot * SumFunctionOnSet([e \in Entries |-> entry[e].lots], HeldBy(p))

\* The orders of a profile that passed their last check: they are sent, or were.
Passed(e) == entry[e].at = "sent" \/ record[e] # "none"
PassedBy(p) == {e \in Entries : OwnerOf[e] = p /\ Passed(e)}

\* calculate_broker_position_size: whole steps, rounded down.  The code divides
\* floats, and may so lose a step where the quotient is whole.
SlipNearest(base, unit) ==   \* a slip: to the nearest step
  ((base * Rate + 500 * unit * Step) \div (1000 * unit * Step)) * Step
LotsFor(base, unit) == ((base * Rate) \div (1000 * unit * Step)) * Step

OpenPositions == {e \in Entries : book[e] = "open"}
-----------------------------------------------------------------------------
Moves(e, new) ==
  /\ entry' = [entry EXCEPT ![e] = new]
  /\ UNCHANGED <<profiles, record, book>>

\* context() awaits the broker after it read the profile.
BeginSnapshot(e) ==
  /\ entry[e].at = "none" /\ Resolves(OwnerOf[e])
  /\ Moves(e, [NoEntry EXCEPT !.at = "snapping", !.ctx = alloc[OwnerOf[e]]])
  /\ UNCHANGED tally

Snapshot(e) ==
  \E q \in Equities, pnl \in Profits :
    LET p == OwnerOf[e]  a == entry[e].ctx IN
    /\ entry[e].at = "snapping"
    /\ Cardinality(OpenPositions) < MaxOpenPositions /\ Fits(p, q)
    /\ Moves(e, [entry[e] EXCEPT !.at = "snapped", !.base = BaseOf(q, a, pnl),
                   !.room = Left(MarginBudget(q, a, pnl), OwnedMargin(p))])
    /\ UNCHANGED tally

Review(e) ==
  \E unit \in Units :
    LET lots == LotsFor(entry[e].base, unit) IN
    /\ entry[e].at = "snapped" /\ Resolves(OwnerOf[e])
    /\ MinLots <= lots /\ lots <= MaxLots
    /\ lots * MarginOfLot <= entry[e].room
    /\ Moves(e, [entry[e] EXCEPT !.at = "reviewed", !.lots = lots, !.unit = unit, !.risk = lots * unit])
    /\ UNCHANGED tally

\* submit reads the profile anew, and awaits the account.
Submit(e) ==
  LET p == OwnerOf[e] IN
  /\ entry[e].at = "reviewed" /\ Resolves(p)
  /\ Moves(e, [NoEntry EXCEPT !.at = "checking", !.ctx = alloc[p],
                 !.lots = entry[e].lots, !.risk = entry[e].risk])
  /\ UNCHANGED tally

CheckAccount(e) ==
  \E q \in Equities :
    /\ entry[e].at = "checking" /\ Fits(OwnerOf[e], q)
    /\ Moves(e, [entry[e] EXCEPT !.at = "quoting", !.equity = q])
    /\ UNCHANGED tally

CheckRisk(e) ==
  \E unit \in Units :
    LET loss == entry[e].lots * unit IN
    /\ entry[e].at = "quoting"
    /\ loss * 1000 <= BaseOf(entry[e].equity, entry[e].ctx, 0) * Rate
    /\ Moves(e, [entry[e] EXCEPT !.at = "reading", !.loss = loss])
    /\ UNCHANGED tally

\* The positions and the rows of the profile, and then the POST.
CheckBudget(e) ==
  LET p == OwnerOf[e]  q == entry[e].equity  a == entry[e].ctx IN
  /\ entry[e].at = "reading"
  /\ Cardinality(OpenPositions) < MaxOpenPositions
  /\ entry[e].lots * MarginOfLot <= Left(MarginBudget(q, a, 0), OwnedMargin(p))
  /\ entry[e].risk <= Left(RiskBudget(q, a), OwnedRisk(p))
  /\ Moves(e, [entry[e] EXCEPT !.at = "sent", !.budget = RiskBudget(q, a)])
  /\ tally' = [tally EXCEPT ![e] = [past |-> PassedBy(p), missed |-> PassedBy(p) \ HeldBy(p)]]

\* Any other gate, an error of the broker or an expiry ends the entry: a read of
\* the snapshot, a rule of the review, a check of the submission.
EndsAt(e, stages) ==
  /\ entry[e].at \in stages
  /\ Moves(e, [NoEntry EXCEPT !.at = "done"])
  /\ UNCHANGED tally

SnapshotFails(e) == EndsAt(e, {"snapping"})
ReviewRejects(e) == EndsAt(e, {"snapped"})
SubmitRejects(e) == EndsAt(e, {"reviewed", "checking", "quoting", "reading"})

\* Reconciliation: a position, a pending order, or nothing it could match.
Found(e, as) ==
  /\ \/ book[e] = "open" /\ as = "held"
     \/ book[e] = "pending" /\ as = "pending"
  /\ record' = [record EXCEPT ![e] = as]
  /\ UNCHANGED <<profiles, book, tally>>

Record(e) ==
  /\ entry[e].at = "sent"
  /\ entry' = [entry EXCEPT ![e] = [NoEntry EXCEPT !.at = "done", !.lots = entry[e].lots,
                                     !.risk = entry[e].risk, !.budget = entry[e].budget]]
  /\ \/ \E as \in {"held", "pending"} : Found(e, as)
     \/ record' = [record EXCEPT ![e] = "unknown"] /\ UNCHANGED <<profiles, book, tally>>

\* execution_result looks for an unknown order again.
ExecutionResult(e) ==
  /\ record[e] = "unknown" /\ Resolves(OwnerOf[e])
  /\ \E as \in {"held", "pending"} : Found(e, as)
  /\ UNCHANGED entry

\* The broker fills an order, or rests it; either may end.
Broker(e) ==
  /\ entry[e].at = "sent" \/ record[e] # "none"
  /\ \E from \in {"none", "pending", "open"} :
       /\ book[e] = from
       /\ \E to \in (CASE from = "none" -> {"pending", "open"}
                       [] from = "pending" -> {"open", "gone"}
                       [] from = "open" -> {"gone"}) : book' = [book EXCEPT ![e] = to]
  /\ UNCHANGED <<profiles, entry, record, tally>>

EntryStep(e) ==
  \/ BeginSnapshot(e) \/ Snapshot(e) \/ SnapshotFails(e)
  \/ Review(e) \/ ReviewRejects(e)
  \/ Submit(e) \/ CheckAccount(e) \/ CheckRisk(e) \/ CheckBudget(e) \/ SubmitRejects(e)
  \/ Record(e) \/ ExecutionResult(e) \/ Broker(e)

Next ==
  \/ ProfileStep /\ UNCHANGED <<entry, record, book, tally>>
  \/ \E e \in Entries : EntryStep(e)

Spec == Init /\ [][Next]_vars
-----------------------------------------------------------------------------
TypeOK ==
  /\ ProfileTypeOK
  /\ entry \in [Entries -> EntryType]
  /\ record \in [Entries -> {"none", "held", "pending", "unknown"}]
  /\ book \in [Entries -> {"none", "pending", "open", "gone"}]
  /\ tally \in [Entries -> [past : SUBSET Entries, missed : SUBSET Entries]]

\* docs/tradelocker-multi-account.md:58, "rounds down": the size of a preview is
\* the largest number of whole steps whose loss stays within the rate.
SizeIsLargest ==
  \A e \in Entries : entry[e].at = "reviewed" =>
    /\ entry[e].lots % Step = 0
    /\ entry[e].risk * 1000 <= entry[e].base * Rate
    /\ entry[e].base * Rate < (entry[e].lots + Step) * entry[e].unit * 1000

\* docs/tradelocker-multi-account.md:58, "Risk per trade has a hard 1% ceiling":
\* an order that is sent loses at the quote submit read no more than the rate of
\* the equity submit read, however large the capital saved for the profile, and
\* whatever the profile was when the order was sized.
LossWithinRate ==
  \A e \in Entries : entry[e].at = "sent" =>
    entry[e].loss * 1000 <= entry[e].equity * Rate

\* maximum_total_open_risk: the open positions of a profile, as they were sized,
\* exceed the budget of the one that was checked last by no more than those of
\* them its check could not count: orders that had passed their own check and
\* were still unanswered, unknown, or recorded as pending.
OverrunIsUncounted ==
  \A p \in Profiles :
    LET open == {e \in OpenPositions : OwnerOf[e] = p} IN
    open # {} => \E e \in open :
      /\ open \subseteq tally[e].past \cup {e}
      /\ RiskOf(open) <= entry[e].budget + RiskOf(open \cap tally[e].missed)
=============================================================================
