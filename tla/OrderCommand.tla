---------------------------- MODULE OrderCommand ----------------------------
(***************************************************************************)
(* What one approved preview promises to the trader, seen from outside: it  *)
(* is claimed once, it puts at most one order on the broker's books, the    *)
(* answer "rejected" is a truth that stays true, and an answer "unknown"    *)
(* may later be settled as "verified" and in no other way.  OrderSubmission *)
(* is the code that implements it.                                          *)
(***************************************************************************)

CONSTANT Previews      \* the approved previews

VARIABLES outcome,     \* outcome[p]: the durable answer recorded for p
          placed       \* the previews whose order the broker has accepted

cmdVars == <<outcome, placed>>

Settled == {"rejected", "verified", "unknown", "protection_failure"}

CmdInit == /\ outcome = [p \in Previews |-> "none"]
           /\ placed = {}

\* The durable claim that precedes every call of the broker.
ClaimOnce(p) == /\ outcome[p] = "none"
                /\ outcome' = [outcome EXCEPT ![p] = "claimed"]
                /\ UNCHANGED placed

\* The broker accepts the order, perhaps long after the caller gave up on it.
PlaceOnce(p) == /\ outcome[p] \notin {"none", "rejected"}
                /\ p \notin placed
                /\ placed' = placed \cup {p}
                /\ UNCHANGED outcome

\* The claimant records the answer; it may say "rejected" only of an order
\* that was not placed.
Settle(p) == /\ outcome[p] = "claimed"
             /\ \E s \in Settled :
                  /\ s = "rejected" => p \notin placed
                  /\ outcome' = [outcome EXCEPT ![p] = s]
             /\ UNCHANGED placed

\* A later read of the broker turns an open question into a verified order.
Resolve(p) == /\ outcome[p] = "unknown"
              /\ outcome' = [outcome EXCEPT ![p] = "verified"]
              /\ UNCHANGED placed

CmdNext == \E p \in Previews :
              ClaimOnce(p) \/ PlaceOnce(p) \/ Settle(p) \/ Resolve(p)

CmdSpec == CmdInit /\ [][CmdNext]_cmdVars
=============================================================================
