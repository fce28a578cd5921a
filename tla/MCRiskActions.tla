---------------------------- MODULE MCRiskActions ----------------------------
(***************************************************************************)
(* A small instance of RiskActions for TLC.                                 *)
(***************************************************************************)
EXTENDS RiskActions, FiniteSets, TLC

CONSTANTS c1, c2, a1, a2, a3, p1, p2

\* Two accounts of the first connection, one of the second; one target, in the
\* first account.
TwoAndOne     == [a \in Accounts |-> IF a = a3 THEN c2 ELSE c1]
FirstAccount  == [t \in Targets |-> a1]

\* Without an action, two accounts of one connection or one of each; with one,
\* the account of its target alone; with two, no discovery under way either.
SecondIdle == status[c2] = "absent" /\ \A k \in Asks : asks[k] # None => asks[k].conn = c1
Reviewed   == {p \in Previews : aim[p] # None}
SmallDesk  == /\ standing[a2] = "none" \/ SecondIdle
              /\ Reviewed # {} => standing[a2] = "none" /\ SecondIdle
              /\ Cardinality(Reviewed) <= 1 \/ \A k \in Asks : asks[k] = None

Symmetry == Permutations(Previews) \cup Permutations(Calls) \cup Permutations(Keys)
              \cup Permutations(Routes)
=============================================================================
