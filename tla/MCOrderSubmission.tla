-------------------------- MODULE MCOrderSubmission --------------------------
(***************************************************************************)
(* Small instances of OrderSubmission for TLC.                              *)
(***************************************************************************)
EXTENDS OrderSubmission, TLC

CONSTANTS c1, c2, p1, p2, k1, k2, o1, o2, setupA, setupB, eurusd, gbpusd

AlikeSetups    == [p \in Previews |-> setupA]
DistinctSetups == [p \in Previews |-> IF p = p1 THEN setupA ELSE setupB]
OneInstrument  == [s \in Setups |-> eurusd]
TwoInstruments == [s \in Setups |-> IF s = setupA THEN eurusd ELSE gbpusd]
AllAutonomous  == [p \in Previews |-> "autonomous"]
AllManual      == [p \in Previews |-> "manual"]

OnlyTrue == {TRUE}
OnlyFalse == {FALSE}
AnyBool  == BOOLEAN

\* Callers, keys and the broker's order numbers are interchangeable.
Symmetry == Permutations(Callers) \cup Permutations(Keys) \cup Permutations(OrderIds)
=============================================================================
