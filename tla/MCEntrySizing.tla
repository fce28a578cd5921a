---------------------------- MODULE MCEntrySizing ----------------------------
(***************************************************************************)
(* Small instances of EntrySizing for TLC.                                 *)
(***************************************************************************)
EXTENDS EntrySizing, TLC

CONSTANTS p1, p2, e1, e2

Saved(mode, value) == [Default EXCEPT !.mode = mode, !.value = value, !.onCapital = TRUE]
MCAllocations ==
  {Default, Saved("equity_percentage", 60), Saved("equity_percentage", 40),
   [Saved("fixed_amount", 300) EXCEPT !.compounds = TRUE],
   [Saved("fixed_amount", 900) EXCEPT !.shared = TRUE]}
MCOwnerOf == [e \in Entries |-> p1]
SymmetryOfEntries == Permutations(Entries)
MCProfits == {-200, 100}
=============================================================================
