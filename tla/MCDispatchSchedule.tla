------------------------- MODULE MCDispatchSchedule -------------------------
(***************************************************************************)
(* Small instances of DispatchSchedule for TLC.                             *)
(***************************************************************************)
EXTENDS DispatchSchedule, TLC

CONSTANTS w1, w2, w3

\* The lives of the worker are interchangeable.
Symmetry == Permutations(Workers)
=============================================================================
