------------------------ MODULE MCAutonomousControls ------------------------
(***************************************************************************)
(* Small instances of AutonomousControls for TLC.                          *)
(***************************************************************************)
EXTENDS AutonomousControls, TLC

CONSTANTS c1, c2, c3, k1, p1, p2

\* Previews are interchangeable, and so are the workers of the scheduler.
Symmetry == Permutations(Previews) \cup Permutations(Schedulers)
=============================================================================
