--------------------------- MODULE MCCandleHistory ---------------------------
(***************************************************************************)
(* A small instance of CandleHistory for TLC.                              *)
(***************************************************************************)
EXTENDS CandleHistory

CONSTANTS c1, c2

\* A lookback that tolerates a missing bar, and the bars since the first one.
LatestTwo  == [count |-> 2, first |-> 0, min |-> 1]
SinceFirst == [count |-> 0, first |-> 0, min |-> 1]

MCRequests == {LatestTwo, SinceFirst}
=============================================================================
