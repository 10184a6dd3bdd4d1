------------------------------ MODULE MCScoreList ------------------------------
(***************************************************************************)
(* Instance of ScoreList for TLC.                                          *)
(***************************************************************************)
EXTENDS ScoreList

\* Fewer, as many and more than there are scores, and cuts from the end.
SmallTops == {-5, -1, 0, 1, 2, 3, 10}
================================================================================
