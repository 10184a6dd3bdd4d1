------------------------------- MODULE MCScores -------------------------------
(***************************************************************************)
(* Instances of ScoreService for TLC.                                      *)
(***************************************************************************)
EXTENDS ScoreService, TLC

CONSTANTS w1, w2, w3

\* Operations of the runs: those that write scores and the leaderboard ...
BoardOps == {"scoreMapInsert", "scoreInsert", "getTop"}

\* ... and the score maps alone.
MapOps == {"scoreMapInsert", "scoreMapGet", "getScoreId"}

\* Workers differ in nothing but their names.
WorkerSymmetry == Permutations(Workers)
===============================================================================
