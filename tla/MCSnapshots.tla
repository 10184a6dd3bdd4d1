------------------------------ MODULE MCSnapshots ------------------------------
(***************************************************************************)
(* Instance of Snapshots for TLC.                                          *)
(***************************************************************************)
EXTENDS Snapshots, TLC

CONSTANTS w1, w2

\* Inserts of players, score maps and scores: what a crash can mix up.
CrashOps == {"playerInsert", "scoreMapInsert", "scoreInsert"}

\* Workers differ in nothing but their names.
WorkerSymmetry == Permutations(Workers)
================================================================================
