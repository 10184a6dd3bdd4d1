-------------------------------- MODULE MCInitDb --------------------------------
(***************************************************************************)
(* Instance of InitDb for TLC: lists with the shape of those in the source *)
(* (the first score map is of the last game and the last player it names,  *)
(* a score is listed twice, one score map has no scores).                  *)
(***************************************************************************)
EXTENDS InitDb

CONSTANTS w1, w2

ListedMaps == << <<2, 2>>, <<1, 1>> >>
ListedScores == << << <<2, 2>>, 5>>, << <<2, 2>>, 5>> >>
================================================================================
