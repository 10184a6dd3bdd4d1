------------------------------ MODULE Leaderboard ------------------------------
(***************************************************************************)
(* What the score service promises to a reader of the leaderboard, with no *)
(* requests, ids or hashes: players are enrolled in games, and each game   *)
(* has a board of the scores posted for its enrolled players.  A score on  *)
(* the board belongs to the pair it was posted for and stays there until   *)
(* the same pair posts at the same time again (Post replaces it) or the    *)
(* whole pair starts over (Restart).                                       *)
(***************************************************************************)
CONSTANTS Pairs,   \* pairs <<game, player>>
          Times,   \* the times a score can carry
          Points   \* the values a score can have

VARIABLES enrolled, \* the pairs that have a score map
          board     \* entries [pair, date, score] a leaderboard can show

lvars == <<enrolled, board>>

Entry == [pair : Pairs, date : Times, score : Points]

LInit == enrolled = {} /\ board = {}

Enrol(k) ==
    /\ k \notin enrolled
    /\ enrolled' = enrolled \cup {k}
    /\ UNCHANGED board

Post(k, d, v) ==
    /\ k \in enrolled
    /\ board' = {e \in board : ~(e.pair = k /\ e.date = d)}
                    \cup {[pair |-> k, date |-> d, score |-> v]}
    /\ UNCHANGED enrolled

Restart(k) ==
    /\ k \in enrolled
    /\ board' = {e \in board : e.pair # k}
    /\ UNCHANGED enrolled

LNext ==
    \E k \in Pairs :
        \/ Enrol(k)
        \/ Restart(k)
        \/ \E d \in Times, v \in Points : Post(k, d, v)

LSpec == LInit /\ [][LNext]_lvars
================================================================================
