------------------------------- MODULE ScoreList -------------------------------
(***************************************************************************)
(* ScoreList::getTopByGame after the scores are loaded: sort, cut to the   *)
(* first top, number the places.  Scores are known by their index in the   *)
(* loaded list; players and dates play no part.                            *)
(***************************************************************************)
EXTENDS Integers, Sequences, FiniteSets

CONSTANTS Points,    \* values of a score
          Tops,      \* values of top: what clients ask for, 10 for none
          MaxScores  \* bound: scores of the game

ASSUME ListAssumption == Points \subseteq Int /\ Tops \subseteq Int /\ MaxScores \in Nat

VARIABLES loaded, \* the scores in the order they were loaded
          top,
          order,  \* the list: indexes of loaded, sorted and cut
          place,  \* the positions given so far, one for each entry of order
          step

vars == <<loaded, top, order, place, step>>

Init ==
    /\ \E n \in 0 .. MaxScores : loaded \in [1 .. n -> Points]
    /\ top \in Tops
    /\ order = <<>>
    /\ place = <<>>
    /\ step = "load"

Score(j) == loaded[order[j]]

SortScoresAscending(a, b) == \* mutant: swapped
    IF a = b THEN 0 ELSE IF a > b THEN 1 ELSE -1

SortScores(a, b) == IF a = b THEN 0 ELSE IF a > b THEN -1 ELSE 1

\* usort (external): a permutation with no two entries out of order.  It is
\* not stable, so equal scores come in any order.
Sorted(scores) ==
    LET n == Len(scores)
    IN  {f \in [1 .. n -> 1 .. n] :
            /\ \A i, j \in 1 .. n : f[i] = f[j] => i = j
            /\ \A i, j \in 1 .. n : i < j => SortScores(scores[f[i]], scores[f[j]]) <= 0}

Sort ==
    /\ step = "load"
    /\ loaded # <<>>
    /\ order' \in Sorted(loaded)
    /\ step' = "cut"
    /\ UNCHANGED <<loaded, top, place>>

Empty ==
    /\ step = "load"
    /\ loaded = <<>>
    /\ step' = "done"
    /\ UNCHANGED <<loaded, top, order, place>>

\* array_slice(s, 0, t): a negative t leaves out the last -t elements.
SliceLength(n, t) ==
    IF t >= 0 THEN IF t < n THEN t ELSE n ELSE IF n + t > 0 THEN n + t ELSE 0

CutFromEnd == \* mutant: array_slice($scores, -$top)
    /\ step = "cut"
    /\ LET n == Len(order)
       IN  order' = SubSeq(order, n - SliceLength(n, top) + 1, n)
    /\ step' = "resolve"
    /\ UNCHANGED <<loaded, top, place>>

Cut ==
    /\ step = "cut"
    /\ order' = SubSeq(order, 1, SliceLength(Len(order), top))
    /\ step' = "resolve"
    /\ UNCHANGED <<loaded, top, place>>

PositionDense(i) == \* mutant: the place after the last one
    IF i = 1 THEN 1
    ELSE IF Score(i - 1) > Score(i) THEN place[i - 1] + 1 ELSE place[i - 1]

PositionFromZero(i) == \* mutant: $pos starts at 0
    IF i = 1 THEN 0
    ELSE IF Score(i - 1) > Score(i) THEN i ELSE place[i - 1]

\* One round of the loop of resolvePositions: i is its counter, $pos the
\* last place given and $lastScore the score that got it (at first null,
\* which is greater than no score).
Position(i) ==
    IF i = 1 THEN 1
    ELSE IF Score(i - 1) > Score(i) THEN i ELSE place[i - 1]

Resolve ==
    /\ step = "resolve"
    /\ Len(place) < Len(order)
    /\ place' = Append(place, Position(Len(place) + 1))
    /\ UNCHANGED <<loaded, top, order, step>>

Finish ==
    /\ step = "resolve"
    /\ Len(place) = Len(order)
    /\ step' = "done"
    /\ UNCHANGED <<loaded, top, order, place>>

Next == Sort \/ Empty \/ Cut \/ Resolve \/ Finish

Spec == Init /\ [][Next]_vars

----------------------------------------------------------------------------
\* The type invariant.
TypeOK ==
    /\ \E n \in 0 .. MaxScores : loaded \in [1 .. n -> Points]
    /\ top \in Tops
    /\ order \in Seq(1 .. Len(loaded))
    /\ place \in Seq(1 .. Len(loaded))
    /\ Len(place) <= Len(order)
    /\ step \in {"load", "cut", "resolve", "done"}

Better(v) == {k \in 1 .. Len(loaded) : loaded[k] > v}

\* A place is one more than the number of scores of the whole game that are
\* strictly better (1, 2, 2, 4), although the loop sees neighbours of the
\* cut list only; equal scores share a place wherever the sort put them.
PlacesCountBetter ==
    \A j \in 1 .. Len(place) : place[j] = Cardinality(Better(Score(j))) + 1

\* As many as were asked for, or all there are; what a negative top asks for
\* is not said anywhere.
KeptAreEnough ==
    top >= 0 => Len(order) <= top /\ (Len(order) < top => Len(order) = Len(loaded))

\* The cut keeps the best scores: no score left out is better than one that
\* is kept, no score is kept twice, and a list is shorter than asked for only
\* if it has every score of the game.
KeptAreBest ==
    step \in {"resolve", "done"} =>
        /\ KeptAreEnough
        /\ \A i, j \in 1 .. Len(order) : order[i] = order[j] => i = j
        /\ \A k \in 1 .. Len(loaded), j \in 1 .. Len(order) :
              loaded[k] > Score(j) => \E i \in 1 .. j : order[i] = k
================================================================================
