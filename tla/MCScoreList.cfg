\* Every list of at most four scores, every order of ties, every cut.
SPECIFICATION Spec
CONSTANTS
    Points = {0, 5, 7}
    Tops <- SmallTops
    MaxScores = 4
INVARIANTS
    TypeOK
    PlacesCountBetter
    KeptAreBest
\* The list is made once.
CHECK_DEADLOCK FALSE
