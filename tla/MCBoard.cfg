\* Two workers write scores and read leaderboards of one game.
SPECIFICATION Spec
CONSTANTS
    w1 = w1
    w2 = w2
    w3 = w3
    Workers = {w1, w2}
    Ops <- BoardOps
    GameIds = {1}
    PlayerIds = {1, 2}
    Dates = {1, 2}
    Points = {5, 7}
    SeedGames = 1
    SeedPlayers = 2
    MaxInserts = 4
SYMMETRY WorkerSymmetry
INVARIANTS
    TypeOK
    ScoreIdsUnshared
    OwnScores
    NewIdsAreFresh
    AckedKept
    OneAckPerField
    TopComplete
    TopSound
PROPERTIES
    ImplementsLeaderboard
    StepsLeadToAnswer
