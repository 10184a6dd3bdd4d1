\* ScoreMap.getScoreId answers the game's id.
SPECIFICATION Spec
CONSTANTS
    w1 = w1
    w2 = w2
    w3 = w3
    Workers = {w1, w2}
    Ops <- MapOps
    GameIds = {1, 2}
    PlayerIds = {1}
    Dates = {1}
    Points = {5}
    SeedGames = 2
    SeedPlayers = 1
    MaxInserts = 2
INVARIANT GetScoreIdAnswersScoreId
