\* A refused ScoreMap.insert has already replaced the score id.
SPECIFICATION Spec
CONSTANTS
    w1 = w1
    w2 = w2
    w3 = w3
    Workers = {w1, w2}
    Ops <- MapOps
    GameIds = {1}
    PlayerIds = {1}
    Dates = {1}
    Points = {5}
    SeedGames = 1
    SeedPlayers = 1
    MaxInserts = 2
PROPERTY RefusedInsertKeepsMap
