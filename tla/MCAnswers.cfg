\* Every request ends although the other worker keeps writing (no symmetry).
SPECIFICATION FairSpec
CONSTANTS
    w1 = w1
    w2 = w2
    w3 = w3
    Workers = {w1, w2}
    Ops <- BoardOps
    GameIds = {1}
    PlayerIds = {1, 2}
    Dates = {1}
    Points = {5}
    SeedGames = 1
    SeedPlayers = 2
    MaxInserts = 3
PROPERTY AllAnswered
