\* Two workers insert and read games, players, score maps, scores and leaderboards.
SPECIFICATION Spec
CONSTANTS
    w1 = w1
    w2 = w2
    w3 = w3
    Workers = {w1, w2}
    Ops <- AllOps
    GameIds = {1, 2}
    PlayerIds = {1, 2}
    Dates = {1}
    Points = {5}
    SeedGames = 1
    SeedPlayers = 1
    MaxInserts = 4
SYMMETRY WorkerSymmetry
INVARIANTS
    NewIdsAreFresh
    MapRefs
    AnsweredIdIsOwn
