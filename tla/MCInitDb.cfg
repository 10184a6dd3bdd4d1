\* Two runs of the client with three faults, flushed in between or not.
SPECIFICATION ISpec
CONSTANTS
    w1 = w1
    w2 = w2
    Workers = {w1, w2}
    Ops <- Inserts
    GameIds = {1, 2}
    PlayerIds = {1, 2}
    Dates = {1, 2}
    Points = {5}
    SeedGames = 0
    SeedPlayers = 0
    MaxInserts = 16
    Games = 2
    Players = 2
    ScoreMaps <- ListedMaps
    ScoreList <- ListedScores
    Nobody = Nobody
    MaxRuns = 2
    MaxFaults = 2
INVARIANTS
    ITypeOK
    FinishedIsSeeded
    ScoresSeededOnce
PROPERTY RunEnds
\* The operator does not start the client for ever.
CHECK_DEADLOCK FALSE
