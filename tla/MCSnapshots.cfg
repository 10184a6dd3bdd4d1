\* Two crashes at any moments, with snapshots at any moments before them.
SPECIFICATION SSpec
CONSTANTS
    w1 = w1
    w2 = w2
    Workers = {w1, w2}
    Ops <- CrashOps
    GameIds = {1}
    PlayerIds = {1, 2}
    Dates = {1, 2}
    Points = {5}
    SeedGames = 1
    SeedPlayers = 1
    MaxInserts = 3
    MaxCrashes = 2
SYMMETRY WorkerSymmetry
INVARIANTS
    STypeOK
    MixingNeedsLateWrite
    SavedKept
