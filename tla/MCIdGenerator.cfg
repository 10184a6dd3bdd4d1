\* Four calls on two tables, with both client libraries.
SPECIFICATION Spec
CONSTANTS
    Calls = {c1, c2, c3, c4}
    Tables = {games, players}
    Misses = {"false", "null"}
INVARIANTS
    TypeOK
    IdsUnique
    ClashNeedsReset
\* The calls are made once each.
CHECK_DEADLOCK FALSE
