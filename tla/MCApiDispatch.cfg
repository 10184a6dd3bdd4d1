\* Every request shape, every subset of parameters, both kinds of values.
SPECIFICATION Spec
CONSTANT Unknown = "unknown"
INVARIANTS
    TypeOK
    RightArguments
    IdEchoed
    BlameIsRight
    OwnFaultsAreNotOurs
PROPERTY PageNeedsTypeFault
\* The request is answered once.
CHECK_DEADLOCK FALSE
