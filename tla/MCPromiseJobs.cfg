SPECIFICATION Spec
CONSTANTS
    MaxPromises = 4
    MaxOps = 4
    Handlers <- MCHandlers
INVARIANTS
    TypeOK
    PendingIsOwned
    ContinuationHeld
    ReactionOrder
    NothingLeft
    DrainDepth
PROPERTIES
    SettledForever
    Termination
