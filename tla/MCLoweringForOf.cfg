SPECIFICATION Spec
CONSTANTS
    Programs <- NestedPrograms
    MaxAsks = 6
INVARIANT SteppedUntilDone
