SPECIFICATION Spec
CONSTANTS
    Programs <- MCPrograms
    MaxAsks = 6
INVARIANTS
    CodeVerified
    CaptureChains
    StackBalanced
    HandlersNest
    TraceAgrees
    EarlyErrorsAgree
