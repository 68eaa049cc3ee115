SPECIFICATION Spec
CONSTANTS
    Texts <- MCTexts
    Inputs <- MCInputs
    Calls <- MCCalls
    Compiled <- CompiledTree
INVARIANTS
    ReadAlike
    WellCompiled
    OneThreadPerInstruction
    LeftmostLongest
    MatchAgrees
    GlobalMatches
