SPECIFICATION Spec
CONSTANTS
    Texts <- MCTexts
    Inputs <- MCInputs
    Calls <- MCCalls
    Compiled <- CompiledTree
INVARIANT PreferredWay
