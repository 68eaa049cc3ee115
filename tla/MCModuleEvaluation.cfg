SPECIFICATION Spec
CONSTANTS
    m1 = m1
    m2 = m2
    m3 = m3
    json = json
    Modules <- MCModules
    Entry = m1
    Graphs <- MCGraphs
    Json = {json}
    MayAwait = {m1, m2, m3}
    MayThrow = {m2}
    MayImport = {m1}
    Importable = {m1, m2, m3, Unresolved}
    Unresolved = Unresolved
    MaxImports = 2
    MaxAwaits = 1
    MaxJobs = 1
INVARIANTS
    TypeOK
    PendingCountsParents
    BodyOnce
    PendingImportIsHeld
    SettledImportAgrees
    StuckMeansNothingRunnable
PROPERTIES
    StartOrder
    Termination
