SPECIFICATION Spec
CONSTANTS
    m1 = m1
    m2 = m2
    m3 = m3
    json = json
    Modules <- MCModules
    Entry = m1
    Graphs <- MCGraphs
    Json = {json}
    MayAwait = {m1, m2, m3}
    MayThrow = {}
    MayImport = {}
    Importable = {}
    Unresolved = Unresolved
    MaxImports = 0
    MaxAwaits = 1
    MaxJobs = 0
PROPERTY
    DependencyOrder
