SPECIFICATION Spec
CONSTANTS
    Sync = {s}
    Async = {a}
    NoGenerator = none
    MaxOps = 6
INVARIANTS
    TypeOK
    BusyOnce
    NoneForgotten
PROPERTIES
    RequestsInLine
