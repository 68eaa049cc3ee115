SPECIFICATION Spec
CONSTANTS
    main = main
    a = a
    b = b
    c = c
    missing = missing
    Modules <- MCModules
    Entry = main
    Missing = {missing}
    Names = {"x", "default"}
    Slots = {"s", "t"}
    Programs <- MCPrograms
    Unresolved = Unresolved
INVARIANTS
    TypeOK
    LiveUnlessForwarded
    LinkVerdict
    NamespaceExact
    DynamicAligned
    PartialIsReported
PROPERTIES
    LinkOrder
    Termination
