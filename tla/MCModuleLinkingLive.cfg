SPECIFICATION Spec
CONSTANTS
    main = main
    a = a
    b = b
    c = c
    missing = missing
    Modules <- MCModules
    Entry = main
    Missing = {missing}
    Names = {"x", "default"}
    Slots = {"s", "t"}
    Programs <- MCForwarding
    Unresolved = Unresolved
INVARIANT
    LiveBindings
