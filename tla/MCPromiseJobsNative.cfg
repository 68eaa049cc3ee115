SPECIFICATION Spec
CONSTANTS
    MaxPromises = 3
    MaxOps = 3
    Handlers <- MCHandlers
PROPERTY
    HandlerErrorRejects
