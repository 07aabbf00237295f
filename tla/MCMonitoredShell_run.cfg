SPECIFICATION FairSpec
CONSTANTS
    MaxLines = 2
    Timeout = 2
    Descendants = TRUE
    CallbackRaises = TRUE
INVARIANTS
    TypeOK
    SuccessIsComplete
PROPERTIES
    CallReturnsOrHeld
    ImplementsScriptCall
