SPECIFICATION Spec
CONSTANT Versions <- MCVersions
INVARIANTS HandlerGetsArgs OutcomeIsHandlers
PROPERTY CallReturns
CHECK_DEADLOCK TRUE
