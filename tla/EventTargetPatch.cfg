SPECIFICATION Spec
CONSTANTS
    Functions = {f, g}
    Objects = {o}
    MaxAdded = 3
    MaxClicks = 2
    MaxDepth = 2
SYMMETRY Symmetry
INVARIANTS PatchTypeOK WrapperIsFound PendingIsRunning
PROPERTIES ImplementsEventTarget
CHECK_DEADLOCK FALSE
