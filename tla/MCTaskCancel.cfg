\* A running step is cancelled: its commit writes over the cancellation.
CONSTANTS
    f1 = f1
    f2 = f2
    NoFlow = NoFlow
    Flow = {f1}
    Programs <- MCPrograms
    Seconds = 1
    Raising = {}
    MaxCalls = 2
    MaxRestarts = 0
SPECIFICATION Spec
PROPERTY
    CancelSticks
CHECK_DEADLOCK FALSE
