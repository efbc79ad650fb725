\* A command is cancelled while its device call runs.
CONSTANTS
    halt = halt
    drain = drain
    drive = drive
    turn = turn
    Caller = {halt, drain, drive}
    Urgent = {halt}
    Workers = 3
    MaxCancels = 1
SPECIFICATION Spec
INVARIANT
    PortExclusive
