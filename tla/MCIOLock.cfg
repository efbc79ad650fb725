\* An emergency stop, a telemetry drain and two commands on one port, a worker for each, two cancellations.
CONSTANTS
    halt = halt
    drain = drain
    drive = drive
    turn = turn
    Caller = {halt, drain, drive, turn}
    Urgent = {halt}
    Workers = 4
    MaxCancels = 2
SPECIFICATION FairSpec
INVARIANTS
    TypeOK
    ExclusiveUndisturbed
    LaneCounted
PROPERTIES
    UrgentFirst
    StopIsServed
CHECK_DEADLOCK FALSE
