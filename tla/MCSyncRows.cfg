\* One note saved and deleted, one dialler, a bundle, one full disk or failed
\* row write; physical clocks up to one unit apart, a unit being longer
\* than the drift bound.
SPECIFICATION Spec
CONSTANTS
    Node <- TwoNodes
    Note = {r1}
    Episode = {}
    Scope = {home}
    Private = private
    Dial <- OneDials
    InitialGrants <- AllGranted
    Faults = {"diskfull", "materialize"}
    MaxClauses = 150
    MaxDrift = 0
    MaxCounter = 20
    Writer = {1, 2}
    Edited <- Everybody
    MaxTime = 2
    MaxDeletes = 1
    MaxFaults = 1
    MaxRosterChanges = 0
    MaxBundles = 1
INVARIANTS
    TypeOK
    LogsWithinDrift
    LastWriterWinsUndisturbed
    DeletesInheritScope
    WatermarkAccounted
