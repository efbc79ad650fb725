\* A note and an episode, no fault.
SPECIFICATION Spec
CONSTANTS
    Node <- TwoNodes
    Note = {r1}
    Episode = {e1}
    Scope = {home}
    Private = private
    Dial <- OneDials
    InitialGrants <- AllGranted
    Faults = {}
    MaxClauses = 150
    MaxDrift = 1
    MaxCounter = 20
    Writer = {1, 2}
    Edited <- Everybody
    MaxTime = 1
    MaxDeletes = 0
    MaxFaults = 0
    MaxRosterChanges = 0
    MaxBundles = 0
INVARIANTS
    WatermarkSound
