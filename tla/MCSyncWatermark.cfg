\* A note and its delete, by a brain at one end of a relay or by the relay, one
\* restart or failed row write: watermarks, and rows across restarts.
SPECIFICATION OrderlySpec
CONSTANTS
    Node <- ThreeNodes
    Note = {r1}
    Episode = {}
    Scope = {home}
    Private = private
    Dial <- Relay
    InitialGrants <- AllGranted
    Faults = {"crash", "materialize"}
    MaxClauses = 150
    MaxDrift = 1
    MaxCounter = 20
    Writer = {1, 2}
    Edited <- Everybody
    MaxTime = 1
    MaxDeletes = 1
    MaxFaults = 1
    MaxRosterChanges = 0
    MaxBundles = 0
INVARIANTS
    WatermarkSound
    LastWriterWinsUndisturbed
