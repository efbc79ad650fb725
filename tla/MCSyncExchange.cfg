\* One episode saved and deleted by brain 1, which are two operations of one
\* origin, a relay that brain 3 has not agreed with, one change of a roster on
\* the link to brain 3, and one fault: a refused append, a broken session or a
\* restart.
SPECIFICATION FairSpec
CONSTANTS
    Node <- ThreeNodes
    Note = {}
    Episode = {e1}
    Scope = {home}
    Private = private
    Dial <- Relay
    InitialGrants <- RelayUnagreed
    Faults = {"append", "drop", "crash"}
    MaxClauses = 150
    MaxDrift = 1
    MaxCounter = 20
    Writer = {1}
    Edited <- FarLink
    MaxTime = 1
    MaxDeletes = 1
    MaxFaults = 1
    MaxRosterChanges = 1
    MaxBundles = 0
INVARIANTS
    ScopesConfined
PROPERTIES
    ImplementsGossip
    Converges
