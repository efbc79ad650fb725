\* One handle, two children, two skill calls, one permission request that is
\* asked again once it is over, any number of restarts.
SPECIFICATION FairSpec
CONSTANTS
    h1 = h1
    c1 = c1
    c2 = c2
    t1 = t1
    t2 = t2
    q1 = q1
    bash = bash
    NoHandle = NoHandle
    NoChild = NoChild
    NoTool = NoTool
    Handle = {h1}
    Child = {c1, c2}
    Call = {t1, t2}
    Request = {q1}
    Tool = {bash}
    MaxRuns = 2
INVARIANTS
    TypeOK
    ConsentOnly
    OneEpisodePerTurn
    HeldWhileUp
    ClosedStaysClosed
PROPERTIES
    HandlesStayUsable
    CallsReturn
    RequestsSettle
CHECK_DEADLOCK FALSE
