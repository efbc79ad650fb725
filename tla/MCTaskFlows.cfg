\* Two flows, two cancel or resume calls, one restart: the rows agree, committed steps stay,
\* sleeps last, and flows settle.
CONSTANTS
    f1 = f1
    f2 = f2
    NoFlow = NoFlow
    Flow = {f1, f2}
    Programs <- MCPrograms
    Seconds = 2
    Raising = {"work"}
    MaxCalls = 2
    MaxRestarts = 1
SPECIFICATION FairSpec
INVARIANTS
    TypeOK
    RowsAgree
PROPERTIES
    CommittedStepsStay
    SleepLasts
    FlowsSettle
CHECK_DEADLOCK FALSE
