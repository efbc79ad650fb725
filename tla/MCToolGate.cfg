\* A session and its subagent, a tool that can be undone, one that cannot, one
\* that only reads; two calls at once, three in all.
SPECIFICATION Spec
CONSTANTS
    write = write
    mail = mail
    read = read
    top = top
    sub = sub
    NoTool = NoTool
    NoArg = NoArg
    NoSession = NoSession
    Tool <- Tools
    Arg = {a1}
    Session <- Sessions
    Root <- TopIsRoot
    Call = {t1, t2}
    ReadOnly = {read}
    PlanSafe = {read}
    Confirm = {write, mail}
    Denied <- MailFromSub
    Undoable = {write}
    Looping = {write, mail}
    PromoteAfter = 2
    LoopLimit = 3
    MaxCalls = 3
INVARIANTS
    TypeOK
    TrustIsEarned
PROPERTIES
    RunsAreLicensed
    PlanModeHolds
SYMMETRY Swaps
CHECK_DEADLOCK FALSE
