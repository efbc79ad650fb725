\* A brain that mDNS finds and one added by hand, one slot of the cadence and
\* one call of the operator, eviction after two failures, one upheaval.
SPECIFICATION FairSpec
CONSTANTS
    Peer = {found, added}
    Found = {found}
    Slot = {slot}
    Call = {call}
    NoTask = NoTask
    Lock = {l1, l2, l3, l4}
    NoLock = NoLock
    EvictAfter = 2
    Initial = 1
    MaxBackoff = 1
    ExponentCap = 1
    MaxQueue = 2
    MaxChurn = 1
INVARIANTS
    TypeOK
    OneExchange
PROPERTIES
    EvictedOnlyAfterStreak
    ListedPeersDialled
CHECK_DEADLOCK FALSE
