---------------------------- MODULE SyncScheduler ----------------------------
(* When a brain dials its peers (memory/sync_scheduler.py) and what keeps    *)
(* two exchanges with one peer apart: the cadence and its slots, backoff,    *)
(* eviction and rejoining, the lock of a peer's status and the lock that the *)
(* engine keeps for the peer (memory/sync.py).  An exchange is reduced to    *)
(* its outcome; FederatedSync.tla has what is exchanged.                     *)
EXTENDS Integers, Sequences, FiniteSets

CONSTANTS
    Peer,           \* the keys of _peers
    Found,          \* those of brains that mDNS finds; the rest is added by hand
    Slot,           \* the slots of the cadence, each with the call that has it
    Call,           \* the calls of the operator that may be under way at once
    NoTask,
    Lock, NoLock,   \* the locks of the engine
    EvictAfter,     \* evict_after_failures
    Initial,        \* backoff_initial_seconds
    MaxBackoff,     \* backoff_max_seconds
    ExponentCap,    \* BACKOFF_EXPONENT_CAP
    MaxQueue,       \* bound on the calls that wait for a slot
    MaxChurn        \* bound on departures, additions, removals and full disks

ASSUME PeersAssumption ==
    /\ Found \subseteq Peer /\ Peer # {} /\ IsFiniteSet(Peer)
    /\ Slot \cap Call = {} /\ NoTask \notin Slot \cup Call /\ NoLock \notin Lock
ASSUME BoundsAssumption ==
    /\ EvictAfter \in Nat \ {0} /\ Initial \in Nat \ {0}
    /\ MaxBackoff \in Nat /\ ExponentCap \in Nat
    /\ MaxQueue \in Nat /\ MaxChurn \in Nat

Task == Slot \cup Call

VARIABLES
    known,      \* the keys of _peers of the engine
    manual,     \* _manual_peers
    status,     \* the PeerStatus of each peer, if it has one
    locks,      \* _peer_locks
    held,       \* the locks that are held
    queue,      \* the calls that the cadence has made and that wait for a slot
    task,       \* the calls under way
    paused,     \* _io_paused
    churn,      \* departures, additions, removals and full disks so far
    losses,     \* history: failed dials of a peer since its last success
    replaced,   \* history: peers whose status went while a call used it
    forgotten   \* history: peers whose lock went while a call used it

history == <<losses, replaced, forgotten>>
vars == <<known, manual, status, locks, held, queue, task, paused, churn, history>>

\* The failures are counted no further than eviction and backoff look.
Count == 0..(EvictAfter + ExponentCap)
Least(a, b) == IF a <= b THEN a ELSE b
Bump(n) == Least(n + 1, EvictAfter + ExponentCap)

Absent == [there |-> FALSE, failures |-> 0, wait |-> 0, by |-> NoTask]
\* Never beyond the maximum.
Wait == {w \in Int : w <= MaxBackoff}
PeerStatus == [there : BOOLEAN, failures : Count, wait : Wait,
               by : Task \cup {NoTask}]

\* stale: the status that the call works on is no longer the peer's; failures
\* is then the count in it.
TaskRecord == [pc : {"idle", "dialling", "waiting", "exchanging", "failed", "done"},
               peer : Peer, lock : Lock \cup {NoLock},
               stale : BOOLEAN, failures : Count]
Idle == [pc |-> "idle", peer |-> CHOOSE p \in Peer : TRUE, lock |-> NoLock,
         stale |-> FALSE, failures |-> 0]

TypeOK ==
    /\ known \subseteq Peer
    /\ manual \subseteq Peer
    /\ status \in [Peer -> PeerStatus]
    /\ locks \in [Peer -> Lock \cup {NoLock}]
    /\ held \subseteq Lock
    /\ queue \in Seq(Peer)
    /\ task \in [Task -> TaskRecord]
    /\ paused \in BOOLEAN
    /\ churn \in 0..MaxChurn
    /\ losses \in [Peer -> 0..EvictAfter]
    /\ replaced \subseteq Peer
    /\ forgotten \subseteq Peer

Init ==
    /\ known = {}
    /\ manual = {}
    /\ status = [p \in Peer |-> Absent]
    /\ locks = [p \in Peer |-> NoLock]
    /\ held = {}
    /\ queue = <<>>
    /\ task = [t \in Task |-> Idle]
    /\ paused = FALSE
    /\ churn = 0
    /\ losses = [p \in Peer |-> 0]
    /\ replaced = {}
    /\ forgotten = {}
-----------------------------------------------------------------------------
(* The cadence. *)

\* setdefault() of a status.
Present(p) == [status[p] EXCEPT !.there = TRUE]

\* A set is listed in any order.
Orders(S) ==
    {order \in [1..Cardinality(S) -> S] : \A p \in S : \E i \in DOMAIN order : order[i] = p}

\* Due peers get a call each, whether or not an earlier one still waits.
Tick ==
    LET listed == known \cup manual
        due == {p \in listed : status[p].wait = 0}
    IN  /\ due # {}
        /\ Len(queue) + Cardinality(due) <= MaxQueue
        /\ \E order \in Orders(due) : queue' = queue \o order
        /\ status' = [p \in Peer |-> IF p \in listed THEN Present(p) ELSE status[p]]
        /\ UNCHANGED <<known, manual, locks, held, task, paused, churn, history>>

\* Mutant: a call does not look whether another has the peer's status.
BeginAnyway(t, p) ==
    /\ task[t].pc = "idle"
    /\ task' = [task EXCEPT ![t] = [Idle EXCEPT !.pc = "dialling", !.peer = p]]
    /\ status' = [status EXCEPT ![p] = [Present(p) EXCEPT !.by = t]]
    /\ UNCHANGED <<known, manual, locks, held, paused, churn, history>>

\* A call begins, and ends at once if another has the peer's status.
Begin(t, p) ==
    /\ task[t].pc = "idle"
    /\ IF status[p].by = NoTask
       THEN /\ task' = [task EXCEPT ![t] = [Idle EXCEPT !.pc = "dialling", !.peer = p]]
            /\ status' = [status EXCEPT ![p] = [Present(p) EXCEPT !.by = t]]
       ELSE UNCHANGED <<task, status>>
    /\ UNCHANGED <<known, manual, locks, held, paused, churn, history>>

\* The slots are given in the order of the calls.
GetSlot(t) ==
    /\ queue # <<>>
    /\ Begin(t, Head(queue))
    /\ queue' = Tail(queue)

\* "sync now" takes no slot, heeds no backoff and knows any name.
SyncNow(t, p) ==
    /\ Begin(t, p)
    /\ UNCHANGED queue
    /\ <<task, status>>' # <<task, status>>
-----------------------------------------------------------------------------
(* A call: sync_with_peer() and what becomes of its result. *)

At(t, pc) == task[t].pc = pc
Goes(t, pc) == task' = [task EXCEPT ![t].pc = pc]

\* A dial that has failed, and one that has not.
Lost(p) == losses' = [losses EXCEPT ![p] = Least(@ + 1, EvictAfter)]

\* No such peer, or nothing is synced until the disk has been looked at.
DialRefused(t) ==
    /\ At(t, "dialling")
    /\ task[t].peer \notin known \/ paused
    /\ Goes(t, "failed")
    /\ Lost(task[t].peer)
    /\ UNCHANGED <<known, manual, status, locks, held, queue, paused, churn,
                   replaced, forgotten>>

InUse == {locks[p] : p \in Peer} \cup {task[t].lock : t \in Task}

\* setdefault() of the lock, which is then waited for.
Dial(t) ==
    LET p == task[t].peer
        lock == IF locks[p] # NoLock THEN locks[p]
                ELSE CHOOSE l \in Lock : l \notin InUse
    IN  /\ At(t, "dialling")
        /\ p \in known /\ ~paused
        /\ locks[p] # NoLock \/ ~(Lock \subseteq InUse)
        /\ locks' = [locks EXCEPT ![p] = lock]
        /\ task' = [task EXCEPT ![t].pc = "waiting", ![t].lock = lock]
        /\ UNCHANGED <<known, manual, status, held, queue, paused, churn, history>>

TakeLock(t) ==
    /\ At(t, "waiting")
    /\ task[t].lock \notin held
    /\ held' = held \cup {task[t].lock}
    /\ Goes(t, "exchanging")
    /\ UNCHANGED <<known, manual, status, locks, queue, paused, churn, history>>

\* The time limit of the call cancels a wait for the lock. An exchange takes
\* the cancellation for a failed attempt, and makes the next one.
TimeOut(t) ==
    /\ At(t, "waiting")
    /\ task[t].lock \in held
    /\ task' = [task EXCEPT ![t].pc = "failed", ![t].lock = NoLock]
    /\ Lost(task[t].peer)
    /\ UNCHANGED <<known, manual, status, locks, held, queue, paused, churn,
                   replaced, forgotten>>

\* Mutant: only a success gives the lock back.
ReleasedOnSuccess(t, pc) == IF pc = "done" THEN held \ {task[t].lock} ELSE held

\* What is held when the exchange of t ends in pc.
Released(t, pc) == held \ {task[t].lock}

EndExchange(t, pc) ==
    /\ At(t, "exchanging")
    /\ held' = Released(t, pc)
    /\ task' = [task EXCEPT ![t].pc = pc, ![t].lock = NoLock]
    /\ UNCHANGED <<known, manual, status, locks, queue, replaced, forgotten>>

\* A peer added by hand has an address without a port, which no attempt gets
\* past.
Dialable(p) == p \in Found

ExchangeSucceeds(t) ==
    /\ Dialable(task[t].peer)
    /\ EndExchange(t, "done")
    /\ losses' = [losses EXCEPT ![task[t].peer] = 0]
    /\ UNCHANGED <<paused, churn>>

\* No attempt has got through.
ExchangeFails(t) ==
    /\ EndExchange(t, "failed")
    /\ Lost(task[t].peer)
    /\ UNCHANGED <<paused, churn>>

\* The disk is full.
ExchangeFills(t) ==
    /\ Dialable(task[t].peer)
    /\ EndExchange(t, "failed")
    /\ Lost(task[t].peer)
    /\ paused' = TRUE
    /\ churn < MaxChurn
    /\ churn' = churn + 1

\* Mutant: a success leaves the streak of failures.
ClearedWaitOnly(s) == [s EXCEPT !.wait = 0, !.by = NoTask]

\* What a success makes of a status.
Cleared(s) == [s EXCEPT !.failures = 0, !.wait = 0, !.by = NoTask]

RecordSuccess(t) ==
    LET p == task[t].peer IN
    /\ At(t, "done")
    /\ status' = IF task[t].stale THEN status
                 ELSE [status EXCEPT ![p] = Cleared(status[p])]
    /\ task' = [task EXCEPT ![t] = Idle]
    /\ UNCHANGED <<known, manual, locks, held, queue, paused, churn, history>>

\* Mutant: no maximum.
BackoffUncapped(n) == Initial * 2^Least(n - 1, ExponentCap)

\* backoff_seconds()
Backoff(n) == Least(Initial * 2^Least(n - 1, ExponentCap), MaxBackoff)

\* The status of p is dropped: whoever works on it keeps it for itself.
Dropped(p, tasks) ==
    [t \in Task |-> IF status[p].by = t /\ tasks[t].pc # "idle"
                    THEN [tasks[t] EXCEPT !.stale = TRUE, !.failures = status[p].failures]
                    ELSE tasks[t]]

\* Who is at work on the status of p, or at its lock.
Replaces(p, tasks) ==
    replaced' = IF \E t \in Task : status[p].by = t /\ tasks[t].pc # "idle"
                THEN replaced \cup {p} ELSE replaced
Forgets(p) ==
    forgotten' = IF \E t \in Task : locks[p] # NoLock /\ task[t].lock = locks[p]
                 THEN forgotten \cup {p} ELSE forgotten

\* _maybe_evict()
ToEvict(p, n) == n >= EvictAfter /\ p \notin manual

RecordFailure(t) ==
    LET p == task[t].peer
        n == Bump(IF task[t].stale THEN task[t].failures ELSE status[p].failures)
        ended == [task EXCEPT ![t] = Idle]
    IN  /\ At(t, "failed")
        /\ IF ToEvict(p, n)
           THEN /\ known' = known \ {p}
                /\ locks' = [locks EXCEPT ![p] = NoLock]
                /\ status' = [status EXCEPT ![p] = Absent]
                /\ task' = Dropped(p, ended)
                /\ Replaces(p, ended)
                /\ Forgets(p)
           ELSE /\ status' = IF task[t].stale THEN status
                             ELSE [status EXCEPT ![p].failures = n, ![p].wait = Backoff(n),
                                                 ![p].by = NoTask]
                /\ task' = ended
                /\ UNCHANGED <<known, locks, replaced, forgotten>>
        /\ UNCHANGED <<manual, held, queue, paused, churn, losses>>

\* Time passes for all who wait.
Elapse ==
    /\ \E p \in Peer : status[p].wait > 0
    /\ status' = [p \in Peer |-> IF status[p].wait = 0 THEN status[p]
                                 ELSE [status[p] EXCEPT !.wait = @ - 1]]
    /\ UNCHANGED <<known, manual, locks, held, queue, task, paused, churn, history>>
-----------------------------------------------------------------------------
(* The network, the disk and the operator. *)

Advertise(p) ==
    /\ p \in Found \ known
    /\ known' = known \cup {p}
    /\ UNCHANGED <<manual, status, locks, held, queue, task, paused, churn, history>>

\* forget_peer(). The scheduler keeps its status.
Depart(p) ==
    /\ p \in Found \cap known
    /\ churn < MaxChurn
    /\ churn' = churn + 1
    /\ known' = known \ {p}
    /\ locks' = [locks EXCEPT ![p] = NoLock]
    /\ Forgets(p)
    /\ UNCHANGED <<manual, status, held, queue, task, paused, losses, replaced>>

AddPeer(p) ==
    /\ p \notin Found \cup manual
    /\ churn < MaxChurn
    /\ churn' = churn + 1
    /\ manual' = manual \cup {p}
    /\ known' = known \cup {p}
    /\ status' = [status EXCEPT ![p] = Present(p)]
    /\ UNCHANGED <<locks, held, queue, task, paused, history>>

\* remove_peer(). The engine keeps its lock.
RemovePeer(p) ==
    /\ p \in known \cup manual \/ status[p].there
    /\ churn < MaxChurn
    /\ churn' = churn + 1
    /\ manual' = manual \ {p}
    /\ known' = known \ {p}
    /\ status' = [status EXCEPT ![p] = Absent]
    /\ task' = Dropped(p, task)
    /\ Replaces(p, task)
    /\ UNCHANGED <<locks, held, queue, paused, losses, forgotten>>

Resume ==
    /\ paused
    /\ paused' = FALSE
    /\ UNCHANGED <<known, manual, status, locks, held, queue, task, churn, history>>

-----------------------------------------------------------------------------
CallStep(t) ==
    \/ DialRefused(t) \/ Dial(t) \/ TakeLock(t)
    \/ ExchangeSucceeds(t) \/ ExchangeFails(t)
    \/ RecordSuccess(t) \/ RecordFailure(t)

Next ==
    \/ Tick
    \/ \E t \in Task : CallStep(t) \/ TimeOut(t) \/ ExchangeFills(t)
    \/ \E t \in Slot : GetSlot(t)
    \/ \E t \in Call, p \in Peer : SyncNow(t, p)
    \/ \E p \in Peer : Advertise(p) \/ Depart(p) \/ AddPeer(p) \/ RemovePeer(p)
    \/ Elapse
    \/ Resume

Spec == Init /\ [][Next]_vars

\* The loop ticks, time passes, and what is ready runs; every attempt has its
\* time limits. Nobody has to resume, to come or to go.
Fairness ==
    /\ WF_vars(Tick) /\ WF_vars(Elapse)
    /\ WF_vars(\E t \in Slot : GetSlot(t))
    /\ \A t \in Task : WF_vars(CallStep(t))

FairSpec == Spec /\ Fairness
-----------------------------------------------------------------------------
(* Properties. *)

\* Two exchanges with one peer overlap only after the scheduler has dropped
\* the peer's status and the engine its lock, each while a call relied on it:
\* either of the two locks is enough.
OneExchange ==
    \A t, u \in Task :
        /\ At(t, "exchanging") /\ At(u, "exchanging") /\ t # u
        /\ task[t].peer = task[u].peer
        => task[t].peer \in replaced \cap forgotten

\* Nobody is evicted who was added by hand, nor before as many dials in a row
\* have failed, unless the status of the peer was replaced under a call.
EvictedOnlyAfterStreak ==
    [][\A t \in Task : RecordFailure(t) =>
          \A p \in known \ known' :
             /\ p \notin manual
             /\ losses[p] = EvictAfter \/ p \in replaced]_vars

\* A peer that stays in the list is dialled again and again, whatever became
\* of the exchanges before, of its neighbours and of its locks.
ListedPeersDialled ==
    \A p \in Peer :
        <>[](p \in known /\ ~paused)
            => []<>(\E t \in Task : At(t, "exchanging") /\ task[t].peer = p)
=============================================================================
