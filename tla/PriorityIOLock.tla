--------------------------- MODULE PriorityIOLock ---------------------------
(* The lock of hardware/async_io_lock.py that guards a device port, as the   *)
(* adapters use it: "async with" the lock, in its normal or its urgent lane, *)
(* around one blocking device call. Both the blocking acquire and the device *)
(* call run on worker threads of the pool that asyncio.to_thread uses, whose *)
(* queue is first come first served. Cancelling the coroutine (a time budget *)
(* that expires, a shutdown) does not stop a thread that has started.        *)
EXTENDS Integers, Sequences, FiniteSets

CONSTANTS
    Caller,         \* coroutines, each with one use of the lock at a time
    Urgent,         \* those that take the urgent lane
    Workers,        \* size of the thread pool
    MaxCancels      \* bound on cancellations

ASSUME CallerAssumption == IsFiniteSet(Caller) /\ Urgent \subseteq Caller
ASSUME BoundsAssumption == Workers \in Nat \ {0} /\ MaxCancels \in Nat

VARIABLES
    held,           \* _held
    urgentWaiting,  \* _urgent_waiting
    co,             \* co[c]: where the coroutine of c is
    thread,         \* thread[c]: the job that it gave to the pool
    queue,          \* the jobs that no worker has taken
    cancels         \* cancellations so far

vars == <<held, urgentWaiting, co, thread, queue, cancels>>

\* none:     no job
\* queued:   in the queue of the pool
\* waiting:  a worker waits for the lock in _acquire()
\* acquired: _acquire() has returned, the coroutine has not run since
\* calling:  a worker is inside the device call
TypeOK ==
    /\ held \in BOOLEAN
    /\ urgentWaiting \in Nat
    /\ co \in [Caller -> {"idle", "acquiring", "using"}]
    /\ thread \in [Caller -> {"none", "queued", "waiting", "acquired", "calling"}]
    /\ queue \in Seq(Caller)
    /\ cancels \in Nat

Init ==
    /\ held = FALSE
    /\ urgentWaiting = 0
    /\ co = [c \in Caller |-> "idle"]
    /\ thread = [c \in Caller |-> "none"]
    /\ queue = <<>>
    /\ cancels = 0
-----------------------------------------------------------------------------
Submit(c) ==
    /\ thread' = [thread EXCEPT ![c] = "queued"]
    /\ queue' = Append(queue, c)

\* A worker takes the oldest job of the pool.
Dispatch(c) ==
    /\ thread[c] = "queued"
    /\ queue # <<>> /\ Head(queue) = c
    /\ Cardinality({d \in Caller : thread[d] \in {"waiting", "calling"}}) < Workers
    /\ queue' = Tail(queue)

Release == held' = FALSE

\* Mutant: normal waiters do not look at the urgent lane.
MayTakeUnordered(c) == ~held

\* Mutant: an urgent waiter does not wait for the holder.
MayTakeOver(c) == c \in Urgent \/ (~held /\ urgentWaiting = 0)

\* Mutant: an urgent waiter waits for the lane that it is in to empty.
MayTakeBehindLane(c) == ~held /\ urgentWaiting = 0

\* The loop condition of _acquire(), negated.
MayTake(c) == ~held /\ (c \in Urgent \/ urgentWaiting = 0)

\* Entering "async with": the blocking acquire goes to a worker.
Ask(c) ==
    /\ co[c] = "idle" /\ thread[c] = "none"
    /\ co' = [co EXCEPT ![c] = "acquiring"]
    /\ Submit(c)
    /\ UNCHANGED <<held, urgentWaiting, cancels>>

\* _acquire() starts and finds the lock free for it.
AcquireAtOnce(c) ==
    /\ co[c] = "acquiring" /\ Dispatch(c)
    /\ MayTake(c)
    /\ held' = TRUE
    /\ thread' = [thread EXCEPT ![c] = "acquired"]
    /\ UNCHANGED <<urgentWaiting, co, cancels>>

\* Mutant: an urgent waiter is not counted.
CountNobody(c) == urgentWaiting

\* Mutant: normal waiters are counted in the lane.
CountEveryone(c) == urgentWaiting + 1

CountWaiter(c) == IF c \in Urgent THEN urgentWaiting + 1 ELSE urgentWaiting

\* _acquire() starts and has to wait.
AcquireWaits(c) ==
    /\ co[c] = "acquiring" /\ Dispatch(c)
    /\ ~MayTake(c)
    /\ urgentWaiting' = CountWaiter(c)
    /\ thread' = [thread EXCEPT ![c] = "waiting"]
    /\ UNCHANGED <<held, co, cancels>>

\* A waiter wakes, notified or after its second of waiting, and takes the
\* lock, whether or not its coroutine is still there.
WakeAndTake(c) ==
    /\ thread[c] = "waiting"
    /\ MayTake(c)
    /\ held' = TRUE
    /\ urgentWaiting' = IF c \in Urgent THEN urgentWaiting - 1 ELSE urgentWaiting
    /\ thread' = [thread EXCEPT ![c] = IF co[c] = "acquiring" THEN "acquired" ELSE "none"]
    /\ UNCHANGED <<co, queue, cancels>>

\* The coroutine runs on, and gives the device call to a worker.
EnterBody(c) ==
    /\ co[c] = "acquiring" /\ thread[c] = "acquired"
    /\ co' = [co EXCEPT ![c] = "using"]
    /\ Submit(c)
    /\ UNCHANGED <<held, urgentWaiting, cancels>>

StartCall(c) ==
    /\ co[c] = "using" /\ Dispatch(c)
    /\ thread' = [thread EXCEPT ![c] = "calling"]
    /\ UNCHANGED <<held, urgentWaiting, co, cancels>>

\* The device call returns or raises: leaving "async with" releases the lock.
CallReturns(c) ==
    /\ co[c] = "using" /\ thread[c] = "calling"
    /\ co' = [co EXCEPT ![c] = "idle"]
    /\ thread' = [thread EXCEPT ![c] = "none"]
    /\ Release
    /\ UNCHANGED <<urgentWaiting, queue, cancels>>

\* A call that its coroutine has left returns.
AbandonedCallReturns(c) ==
    /\ co[c] = "idle" /\ thread[c] = "calling"
    /\ thread' = [thread EXCEPT ![c] = "none"]
    /\ UNCHANGED <<held, urgentWaiting, co, queue, cancels>>

\* A job leaves the pool with its coroutine only if no worker has taken it.
Withdraw(c) ==
    /\ \/ /\ thread[c] = "queued"
          /\ \E i \in 1..Len(queue) :
                /\ queue[i] = c
                /\ queue' = SubSeq(queue, 1, i - 1) \o SubSeq(queue, i + 1, Len(queue))
       \/ thread[c] # "queued" /\ UNCHANGED queue
    /\ thread' = [thread EXCEPT ![c] = IF @ \in {"waiting", "calling"} THEN @ ELSE "none"]

Cancelled(c) ==
    /\ cancels < MaxCancels
    /\ cancels' = cancels + 1
    /\ co' = [co EXCEPT ![c] = "idle"]
    /\ Withdraw(c)

\* acquire() is cancelled: __aexit__ does not run, whatever the thread does.
CancelAcquire(c) ==
    /\ co[c] = "acquiring"
    /\ Cancelled(c)
    /\ UNCHANGED <<held, urgentWaiting>>

\* The body is cancelled: __aexit__ releases, the device call goes on.
CancelBody(c) ==
    /\ co[c] = "using"
    /\ Cancelled(c)
    /\ Release
    /\ UNCHANGED urgentWaiting

Proceed(c) ==
    AcquireAtOnce(c) \/ AcquireWaits(c) \/ WakeAndTake(c) \/ EnterBody(c)
    \/ StartCall(c) \/ CallReturns(c) \/ AbandonedCallReturns(c)

Next == \E c \in Caller : Ask(c) \/ Proceed(c) \/ CancelAcquire(c) \/ CancelBody(c)

Spec == Init /\ [][Next]_vars

\* Threads and coroutines that can run do; a waiter polls every second; a
\* device call ends. Nobody has to ask for the lock.
FairSpec == Spec /\ \A c \in Caller : WF_vars(Proceed(c))
-----------------------------------------------------------------------------
(* Properties. *)

\* "Mutual exclusion on the port is not negotiable": two device calls never
\* overlap.
PortExclusive ==
    \A c, d \in Caller : thread[c] = "calling" /\ thread[d] = "calling" => c = d

\* As long as no coroutine was cancelled, the lock is held exactly when one
\* caller has it, and device calls never overlap: the two halves that live
\* on worker threads and the half on the event loop hand the lock over.
ExclusiveUndisturbed ==
    cancels = 0 =>
        /\ PortExclusive
        /\ held <=> \E c \in Caller : co[c] = "using" \/ thread[c] = "acquired"

\* The lane counter is the number of urgent threads that wait, cancelled or
\* not: one too many shuts out every normal caller for good, one too few
\* lets them pass an emergency stop.
LaneCounted ==
    urgentWaiting = Cardinality({u \in Urgent : thread[u] = "waiting"})

\* No normal caller comes into the lock while an emergency stop waits for it.
UrgentFirst ==
    [][\A n \in Caller \ Urgent :
          /\ thread[n] # "acquired" /\ thread'[n] = "acquired"
          => \A u \in Urgent : thread[u] # "waiting"]_vars

\* With a worker for every caller and one urgent caller, an emergency stop
\* reaches the device, unless some coroutine was cancelled.
StopIsServed ==
    \A u \in Urgent : co[u] = "acquiring" ~> thread[u] = "calling" \/ cancels > 0
=============================================================================
