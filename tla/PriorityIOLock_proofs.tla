------------------------ MODULE PriorityIOLock_proofs ------------------------
(* Proofs about PriorityIOLock.tla, for any number of callers, any pool and  *)
(* any number of cancellations.                                              *)
EXTENDS PriorityIOLock, FiniteSetTheorems, TLAPS

Waiters == {u \in Urgent : thread[u] = "waiting"}

\* The callers that the lock was given to and that still know of it.
Owner(c) == co[c] = "using" \/ thread[c] = "acquired"

\* Without a cancellation the coroutine and its job are in step, and the lock
\* has at most one owner.
HandedOver ==
    cancels = 0 =>
        /\ \A c \in Caller :
              /\ co[c] = "idle" => thread[c] = "none"
              /\ co[c] = "acquiring" => thread[c] \in {"queued", "waiting", "acquired"}
              /\ co[c] = "using" => thread[c] \in {"queued", "calling"}
        /\ held <=> \E c \in Caller : Owner(c)
        /\ \A c, d \in Caller : Owner(c) /\ Owner(d) => c = d

\* The inductive invariant. LaneCounted holds with cancellations as well.
Inv == TypeOK /\ HandedOver /\ LaneCounted

------------------------------------------------------------------------------
(* The steps of one caller. *)

\* A step is a step of some caller, or changes nothing.
LEMMA Steps ==
    ASSUME [Next]_vars,
           NEW ACTION P,
           UNCHANGED vars => P,
           \A c \in Caller : Ask(c) => P,
           \A c \in Caller : AcquireAtOnce(c) => P,
           \A c \in Caller : AcquireWaits(c) => P,
           \A c \in Caller : WakeAndTake(c) => P,
           \A c \in Caller : EnterBody(c) => P,
           \A c \in Caller : StartCall(c) => P,
           \A c \in Caller : CallReturns(c) => P,
           \A c \in Caller : AbandonedCallReturns(c) => P,
           \A c \in Caller : CancelAcquire(c) => P,
           \A c \in Caller : CancelBody(c) => P
    PROVE  P
  BY DEF Next, Proceed

\* What a cancellation leaves in the queue are jobs.
LEMMA WithdrawType ==
    ASSUME TypeOK, NEW c \in Caller, Withdraw(c)
    PROVE  queue' \in Seq(Caller)
<1>1. CASE UNCHANGED queue
  BY <1>1 DEF TypeOK
<1>2. ASSUME NEW i \in 1..Len(queue),
             queue' = SubSeq(queue, 1, i - 1) \o SubSeq(queue, i + 1, Len(queue))
      PROVE  queue' \in Seq(Caller)
  <2>1. queue \in Seq(Caller) /\ Len(queue) \in Nat
    BY DEF TypeOK
  <2>2. SubSeq(queue, 1, i - 1) \in Seq(Caller)
    BY <2>1
  <2>3. SubSeq(queue, i + 1, Len(queue)) \in Seq(Caller)
    BY <2>1
  <2> QED
    BY <1>2, <2>2, <2>3
<1> QED
  BY <1>1, <1>2 DEF Withdraw

\* Every step keeps TypeOK.
LEMMA TypeStep == TypeOK /\ LaneCounted /\ [Next]_vars => TypeOK'
<1> SUFFICES ASSUME TypeOK, LaneCounted, [Next]_vars PROVE TypeOK'
  OBVIOUS
<1>1. UNCHANGED vars => TypeOK'
  BY DEF vars, TypeOK
<1>2. ASSUME NEW c \in Caller PROVE Ask(c) => TypeOK'
  BY DEF Ask, Submit, TypeOK
<1>3. ASSUME NEW c \in Caller PROVE AcquireAtOnce(c) => TypeOK'
  BY DEF AcquireAtOnce, Dispatch, TypeOK
<1>4. ASSUME NEW c \in Caller PROVE AcquireWaits(c) => TypeOK'
  BY DEF AcquireWaits, Dispatch, CountWaiter, TypeOK
<1>5. ASSUME NEW c \in Caller, WakeAndTake(c) PROVE TypeOK'
  <2>1. c \in Urgent => urgentWaiting \in Nat \ {0}
    <3>1. SUFFICES ASSUME c \in Urgent PROVE Cardinality(Waiters) # 0
      BY DEF LaneCounted, Waiters, TypeOK
    <3>2. IsFiniteSet(Waiters) /\ c \in Waiters
      BY <1>5, <3>1, CallerAssumption, FS_Subset DEF Waiters, WakeAndTake
    <3> QED
      BY <3>2, FS_EmptySet
  <2> QED
    BY <1>5, <2>1 DEF WakeAndTake, TypeOK
<1>6. ASSUME NEW c \in Caller PROVE EnterBody(c) => TypeOK'
  BY DEF EnterBody, Submit, TypeOK
<1>7. ASSUME NEW c \in Caller PROVE StartCall(c) => TypeOK'
  BY DEF StartCall, Dispatch, TypeOK
<1>8. ASSUME NEW c \in Caller PROVE CallReturns(c) => TypeOK'
  BY DEF CallReturns, Release, TypeOK
<1>9. ASSUME NEW c \in Caller PROVE AbandonedCallReturns(c) => TypeOK'
  BY DEF AbandonedCallReturns, TypeOK
<1>10. ASSUME NEW c \in Caller, CancelAcquire(c) \/ CancelBody(c) PROVE TypeOK'
  <2>1. Cancelled(c) /\ Withdraw(c)
    BY <1>10 DEF CancelAcquire, CancelBody, Cancelled
  <2>2. queue' \in Seq(Caller)
    BY <2>1, WithdrawType
  <2>3. thread' \in [Caller -> {"none", "queued", "waiting", "acquired", "calling"}]
    BY <2>1 DEF Withdraw, TypeOK
  <2>4. cancels' \in Nat /\ co' \in [Caller -> {"idle", "acquiring", "using"}]
    BY <2>1 DEF Cancelled, TypeOK
  <2>5. held' \in BOOLEAN /\ urgentWaiting' \in Nat
    BY <1>10 DEF CancelAcquire, CancelBody, Release, TypeOK
  <2> QED
    BY <2>2, <2>3, <2>4, <2>5 DEF TypeOK
<1> QED
  BY <1>1, <1>2, <1>3, <1>4, <1>5, <1>6, <1>7, <1>8, <1>9, <1>10, Steps

------------------------------------------------------------------------------
(* The lane counter. *)

\* One urgent caller more or less waits.
LEMMA WaiterJoins ==
    ASSUME TypeOK, NEW c \in Caller, thread[c] # "waiting",
           thread' = [thread EXCEPT ![c] = "waiting"]
    PROVE  Cardinality(Waiters') =
               IF c \in Urgent THEN Cardinality(Waiters) + 1 ELSE Cardinality(Waiters)
<1>1. IsFiniteSet(Waiters)
  BY CallerAssumption, FS_Subset DEF Waiters
<1>2. CASE c \in Urgent
  <2>1. Waiters' = Waiters \cup {c} /\ c \notin Waiters
    BY <1>2, CallerAssumption DEF Waiters, TypeOK
  <2> QED
    BY <1>1, <1>2, <2>1, FS_AddElement
<1>3. CASE c \notin Urgent
  <2>1. Waiters' = Waiters
    BY <1>3, CallerAssumption DEF Waiters, TypeOK
  <2> QED
    BY <1>3, <2>1
<1> QED
  BY <1>2, <1>3

LEMMA WaiterLeaves ==
    ASSUME TypeOK, NEW c \in Caller, thread[c] = "waiting",
           NEW t, t # "waiting", thread' = [thread EXCEPT ![c] = t]
    PROVE  Cardinality(Waiters') =
               IF c \in Urgent THEN Cardinality(Waiters) - 1 ELSE Cardinality(Waiters)
<1>1. IsFiniteSet(Waiters)
  BY CallerAssumption, FS_Subset DEF Waiters
<1>2. CASE c \in Urgent
  <2>1. Waiters' = Waiters \ {c} /\ c \in Waiters
    BY <1>2, CallerAssumption DEF Waiters, TypeOK
  <2> QED
    BY <1>1, <1>2, <2>1, FS_RemoveElement
<1>3. CASE c \notin Urgent
  <2>1. Waiters' = Waiters
    BY <1>3, CallerAssumption DEF Waiters, TypeOK
  <2> QED
    BY <1>3, <2>1
<1> QED
  BY <1>2, <1>3

LEMMA WaitersStay ==
    ASSUME TypeOK, NEW c \in Caller, NEW t, thread' = [thread EXCEPT ![c] = t],
           t = "waiting" <=> thread[c] = "waiting", UNCHANGED urgentWaiting, LaneCounted
    PROVE  LaneCounted'
<1>1. Waiters' = Waiters
  BY CallerAssumption DEF Waiters, TypeOK
<1> QED
  BY <1>1 DEF LaneCounted, Waiters

\* Every step keeps LaneCounted.
LEMMA LaneStep == TypeOK /\ LaneCounted /\ [Next]_vars => LaneCounted'
<1> SUFFICES ASSUME TypeOK, LaneCounted, [Next]_vars PROVE LaneCounted'
  OBVIOUS
<1>1. UNCHANGED vars => LaneCounted'
  BY DEF vars, LaneCounted
<1>2. ASSUME NEW c \in Caller PROVE Ask(c) => LaneCounted'
  BY WaitersStay DEF Ask, Submit
<1>3. ASSUME NEW c \in Caller PROVE AcquireAtOnce(c) => LaneCounted'
  BY WaitersStay DEF AcquireAtOnce, Dispatch
<1>4. ASSUME NEW c \in Caller, AcquireWaits(c) PROVE LaneCounted'
  <2>1. urgentWaiting = Cardinality(Waiters)
    BY DEF LaneCounted, Waiters
  <2>2. thread[c] # "waiting" /\ thread' = [thread EXCEPT ![c] = "waiting"]
    BY <1>4 DEF AcquireWaits, Dispatch
  <2>3. urgentWaiting' = Cardinality(Waiters')
    BY <1>4, <2>1, <2>2, WaiterJoins DEF AcquireWaits, CountWaiter
  <2> QED
    BY <2>3 DEF LaneCounted, Waiters
<1>5. ASSUME NEW c \in Caller, WakeAndTake(c) PROVE LaneCounted'
  <2> DEFINE t == IF co[c] = "acquiring" THEN "acquired" ELSE "none"
  <2>1. urgentWaiting = Cardinality(Waiters)
    BY DEF LaneCounted, Waiters
  <2>2. thread[c] = "waiting" /\ t # "waiting" /\ thread' = [thread EXCEPT ![c] = t]
    BY <1>5 DEF WakeAndTake
  <2> HIDE DEF t
  <2>3. urgentWaiting' = Cardinality(Waiters')
    BY <1>5, <2>1, <2>2, WaiterLeaves DEF WakeAndTake
  <2> QED
    BY <2>3 DEF LaneCounted, Waiters
<1>6. ASSUME NEW c \in Caller PROVE EnterBody(c) => LaneCounted'
  BY WaitersStay DEF EnterBody, Submit
<1>7. ASSUME NEW c \in Caller PROVE StartCall(c) => LaneCounted'
  BY WaitersStay DEF StartCall, Dispatch
<1>8. ASSUME NEW c \in Caller PROVE CallReturns(c) => LaneCounted'
  BY WaitersStay DEF CallReturns
<1>9. ASSUME NEW c \in Caller PROVE AbandonedCallReturns(c) => LaneCounted'
  BY WaitersStay DEF AbandonedCallReturns
<1>10. ASSUME NEW c \in Caller, CancelAcquire(c) \/ CancelBody(c) PROVE LaneCounted'
  <2>1. Withdraw(c) /\ UNCHANGED urgentWaiting
    BY <1>10 DEF CancelAcquire, CancelBody, Cancelled
  <2> DEFINE t == IF thread[c] \in {"waiting", "calling"} THEN thread[c] ELSE "none"
  <2>2. thread' = [thread EXCEPT ![c] = t] /\ (t = "waiting" <=> thread[c] = "waiting")
    BY <2>1 DEF Withdraw
  <2> HIDE DEF t
  <2> QED
    BY <2>1, <2>2, WaitersStay
<1> QED
  BY <1>1, <1>2, <1>3, <1>4, <1>5, <1>6, <1>7, <1>8, <1>9, <1>10, Steps

------------------------------------------------------------------------------
(* Handing the lock over. *)

\* Every step keeps HandedOver.
LEMMA HandStep == TypeOK /\ HandedOver /\ [Next]_vars => HandedOver'
<1> SUFFICES ASSUME TypeOK, HandedOver, [Next]_vars, cancels' = 0 PROVE HandedOver'
  BY DEF HandedOver
<1> USE DEF HandedOver, Owner, TypeOK
<1>1. UNCHANGED vars => HandedOver'
  BY DEF vars
<1>2. ASSUME NEW c \in Caller PROVE Ask(c) => HandedOver'
  BY DEF Ask, Submit
<1>3. ASSUME NEW c \in Caller PROVE AcquireAtOnce(c) => HandedOver'
  BY DEF AcquireAtOnce, MayTake
<1>4. ASSUME NEW c \in Caller PROVE AcquireWaits(c) => HandedOver'
  BY DEF AcquireWaits, Dispatch
<1>5. ASSUME NEW c \in Caller PROVE WakeAndTake(c) => HandedOver'
  BY DEF WakeAndTake, MayTake
<1>6. ASSUME NEW c \in Caller PROVE EnterBody(c) => HandedOver'
  BY DEF EnterBody, Submit
<1>7. ASSUME NEW c \in Caller PROVE StartCall(c) => HandedOver'
  BY DEF StartCall
<1>8. ASSUME NEW c \in Caller PROVE CallReturns(c) => HandedOver'
  BY DEF CallReturns, Release
<1>9. ASSUME NEW c \in Caller PROVE AbandonedCallReturns(c) => HandedOver'
  BY DEF AbandonedCallReturns
<1>10. ASSUME NEW c \in Caller PROVE CancelAcquire(c) => HandedOver'
  BY DEF CancelAcquire, Cancelled
<1>11. ASSUME NEW c \in Caller PROVE CancelBody(c) => HandedOver'
  BY DEF CancelBody, Cancelled
<1> QED
  BY <1>1, <1>2, <1>3, <1>4, <1>5, <1>6, <1>7, <1>8, <1>9, <1>10, <1>11, Steps

------------------------------------------------------------------------------
(* The theorems. *)

\* The invariant holds at first and every step keeps it.
LEMMA Invariant == Spec => []Inv
<1>1. Init => Inv
  <2> SUFFICES ASSUME Init PROVE Inv
    OBVIOUS
  <2>0. TypeOK
    <3>1. held \in BOOLEAN
      BY DEF Init
    <3>2. queue \in Seq(Caller) /\ urgentWaiting \in Nat /\ cancels \in Nat
      BY DEF Init
    <3>3. /\ co \in [Caller -> {"idle", "acquiring", "using"}]
          /\ thread \in [Caller -> {"none", "queued", "waiting", "acquired", "calling"}]
      BY DEF Init
    <3> QED
      BY <3>1, <3>2, <3>3 DEF TypeOK
  <2>1. HandedOver
    <3>1. ~held /\ \A c \in Caller : co[c] = "idle" /\ thread[c] = "none"
      BY DEF Init
    <3> QED
      BY <3>1 DEF HandedOver, Owner
  <2>2. LaneCounted
    <3>1. {u \in Urgent : thread[u] = "waiting"} = {}
      BY CallerAssumption DEF Init
    <3> QED
      BY <3>1, FS_EmptySet DEF Init, LaneCounted
  <2> QED
    BY <2>0, <2>1, <2>2 DEF Inv
<1>2. Inv /\ [Next]_vars => Inv'
  BY TypeStep, HandStep, LaneStep DEF Inv
<1> QED
  BY <1>1, <1>2, PTL DEF Spec

\* The lock, the coroutines and the pool keep their types.
THEOREM TypeCorrect == Spec => []TypeOK
<1>1. Inv => TypeOK
  BY DEF Inv
<1> QED
  BY <1>1, Invariant, PTL

\* Until a coroutine is cancelled, device calls do not overlap and the lock is
\* never held by nobody, for any number of callers in either lane.
THEOREM ExclusiveUntilCancelled == Spec => []ExclusiveUndisturbed
<1>1. Inv => ExclusiveUndisturbed
  BY DEF Inv, TypeOK, HandedOver, Owner, ExclusiveUndisturbed, PortExclusive
<1> QED
  BY <1>1, Invariant, PTL

\* The lane counter is exact, whoever is cancelled and whenever.
THEOREM LaneIsCounted == Spec => []LaneCounted
<1>1. Inv => LaneCounted
  BY DEF Inv
<1> QED
  BY <1>1, Invariant, PTL

\* No normal caller enters the lock while an emergency stop waits for it.
THEOREM StopsGoFirst == Spec => UrgentFirst
<1>1. ASSUME Inv, [Next]_vars, NEW n \in Caller \ Urgent, NEW u \in Urgent,
             thread[n] # "acquired", thread'[n] = "acquired"
      PROVE  thread[u] # "waiting"
  <2>1. ASSUME thread[u] = "waiting" PROVE urgentWaiting # 0
    <3>1. IsFiniteSet(Waiters) /\ u \in Waiters
      BY <2>1, CallerAssumption, FS_Subset DEF Waiters
    <3>2. Cardinality(Waiters) # 0 /\ urgentWaiting = Cardinality(Waiters)
      <4>1. Cardinality(Waiters) # 0
        BY <3>1, FS_EmptySet
      <4>2. urgentWaiting = Cardinality(Waiters)
        BY <1>1 DEF Inv, LaneCounted, Waiters
      <4> QED
        BY <4>1, <4>2
    <3> QED
      BY <3>2
  <2>2. PICK c \in Caller : AcquireAtOnce(c) \/ WakeAndTake(c)
    BY <1>1 DEF Inv, TypeOK, Next, Proceed, vars, Ask, Submit, AcquireWaits, EnterBody,
       StartCall, CallReturns, AbandonedCallReturns, CancelAcquire, CancelBody,
       Cancelled, Withdraw
  <2>3. c = n
    BY <1>1, <2>2 DEF Inv, TypeOK, AcquireAtOnce, WakeAndTake
  <2>4. urgentWaiting = 0
    BY <2>2, <2>3 DEF AcquireAtOnce, WakeAndTake, MayTake
  <2> QED
    BY <2>1, <2>4
<1>2. Inv /\ [Next]_vars =>
        [\A n \in Caller \ Urgent :
            /\ thread[n] # "acquired" /\ thread'[n] = "acquired"
            => \A u \in Urgent : thread[u] # "waiting"]_vars
  BY <1>1
<1> QED
  BY <1>2, Invariant, PTL DEF Spec, UrgentFirst
=============================================================================
