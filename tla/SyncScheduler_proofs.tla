------------------------- MODULE SyncScheduler_proofs -------------------------
(* Proofs about SyncScheduler.tla: types, the two locks that keep exchanges  *)
(* apart, and the streak that an eviction needs.                             *)
EXTENDS SyncScheduler, FiniteSetTheorems, TLAPS

\* The call that holds the lock of a status works on it, and a call that works
\* on no status had it replaced.
Owned ==
    /\ \A p \in Peer : status[p].by # NoTask =>
          /\ task[status[p].by].pc # "idle"
          /\ task[status[p].by].peer = p
          /\ ~task[status[p].by].stale
    /\ \A t \in Task : task[t].pc # "idle" =>
          IF task[t].stale THEN task[t].peer \in replaced
          ELSE status[task[t].peer].by = t

\* A call that has a lock of the engine has the one of its peer, unless that
\* was forgotten; a call that exchanges holds it, and alone.
Guarded ==
    /\ \A t \in Task : task[t].pc \in {"waiting", "exchanging"} =>
          /\ task[t].lock \in Lock
          /\ locks[task[t].peer] = task[t].lock \/ task[t].peer \in forgotten
    /\ \A t \in Task : task[t].pc = "exchanging" => task[t].lock \in held
    /\ \A t, u \in Task :
          task[t].pc = "exchanging" /\ task[u].pc = "exchanging" /\ t # u
            => task[t].lock # task[u].lock

\* n failures of p are all the peer's own.
Covers(p, n) == n <= losses[p] \/ losses[p] = EvictAfter

\* The failures in a status are dials that failed, and one more has where its
\* call is about to be recorded.
Counted ==
    \A p \in Peer \ replaced :
        /\ status[p].by = NoTask => Covers(p, status[p].failures)
        /\ status[p].by # NoTask =>
              /\ task[status[p].by].pc = "failed" => Covers(p, status[p].failures + 1)
              /\ task[status[p].by].pc \notin {"failed", "done"}
                   => Covers(p, status[p].failures)

Inv == TypeOK /\ Owned /\ Guarded /\ Counted

\* The numbers and names that the types are made of.
LEMMA Bounds ==
    /\ EvictAfter \in Nat \ {0} /\ Initial \in Nat \ {0}
    /\ MaxBackoff \in Nat /\ ExponentCap \in Nat /\ MaxQueue \in Nat /\ MaxChurn \in Nat
    /\ NoTask \notin Task /\ NoLock \notin Lock /\ Slot \subseteq Task /\ Call \subseteq Task
  BY PeersAssumption, BoundsAssumption DEF Task

LEMMA IdleType == Idle \in TaskRecord /\ Idle.pc = "idle" /\ Idle.lock = NoLock
<1>1. (CHOOSE p \in Peer : TRUE) \in Peer
  BY PeersAssumption
<1>2. 0 \in Count
  BY Bounds DEF Count
<1> QED BY <1>1, <1>2 DEF Idle, TaskRecord

LEMMA BumpType ==
    ASSUME NEW n \in Count
    PROVE  /\ Bump(n) \in Count /\ Bump(n) \in Nat \ {0} /\ Bump(n) <= n + 1
           /\ Bump(n) >= EvictAfter => n + 1 >= EvictAfter
<1>1. n \in Int /\ EvictAfter + ExponentCap \in Int
  BY Bounds DEF Count
<1>2. 0 <= n /\ n <= EvictAfter + ExponentCap /\ 1 <= EvictAfter /\ 0 <= ExponentCap
  BY Bounds DEF Count
<1> QED BY <1>1, <1>2, Bounds DEF Count, Bump, Least

\* backoff_seconds() is never above the maximum.
LEMMA BackoffInRange == ASSUME NEW n \in Nat \ {0} PROVE Backoff(n) \in Wait
  BY Bounds DEF Backoff, Wait, Least

LEMMA Initially == Init => Inv
<1> SUFFICES ASSUME Init PROVE Inv
  OBVIOUS
<1>1. 0 \in Count /\ 0 \in Wait
  BY Bounds DEF Count, Wait
<1>2. Absent \in PeerStatus
  BY <1>1 DEF Absent, PeerStatus
<1>3. TypeOK
  <2>1. queue \in Seq(Peer)
    BY DEF Init
  <2>2. /\ status \in [Peer -> PeerStatus]
        /\ task \in [Task -> TaskRecord]
        /\ locks \in [Peer -> Lock \cup {NoLock}]
        /\ losses \in [Peer -> 0..EvictAfter]
        /\ churn \in 0..MaxChurn
    BY <1>2, IdleType, Bounds DEF Init
  <2> QED BY <2>1, <2>2 DEF Init, TypeOK
<1>4. Owned
  BY IdleType DEF Init, Owned, Absent
<1>5. Guarded
  BY IdleType DEF Init, Guarded
<1>6. Counted
  BY Bounds DEF Init, Counted, Covers, Absent
<1> QED BY <1>3, <1>4, <1>5, <1>6 DEF Inv
-----------------------------------------------------------------------------
(* The cadence and its calls. *)

LEMMA OrdersAreSequences ==
    ASSUME NEW S, S \subseteq Peer, NEW order \in Orders(S)
    PROVE  order \in Seq(Peer)
<1>1. Cardinality(S) \in Nat
  BY PeersAssumption, FS_Subset, FS_CardinalityType
<1>2. order \in [1..Cardinality(S) -> S]
  BY DEF Orders
<1> QED BY <1>1, <1>2

LEMMA PresentType ==
    ASSUME TypeOK, NEW p \in Peer
    PROVE  /\ Present(p) \in PeerStatus
           /\ Present(p).by = status[p].by /\ Present(p).failures = status[p].failures
  BY DEF TypeOK, Present, PeerStatus

LEMMA TickKeeps == ASSUME Inv, Tick PROVE Inv'
<1> USE DEF Inv
<1>1. queue' \in Seq(Peer)
  <2> DEFINE due == {p \in known \cup manual : status[p].wait = 0}
  <2>1. PICK order \in Orders(due) : queue' = queue \o order
    BY DEF Tick
  <2>2. due \subseteq Peer
    BY DEF TypeOK
  <2>3. order \in Seq(Peer)
    BY <2>2, OrdersAreSequences
  <2> QED BY <2>1, <2>3 DEF TypeOK
<1>2. /\ status' \in [Peer -> PeerStatus]
      /\ \A p \in Peer : status'[p].by = status[p].by /\ status'[p].failures = status[p].failures
  BY PresentType DEF Tick, TypeOK
<1>3. UNCHANGED <<known, manual, locks, held, task, paused, churn, losses, replaced, forgotten>>
  BY DEF Tick, history
<1>4. TypeOK'
  BY <1>1, <1>2, <1>3 DEF TypeOK
<1>5. Owned'
  BY <1>2, <1>3 DEF Owned, TypeOK, TaskRecord
<1>6. Guarded'
  BY <1>3 DEF Guarded
<1>7. Counted'
  BY <1>2, <1>3 DEF Counted, Covers
<1> QED BY <1>4, <1>5, <1>6, <1>7

LEMMA BeginKeeps ==
    ASSUME Inv, NEW t \in Task, NEW p \in Peer, Begin(t, p), queue' \in Seq(Peer)
    PROVE  Inv'
<1> USE DEF Inv
<1>1. UNCHANGED <<known, manual, locks, held, paused, churn, losses, replaced, forgotten>>
  BY DEF Begin, history
<1>2. CASE status[p].by # NoTask
  <2>1. UNCHANGED <<task, status>>
    BY <1>2 DEF Begin
  <2> QED BY <1>1, <2>1 DEF TypeOK, Owned, Guarded, Counted, Covers
<1>3. CASE status[p].by = NoTask
  <2> DEFINE begun == [Idle EXCEPT !.pc = "dialling", !.peer = p]
  <2>1. /\ task[t].pc = "idle"
        /\ task' = [task EXCEPT ![t] = begun]
        /\ status' = [status EXCEPT ![p] = [Present(p) EXCEPT !.by = t]]
    BY <1>3 DEF Begin
  <2>2. begun \in TaskRecord /\ begun.pc = "dialling" /\ begun.peer = p /\ ~begun.stale
    BY IdleType DEF TaskRecord, Idle
  <2>3. /\ [Present(p) EXCEPT !.by = t] \in PeerStatus
        /\ [Present(p) EXCEPT !.by = t].by = t
        /\ [Present(p) EXCEPT !.by = t].failures = status[p].failures
    BY PresentType DEF PeerStatus
  <2> HIDE DEF begun
  <2>4. TypeOK'
    BY <1>1, <2>1, <2>2, <2>3 DEF TypeOK
  <2>5. /\ \A u \in Task : u # t => task'[u] = task[u]
        /\ task'[t] = begun
        /\ \A q \in Peer : q # p => status'[q] = status[q]
        /\ status'[p].by = t /\ status'[p].failures = status[p].failures
    BY <2>1, <2>3 DEF TypeOK
  <2>6. \A q \in Peer : status[q].by # t /\ status[q].by \in Task \cup {NoTask}
    BY <2>1, Bounds DEF Owned, TypeOK, PeerStatus
  <2>7. Owned'
    <3>1. \A q \in Peer : status'[q].by # NoTask =>
             /\ task'[status'[q].by].pc # "idle"
             /\ task'[status'[q].by].peer = q
             /\ ~task'[status'[q].by].stale
      BY <2>2, <2>5, <2>6 DEF Owned
    <3>2. \A u \in Task \ {t} : task'[u].pc # "idle" =>
             IF task'[u].stale THEN task'[u].peer \in replaced
             ELSE status'[task'[u].peer].by = u
      BY <1>3, <2>5, Bounds DEF Owned, TypeOK, TaskRecord
    <3> QED BY <1>1, <2>2, <2>5, <3>1, <3>2 DEF Owned
  <2>8. Guarded'
    BY <1>1, <2>2, <2>5 DEF Guarded
  <2>9. Counted'
    <3>1. ASSUME NEW q \in Peer \ replaced
          PROVE  /\ status'[q].by = NoTask => Covers(q, status'[q].failures)
                 /\ status'[q].by # NoTask =>
                       /\ task'[status'[q].by].pc = "failed" => Covers(q, status'[q].failures + 1)
                       /\ task'[status'[q].by].pc \notin {"failed", "done"}
                            => Covers(q, status'[q].failures)
      <4>1. CASE q = p
        BY <1>3, <2>2, <2>5, <4>1, Bounds DEF Counted
      <4>2. CASE q # p
        BY <2>5, <2>6, <4>2 DEF Counted
      <4> QED BY <4>1, <4>2
    <3> QED BY <1>1, <3>1 DEF Counted, Covers
  <2> QED BY <2>4, <2>7, <2>8, <2>9
<1> QED BY <1>2, <1>3

LEMMA GetSlotKeeps == ASSUME Inv, NEW t \in Slot, GetSlot(t) PROVE Inv'
<1>1. queue \in Seq(Peer) /\ queue # <<>>
  BY DEF Inv, TypeOK, GetSlot
<1>2. Head(queue) \in Peer /\ Tail(queue) \in Seq(Peer)
  BY <1>1
<1> QED BY <1>2, BeginKeeps, Bounds DEF GetSlot

LEMMA SyncNowKeeps == ASSUME Inv, NEW t \in Call, NEW p \in Peer, SyncNow(t, p) PROVE Inv'
  BY BeginKeeps, Bounds DEF SyncNow, Inv, TypeOK
-----------------------------------------------------------------------------
(* A call goes from one of its states to another. *)

LEMMA CallMoves ==
    ASSUME Inv, NEW t \in Task, NEW r \in TaskRecord, task[t].pc # "idle",
           r.pc # "idle", r.peer = task[t].peer, r.stale = task[t].stale,
           task' = [task EXCEPT ![t] = r], UNCHANGED <<status, replaced>>
    PROVE  /\ Owned' /\ task' \in [Task -> TaskRecord] /\ task'[t] = r
           /\ \A u \in Task : u # t => task'[u] = task[u]
<1>1. /\ task' \in [Task -> TaskRecord] /\ task'[t] = r
      /\ \A u \in Task : u # t => task'[u] = task[u]
  BY DEF Inv, TypeOK
<1>2. \A p \in Peer : status[p].by \in Task \cup {NoTask}
  BY DEF Inv, TypeOK, PeerStatus
<1>3. \A p \in Peer : status'[p].by # NoTask =>
         /\ task'[status'[p].by].pc # "idle"
         /\ task'[status'[p].by].peer = p
         /\ ~task'[status'[p].by].stale
  BY <1>1, <1>2 DEF Inv, Owned
<1>4. \A u \in Task : task'[u].pc # "idle" =>
         IF task'[u].stale THEN task'[u].peer \in replaced'
         ELSE status'[task'[u].peer].by = u
  BY <1>1 DEF Inv, Owned
<1> QED BY <1>1, <1>3, <1>4 DEF Owned

\* One more failure of its peer.
LEMMA CallLoses ==
    ASSUME Inv, NEW t \in Task, NEW r \in TaskRecord,
           task[t].pc \in {"dialling", "waiting", "exchanging"},
           r.pc = "failed", r.peer = task[t].peer, r.stale = task[t].stale,
           task' = [task EXCEPT ![t] = r], UNCHANGED <<status, replaced>>,
           Lost(task[t].peer)
    PROVE  Counted' /\ losses' \in [Peer -> 0..EvictAfter]
<1> DEFINE p == task[t].peer
<1>1. p \in Peer
  BY DEF Inv, TypeOK, TaskRecord
<1>2. task'[t] = r /\ \A u \in Task : u # t => task'[u] = task[u]
  BY CallMoves
<1>3. /\ losses \in [Peer -> 0..EvictAfter]
      /\ losses' = [losses EXCEPT ![p] = Least(losses[p] + 1, EvictAfter)]
  BY DEF Inv, TypeOK, Lost
<1>4. losses' \in [Peer -> 0..EvictAfter]
  BY <1>1, <1>3, Bounds DEF Least
<1>5. ASSUME NEW q \in Peer \ replaced
      PROVE  /\ status[q].by = NoTask => Covers(q, status[q].failures)'
             /\ status[q].by # NoTask =>
                   /\ task'[status[q].by].pc = "failed" => Covers(q, status[q].failures + 1)'
                   /\ task'[status[q].by].pc \notin {"failed", "done"}
                        => Covers(q, status[q].failures)'
  <2>1. status[q].by \in Task \cup {NoTask} /\ status[q].failures \in Nat
    BY Bounds DEF Inv, TypeOK, PeerStatus, Count
  <2>2. CASE q = p
    <3>1. ~task[t].stale
      BY <2>2, <1>5 DEF Inv, Owned
    <3>2. status[q].by = t /\ status[q].by # NoTask
      BY <2>2, <3>1, Bounds DEF Inv, Owned
    <3>3. Covers(q, status[q].failures)
      BY <3>2, <1>5 DEF Inv, Counted
    <3>4. losses'[q] = Least(losses[q] + 1, EvictAfter) /\ losses[q] \in 0..EvictAfter
      BY <1>1, <1>3, <2>2
    <3>5. status'[q].failures = status[q].failures
      OBVIOUS
    <3>6. status[q].failures + 1 <= losses'[q] \/ losses'[q] = EvictAfter
      BY <2>1, <3>3, <3>4, Bounds DEF Covers, Least
    <3> QED BY <1>2, <3>2, <3>5, <3>6 DEF Covers
  <2>3. CASE q # p
    <3>1. losses'[q] = losses[q] /\ status'[q].failures = status[q].failures
      BY <1>3, <2>3
    <3>2. status[q].by # t
      BY <2>3, Bounds DEF Inv, Owned
    <3>3. status[q].by # NoTask => task'[status[q].by] = task[status[q].by]
      BY <1>2, <2>1, <3>2
    <3> QED BY <1>5, <3>1, <3>3 DEF Inv, Counted, Covers
  <2> QED BY <2>2, <2>3
<1> QED BY <1>4, <1>5 DEF Counted, Covers

\* No failure and no success yet.
LEMMA CallGoesOn ==
    ASSUME Inv, NEW t \in Task, NEW r \in TaskRecord,
           task[t].pc \in {"dialling", "waiting"}, r.pc \in {"waiting", "exchanging"},
           r.peer = task[t].peer, r.stale = task[t].stale,
           task' = [task EXCEPT ![t] = r], UNCHANGED <<status, replaced, losses>>
    PROVE  Counted'
<1>1. task'[t] = r /\ \A u \in Task : u # t => task'[u] = task[u]
  BY CallMoves
<1>2. \A q \in Peer : status[q].by \in Task \cup {NoTask}
  BY DEF Inv, TypeOK, PeerStatus
<1> QED BY <1>1, <1>2 DEF Inv, Counted, Covers

\* A call is done with the lock it waited for or held.
LEMMA CallLetsGo ==
    ASSUME Inv, NEW t \in Task, NEW r \in TaskRecord,
           r.pc \in {"idle", "failed", "done"}, task' = [task EXCEPT ![t] = r],
           UNCHANGED <<locks, forgotten>>,
           \/ held' = held
           \/ task[t].pc = "exchanging" /\ held' = held \ {task[t].lock}
    PROVE  Guarded'
<1>1. task'[t] = r /\ \A u \in Task : u # t => task'[u] = task[u]
  BY DEF Inv, TypeOK
<1>2. \A u \in Task : task'[u].pc \in {"waiting", "exchanging"} => task'[u] = task[u] /\ u # t
  BY <1>1
<1>3. \A u \in Task : task'[u].pc = "exchanging" => task'[u].lock \in held'
  BY <1>2 DEF Inv, Guarded
<1> QED BY <1>2, <1>3 DEF Inv, Guarded

LEMMA DialRefusedKeeps == ASSUME Inv, NEW t \in Task, DialRefused(t) PROVE Inv'
<1> DEFINE r == [task[t] EXCEPT !.pc = "failed"]
<1>1. /\ r \in TaskRecord /\ r.pc = "failed" /\ r.peer = task[t].peer /\ r.stale = task[t].stale
      /\ task[t].pc = "dialling"
  BY DEF Inv, TypeOK, TaskRecord, DialRefused, At
<1>2. task' = [task EXCEPT ![t] = r] /\ Lost(task[t].peer)
  BY DEF DialRefused, Goes
<1>3. UNCHANGED <<known, manual, status, locks, held, queue, paused, churn, replaced, forgotten>>
  BY DEF DialRefused
<1> HIDE DEF r
<1>4. Owned' /\ task' \in [Task -> TaskRecord]
  BY <1>1, <1>2, <1>3, CallMoves
<1>5. Counted' /\ losses' \in [Peer -> 0..EvictAfter]
  BY <1>1, <1>2, <1>3, CallLoses
<1>6. Guarded'
  BY <1>1, <1>2, <1>3, CallLetsGo
<1> QED BY <1>3, <1>4, <1>5, <1>6 DEF Inv, TypeOK

LEMMA TimeOutKeeps == ASSUME Inv, NEW t \in Task, TimeOut(t) PROVE Inv'
<1> DEFINE r == [task[t] EXCEPT !.pc = "failed", !.lock = NoLock]
<1>1. /\ r \in TaskRecord /\ r.pc = "failed" /\ r.peer = task[t].peer /\ r.stale = task[t].stale
      /\ task[t].pc = "waiting"
  BY DEF Inv, TypeOK, TaskRecord, TimeOut, At
<1>2. task' = [task EXCEPT ![t] = r] /\ Lost(task[t].peer)
  BY DEF TimeOut
<1>3. UNCHANGED <<known, manual, status, locks, held, queue, paused, churn, replaced, forgotten>>
  BY DEF TimeOut
<1> HIDE DEF r
<1>4. Owned' /\ task' \in [Task -> TaskRecord]
  BY <1>1, <1>2, <1>3, CallMoves
<1>5. Counted' /\ losses' \in [Peer -> 0..EvictAfter]
  BY <1>1, <1>2, <1>3, CallLoses
<1>6. Guarded'
  BY <1>1, <1>2, <1>3, CallLetsGo
<1> QED BY <1>3, <1>4, <1>5, <1>6 DEF Inv, TypeOK

LEMMA DialKeeps == ASSUME Inv, NEW t \in Task, Dial(t) PROVE Inv'
<1> DEFINE p == task[t].peer
           lock == IF locks[p] # NoLock THEN locks[p] ELSE CHOOSE l \in Lock : l \notin InUse
           r == [task[t] EXCEPT !.pc = "waiting", !.lock = lock]
<1>1. /\ p \in Peer /\ task[t].pc = "dialling"
      /\ locks' = [locks EXCEPT ![p] = lock]
      /\ task' = [task EXCEPT ![t] = r]
      /\ UNCHANGED <<known, manual, status, held, queue, paused, churn, losses, replaced, forgotten>>
  BY DEF Inv, TypeOK, TaskRecord, Dial, At, history
<1>2. lock \in Lock
  <2>1. CASE locks[p] # NoLock
    BY <1>1, <2>1 DEF Inv, TypeOK
  <2>2. CASE locks[p] = NoLock
    BY <2>2 DEF Dial
  <2> QED BY <2>1, <2>2
<1>3. locks[p] # NoLock => lock = locks[p]
  OBVIOUS
<1> HIDE DEF lock
<1>4. /\ r \in TaskRecord /\ r.pc = "waiting" /\ r.peer = p /\ r.stale = task[t].stale
      /\ r.lock = lock
  BY <1>2 DEF Inv, TypeOK, TaskRecord
<1> HIDE DEF p, r
<1>5. /\ Owned' /\ task' \in [Task -> TaskRecord] /\ task'[t] = r
      /\ \A u \in Task : u # t => task'[u] = task[u]
  BY <1>1, <1>4, CallMoves DEF p
<1>6. Counted'
  BY <1>1, <1>4, CallGoesOn DEF p
<1>7. locks' \in [Peer -> Lock \cup {NoLock}] /\ locks'[p] = lock
  BY <1>1, <1>2 DEF Inv, TypeOK
<1>8. Guarded'
  <2>1. ASSUME NEW u \in Task, u # t, task'[u].pc \in {"waiting", "exchanging"}
        PROVE  /\ task'[u].lock \in Lock
               /\ locks'[task'[u].peer] = task'[u].lock \/ task'[u].peer \in forgotten
    <3>1. /\ task[u] = task'[u] /\ task[u].peer \in Peer /\ task[u].lock \in Lock
          /\ locks[task[u].peer] = task[u].lock \/ task[u].peer \in forgotten
      BY <1>5, <2>1 DEF Inv, Guarded, TypeOK, TaskRecord
    <3>2. CASE task[u].peer = p /\ p \notin forgotten
      BY <1>3, <1>7, <3>1, <3>2, Bounds
    <3>3. CASE task[u].peer # p
      BY <1>1, <3>1, <3>3 DEF Inv, TypeOK
    <3> QED BY <3>1, <3>2, <3>3
  <2> QED BY <1>1, <1>2, <1>4, <1>5, <1>7, <2>1 DEF Inv, Guarded
<1> QED BY <1>1, <1>5, <1>6, <1>7, <1>8 DEF Inv, TypeOK

LEMMA TakeLockKeeps == ASSUME Inv, NEW t \in Task, TakeLock(t) PROVE Inv'
<1> DEFINE r == [task[t] EXCEPT !.pc = "exchanging"]
<1>1. /\ r \in TaskRecord /\ r.pc = "exchanging" /\ r.peer = task[t].peer
      /\ r.stale = task[t].stale /\ r.lock = task[t].lock /\ task[t].pc = "waiting"
  BY DEF Inv, TypeOK, TaskRecord, TakeLock, At
<1>2. /\ task' = [task EXCEPT ![t] = r] /\ task[t].lock \notin held
      /\ held' = held \cup {task[t].lock}
      /\ UNCHANGED <<known, manual, status, locks, queue, paused, churn, losses, replaced, forgotten>>
  BY DEF TakeLock, Goes, history
<1> HIDE DEF r
<1>3. /\ Owned' /\ task' \in [Task -> TaskRecord] /\ task'[t] = r
      /\ \A u \in Task : u # t => task'[u] = task[u]
  BY <1>1, <1>2, CallMoves
<1>4. Counted'
  BY <1>1, <1>2, CallGoesOn
<1>5. task[t].lock \in Lock
  BY <1>1 DEF Inv, Guarded
<1>6. Guarded'
  BY <1>1, <1>2, <1>3 DEF Inv, Guarded
<1> QED BY <1>2, <1>3, <1>4, <1>5, <1>6 DEF Inv, TypeOK

\* What the ends of an exchange have in common.
LEMMA ExchangeEnds ==
    ASSUME Inv, NEW t \in Task, NEW pc \in {"failed", "done"}, EndExchange(t, pc)
    PROVE  /\ Owned' /\ Guarded' /\ task' \in [Task -> TaskRecord] /\ held' \subseteq Lock
           /\ \E r \in TaskRecord :
                 /\ r.pc = pc /\ r.peer = task[t].peer /\ r.stale = task[t].stale
                 /\ task' = [task EXCEPT ![t] = r]
           /\ task[t].pc = "exchanging"
           /\ UNCHANGED <<known, manual, status, locks, queue, replaced, forgotten>>
<1> DEFINE r == [task[t] EXCEPT !.pc = pc, !.lock = NoLock]
<1>1. /\ r \in TaskRecord /\ r.pc = pc /\ r.peer = task[t].peer /\ r.stale = task[t].stale
      /\ task[t].pc = "exchanging"
  BY DEF Inv, TypeOK, TaskRecord, EndExchange, At
<1>2. /\ task' = [task EXCEPT ![t] = r] /\ held' = held \ {task[t].lock}
      /\ UNCHANGED <<known, manual, status, locks, queue, replaced, forgotten>>
  BY DEF EndExchange, Released
<1> HIDE DEF r
<1>3. Owned' /\ task' \in [Task -> TaskRecord]
  BY <1>1, <1>2, CallMoves
<1>4. Guarded'
  BY <1>1, <1>2, CallLetsGo
<1> QED BY <1>1, <1>2, <1>3, <1>4 DEF Inv, TypeOK

LEMMA ExchangeSucceedsKeeps == ASSUME Inv, NEW t \in Task, ExchangeSucceeds(t) PROVE Inv'
<1> DEFINE p == task[t].peer
<1>1. EndExchange(t, "done") /\ losses' = [losses EXCEPT ![p] = 0] /\ UNCHANGED <<paused, churn>>
  BY DEF ExchangeSucceeds
<1>2. PICK r \in TaskRecord : r.pc = "done" /\ r.peer = p /\ r.stale = task[t].stale
                              /\ task' = [task EXCEPT ![t] = r]
  BY <1>1, ExchangeEnds
<1>3. /\ Owned' /\ Guarded' /\ task' \in [Task -> TaskRecord] /\ held' \subseteq Lock
      /\ task[t].pc = "exchanging"
      /\ UNCHANGED <<known, manual, status, locks, queue, replaced, forgotten>>
  BY <1>1, ExchangeEnds
<1>4. losses' \in [Peer -> 0..EvictAfter]
  <2>1. 0 \in 0..EvictAfter
    BY Bounds
  <2>2. losses \in [Peer -> 0..EvictAfter]
    BY DEF Inv, TypeOK
  <2> QED BY <1>1, <2>1, <2>2
<1>5. task'[t] = r /\ \A u \in Task : u # t => task'[u] = task[u]
  BY <1>2 DEF Inv, TypeOK
<1>6. ASSUME NEW q \in Peer \ replaced
      PROVE  /\ status[q].by = NoTask => Covers(q, status[q].failures)'
             /\ status[q].by # NoTask =>
                   /\ task'[status[q].by].pc = "failed" => Covers(q, status[q].failures + 1)'
                   /\ task'[status[q].by].pc \notin {"failed", "done"}
                        => Covers(q, status[q].failures)'
  <2>1. CASE q = p
    <3>1. ~task[t].stale
      BY <2>1, <1>3, <1>6 DEF Inv, Owned
    <3>2. status[q].by = t
      BY <2>1, <1>3, <3>1 DEF Inv, Owned
    <3> QED BY <1>2, <1>5, <3>2, Bounds
  <2>2. CASE q # p
    <3>1. losses'[q] = losses[q] /\ status'[q].failures = status[q].failures
      BY <1>1, <1>3, <2>2 DEF Inv, TypeOK
    <3>2. status[q].by # t /\ status[q].by \in Task \cup {NoTask}
      BY <2>2, Bounds DEF Inv, Owned, TypeOK, PeerStatus
    <3>3. status[q].by # NoTask => task'[status[q].by] = task[status[q].by]
      BY <1>5, <3>2
    <3> QED BY <1>6, <3>1, <3>3 DEF Inv, Counted, Covers
  <2> QED BY <2>1, <2>2
<1>7. Counted'
  BY <1>3, <1>6 DEF Counted, Covers
<1> QED BY <1>1, <1>3, <1>4, <1>7 DEF Inv, TypeOK

LEMMA ExchangeLost ==
    ASSUME Inv, NEW t \in Task, EndExchange(t, "failed"), Lost(task[t].peer),
           paused' \in BOOLEAN, churn' \in 0..MaxChurn
    PROVE  Inv'
<1>1. PICK r \in TaskRecord : r.pc = "failed" /\ r.peer = task[t].peer /\ r.stale = task[t].stale
                              /\ task' = [task EXCEPT ![t] = r]
  BY ExchangeEnds
<1>2. /\ Owned' /\ Guarded' /\ task' \in [Task -> TaskRecord] /\ held' \subseteq Lock
      /\ task[t].pc = "exchanging"
      /\ UNCHANGED <<known, manual, status, locks, queue, replaced, forgotten>>
  BY ExchangeEnds
<1>3. Counted' /\ losses' \in [Peer -> 0..EvictAfter]
  BY <1>1, <1>2, CallLoses
<1> QED BY <1>2, <1>3 DEF Inv, TypeOK

LEMMA ExchangeFailsKeeps == ASSUME Inv, NEW t \in Task, ExchangeFails(t) PROVE Inv'
  BY ExchangeLost DEF ExchangeFails, Inv, TypeOK

LEMMA ExchangeFillsKeeps == ASSUME Inv, NEW t \in Task, ExchangeFills(t) PROVE Inv'
<1>1. churn' \in 0..MaxChurn /\ paused' \in BOOLEAN
  BY Bounds DEF ExchangeFills, Inv, TypeOK
<1> QED BY <1>1, ExchangeLost DEF ExchangeFills
-----------------------------------------------------------------------------
(* What becomes of the result, and of the peers. *)

LEMMA ClearedType ==
    ASSUME TypeOK, NEW p \in Peer
    PROVE  Cleared(status[p]) \in PeerStatus /\ Cleared(status[p]).by = NoTask
           /\ Cleared(status[p]).failures = 0
<1>1. 0 \in Count /\ 0 \in Wait
  BY Bounds DEF Count, Wait
<1>2. status[p] \in PeerStatus
  BY DEF TypeOK
<1> QED BY <1>1, <1>2 DEF PeerStatus, Cleared

\* A call ends, and gives the status that it has back to the scheduler.
LEMMA CallReturns ==
    ASSUME Inv, NEW t \in Task, task[t].pc \in {"failed", "done"},
           task' = [task EXCEPT ![t] = Idle],
           NEW s \in PeerStatus, s.by = NoTask,
           status' = IF task[t].stale THEN status ELSE [status EXCEPT ![task[t].peer] = s],
           task[t].peer \notin replaced => Covers(task[t].peer, s.failures),
           UNCHANGED <<locks, held, losses, replaced, forgotten>>
    PROVE  /\ Owned' /\ Guarded' /\ Counted'
           /\ task' \in [Task -> TaskRecord] /\ status' \in [Peer -> PeerStatus]
<1> DEFINE p == task[t].peer
<1>1. /\ p \in Peer /\ task' \in [Task -> TaskRecord] /\ status' \in [Peer -> PeerStatus]
      /\ task'[t] = Idle /\ \A u \in Task : u # t => task'[u] = task[u]
      /\ \A q \in Peer : status[q].by \in Task \cup {NoTask}
  BY IdleType DEF Inv, TypeOK, TaskRecord, PeerStatus
<1>2. /\ \A q \in Peer : q # p => status'[q] = status[q] /\ status[q].by # t
      /\ task[t].stale => status' = status /\ status[p].by # t
      /\ ~task[t].stale => status'[p] = s /\ status[p].by = t
  BY <1>1, Bounds DEF Inv, TypeOK, Owned
<1>3. \A q \in Peer : \/ status'[q] = status[q] /\ status[q].by # t
                      \/ q = p /\ ~task[t].stale /\ status'[q] = s
  BY <1>2
<1>4. Owned'
  <2>1. ASSUME NEW q \in Peer, status'[q].by # NoTask
        PROVE  /\ task'[status'[q].by].pc # "idle"
               /\ task'[status'[q].by].peer = q
               /\ ~task'[status'[q].by].stale
    <3>1. status'[q] = status[q] /\ status[q].by \in Task \ {t}
      BY <1>1, <1>3, <2>1
    <3> QED BY <1>1, <2>1, <3>1 DEF Inv, Owned
  <2>2. ASSUME NEW u \in Task, task'[u].pc # "idle"
        PROVE  IF task'[u].stale THEN task'[u].peer \in replaced
               ELSE status'[task'[u].peer].by = u
    <3>1. u # t /\ task'[u] = task[u] /\ task[u].peer \in Peer
      BY <1>1, <2>2, IdleType DEF Inv, TypeOK, TaskRecord
    <3>2. CASE task[u].stale
      BY <2>2, <3>1, <3>2 DEF Inv, Owned
    <3>3. CASE ~task[u].stale
      <4>1. status[task[u].peer].by = u
        BY <2>2, <3>1, <3>3 DEF Inv, Owned
      <4>2. task[u].peer # p \/ task[t].stale
        BY <1>2, <3>1, <4>1
      <4> QED BY <1>2, <3>1, <3>3, <4>1, <4>2
    <3> QED BY <3>2, <3>3
  <2> QED BY <2>1, <2>2 DEF Owned
<1>5. Guarded'
  BY IdleType, CallLetsGo
<1>6. Counted'
  <2>1. ASSUME NEW q \in Peer \ replaced
        PROVE  /\ status'[q].by = NoTask => Covers(q, status'[q].failures)
               /\ status'[q].by # NoTask =>
                     /\ task'[status'[q].by].pc = "failed" => Covers(q, status'[q].failures + 1)
                     /\ task'[status'[q].by].pc \notin {"failed", "done"}
                          => Covers(q, status'[q].failures)
    <3>1. CASE status'[q] = status[q] /\ status[q].by # t
      <4>1. status[q].by # NoTask => task'[status[q].by] = task[status[q].by]
        BY <1>1, <3>1
      <4> QED BY <2>1, <3>1, <4>1 DEF Inv, Counted
    <3>2. CASE q = p /\ ~task[t].stale /\ status'[q] = s
      BY <2>1, <3>2
    <3> QED BY <1>3, <3>1, <3>2
  <2> QED BY <2>1 DEF Counted, Covers
<1> QED BY <1>1, <1>4, <1>5, <1>6

LEMMA RecordSuccessKeeps == ASSUME Inv, NEW t \in Task, RecordSuccess(t) PROVE Inv'
<1> DEFINE p == task[t].peer
           s == Cleared(status[p])
<1>1. p \in Peer
  BY DEF Inv, TypeOK, TaskRecord
<1>2. s \in PeerStatus /\ s.by = NoTask /\ s.failures = 0
  BY <1>1, ClearedType DEF Inv
<1>3. /\ task[t].pc = "done" /\ task' = [task EXCEPT ![t] = Idle]
      /\ status' = IF task[t].stale THEN status ELSE [status EXCEPT ![p] = s]
      /\ UNCHANGED <<known, manual, locks, held, queue, paused, churn, losses, replaced, forgotten>>
  BY DEF RecordSuccess, At, history
<1>4. Covers(p, 0)
  BY <1>1, Bounds DEF Inv, TypeOK, Covers
<1> HIDE DEF s
<1>5. /\ Owned' /\ Guarded' /\ Counted'
      /\ task' \in [Task -> TaskRecord] /\ status' \in [Peer -> PeerStatus]
  BY <1>2, <1>3, <1>4, CallReturns
<1> QED BY <1>3, <1>5 DEF Inv, TypeOK

\* The status of p is dropped; rest: the calls that go on.
LEMMA StatusDropped ==
    ASSUME Inv, NEW p \in Peer, NEW rest \in [Task -> TaskRecord],
           \A u \in Task : rest[u] = task[u] \/ rest[u] = Idle,
           \A u \in Task : rest[u] # task[u] => task[u].pc = "failed" /\ task[u].peer = p,
           status' = [status EXCEPT ![p] = Absent], task' = Dropped(p, rest),
           Replaces(p, rest), UNCHANGED losses
    PROVE  /\ Owned' /\ Counted'
           /\ task' \in [Task -> TaskRecord] /\ status' \in [Peer -> PeerStatus]
           /\ replaced \subseteq replaced' /\ replaced' \subseteq Peer
           /\ \A u \in Task : /\ task'[u].pc = rest[u].pc /\ task'[u].peer = rest[u].peer
                              /\ task'[u].lock = rest[u].lock
<1>1. /\ Absent \in PeerStatus /\ Absent.by = NoTask /\ Absent.failures = 0
      /\ status' \in [Peer -> PeerStatus] /\ status'[p] = Absent
      /\ \A q \in Peer : q # p => status'[q] = status[q]
      /\ \A q \in Peer : status[q].by \in Task \cup {NoTask} /\ status[q].failures \in Count
  <2>1. 0 \in Count /\ 0 \in Wait
    BY Bounds DEF Count, Wait
  <2>2. Absent \in PeerStatus /\ Absent.by = NoTask /\ Absent.failures = 0
    BY <2>1 DEF Absent, PeerStatus
  <2>3. status \in [Peer -> PeerStatus]
    BY DEF Inv, TypeOK
  <2>4. \A q \in Peer : status[q].by \in Task \cup {NoTask} /\ status[q].failures \in Count
    BY <2>3 DEF PeerStatus
  <2> QED BY <2>2, <2>3, <2>4
<1>2. \A u \in Task :
         task'[u] = IF status[p].by = u /\ rest[u].pc # "idle"
                    THEN [rest[u] EXCEPT !.stale = TRUE, !.failures = status[p].failures]
                    ELSE rest[u]
  BY DEF Dropped
<1>3. task' \in [Task -> TaskRecord]
  <2>1. \A u \in Task :
           [rest[u] EXCEPT !.stale = TRUE, !.failures = status[p].failures] \in TaskRecord
    <3>1. \A r \in TaskRecord, n \in Count :
             [r EXCEPT !.stale = TRUE, !.failures = n] \in TaskRecord
      BY DEF TaskRecord
    <3> QED BY <1>1, <3>1
  <2>2. \A u \in Task : task'[u] \in TaskRecord
    BY <1>2, <2>1
  <2> QED BY <2>2 DEF Dropped
<1>4. \A u \in Task : /\ task'[u].pc = rest[u].pc /\ task'[u].peer = rest[u].peer
                      /\ task'[u].lock = rest[u].lock
                      /\ status[p].by = u /\ rest[u].pc # "idle" => task'[u].stale
  BY <1>2 DEF TaskRecord
<1>5. /\ replaced \subseteq replaced' /\ replaced' \subseteq replaced \cup {p} /\ replaced' \subseteq Peer
      /\ \A u \in Task : status[p].by = u /\ rest[u].pc # "idle" => p \in replaced'
  BY DEF Replaces, Inv, TypeOK
<1>6. \A u \in Task : rest[u].pc # "idle" => rest[u] = task[u]
  BY IdleType
<1>7. ASSUME NEW q \in Peer \ {p}, NEW u \in Task, status[q].by = u
      PROVE  task'[u] = task[u]
  <2>1. u # NoTask
    BY Bounds
  <2>2. task[u].peer = q
    BY <1>7, <2>1 DEF Inv, Owned
  <2>3. status[p].by # u
    BY <2>1, <2>2 DEF Inv, Owned
  <2>4. rest[u] = task[u]
    BY <2>2
  <2> QED BY <1>2, <2>3, <2>4
<1>8. Owned'
  <2>1. ASSUME NEW q \in Peer, status'[q].by # NoTask
        PROVE  /\ task'[status'[q].by].pc # "idle"
               /\ task'[status'[q].by].peer = q
               /\ ~task'[status'[q].by].stale
    <3>1. q # p /\ status'[q].by = status[q].by /\ status[q].by \in Task
      BY <1>1, <2>1
    <3>2. task'[status[q].by] = task[status[q].by]
      BY <1>7, <3>1
    <3> QED BY <2>1, <3>1, <3>2 DEF Inv, Owned
  <2>2. ASSUME NEW u \in Task, task'[u].pc # "idle"
        PROVE  IF task'[u].stale THEN task'[u].peer \in replaced'
               ELSE status'[task'[u].peer].by = u
    <3>1. rest[u] = task[u] /\ task[u].pc # "idle" /\ task[u].peer \in Peer
      BY <1>4, <1>6, <2>2 DEF Inv, TypeOK, TaskRecord
    <3>2. CASE status[p].by = u
      <4>1. u # NoTask
        BY Bounds
      <4>2. task[u].peer = p
        BY <3>2, <4>1 DEF Inv, Owned
      <4>3. task'[u].stale /\ task'[u].peer = p /\ p \in replaced'
        BY <1>4, <1>5, <3>1, <3>2, <4>2
      <4> QED BY <4>3
    <3>3. CASE status[p].by # u
      <4>1. task'[u] = task[u]
        BY <1>2, <3>1, <3>3
      <4>2. CASE task[u].stale
        BY <1>5, <3>1, <4>1, <4>2 DEF Inv, Owned
      <4>3. CASE ~task[u].stale
        BY <1>1, <3>1, <3>3, <4>1, <4>3 DEF Inv, Owned
      <4> QED BY <4>2, <4>3
    <3> QED BY <3>2, <3>3
  <2> QED BY <2>1, <2>2 DEF Owned
<1>9. Counted'
  <2>1. ASSUME NEW q \in Peer \ replaced'
        PROVE  /\ status'[q].by = NoTask => Covers(q, status'[q].failures)
               /\ status'[q].by # NoTask =>
                     /\ task'[status'[q].by].pc = "failed" => Covers(q, status'[q].failures + 1)
                     /\ task'[status'[q].by].pc \notin {"failed", "done"}
                          => Covers(q, status'[q].failures)
    <3>1. CASE q = p
      BY <1>1, <3>1, Bounds DEF Inv, TypeOK, Covers
    <3>2. CASE q # p
      <4>1. status'[q] = status[q] /\ q \in Peer \ replaced
        BY <1>1, <1>5, <2>1, <3>2
      <4>2. status[q].by # NoTask => task'[status[q].by] = task[status[q].by]
        BY <1>1, <1>7, <3>2
      <4> QED BY <4>1, <4>2 DEF Inv, Counted
    <3> QED BY <3>1, <3>2
  <2> QED BY <2>1 DEF Counted, Covers
<1> QED BY <1>1, <1>3, <1>4, <1>5, <1>8, <1>9

\* A failure is recorded in a status, or in the copy that the call has kept.
LEMMA FailureKept ==
    ASSUME Inv, NEW t \in Task, NEW n \in Count, RecordFailure(t),
           n = Bump(IF task[t].stale THEN task[t].failures ELSE status[task[t].peer].failures),
           ~ToEvict(task[t].peer, n)
    PROVE  Inv'
<1> DEFINE p == task[t].peer
           s == [status[p] EXCEPT !.failures = n, !.wait = Backoff(n), !.by = NoTask]
<1>1. p \in Peer /\ status[p] \in PeerStatus /\ task[t].failures \in Count
  BY DEF Inv, TypeOK, TaskRecord
<1>2. status[p].failures \in Count
  BY <1>1 DEF PeerStatus
<1>3. n \in Nat \ {0} /\ Backoff(n) \in Wait
  BY <1>1, <1>2, BumpType, BackoffInRange
<1>4. s \in PeerStatus /\ s.by = NoTask /\ s.failures = n
  BY <1>1, <1>3 DEF PeerStatus
<1>5. /\ task[t].pc = "failed" /\ task' = [task EXCEPT ![t] = Idle]
      /\ status' = IF task[t].stale THEN status
                   ELSE [status EXCEPT ![p].failures = n, ![p].wait = Backoff(n), ![p].by = NoTask]
      /\ UNCHANGED <<known, manual, locks, held, queue, paused, churn, losses, replaced, forgotten>>
  BY DEF RecordFailure, At
<1>6. status' = IF task[t].stale THEN status ELSE [status EXCEPT ![p] = s]
  BY <1>1, <1>5 DEF Inv, TypeOK
<1>7. p \notin replaced => Covers(p, n)
  <2>1. SUFFICES ASSUME p \notin replaced PROVE Covers(p, n)
    OBVIOUS
  <2>2. ~task[t].stale /\ status[p].by = t /\ t # NoTask
    BY <1>5, <2>1, Bounds DEF Inv, Owned
  <2>3. Covers(p, status[p].failures + 1)
    BY <1>1, <1>5, <2>1, <2>2 DEF Inv, Counted
  <2>4. n <= status[p].failures + 1
    BY <1>2, <2>2, BumpType
  <2>5. status[p].failures \in Nat /\ losses[p] \in Nat
    BY <1>1, <1>2, Bounds DEF Inv, TypeOK, Count
  <2> QED BY <1>3, <2>3, <2>4, <2>5 DEF Covers
<1> HIDE DEF s
<1>8. /\ Owned' /\ Guarded' /\ Counted'
      /\ task' \in [Task -> TaskRecord] /\ status' \in [Peer -> PeerStatus]
  BY <1>4, <1>5, <1>6, <1>7, CallReturns
<1> QED BY <1>5, <1>8 DEF Inv, TypeOK

\* Whether or not the lock of p goes, a call keeps the one that it has.
LEMMA LockForgotten ==
    ASSUME Inv, NEW p \in Peer, Forgets(p), locks' = [locks EXCEPT ![p] = NoLock],
           NEW u \in Task, task[u].pc \in {"waiting", "exchanging"}
    PROVE  locks'[task[u].peer] = task[u].lock \/ task[u].peer \in forgotten'
<1>1. /\ task[u].lock \in Lock /\ task[u].peer \in Peer
      /\ locks[task[u].peer] = task[u].lock \/ task[u].peer \in forgotten
  BY DEF Inv, Guarded, TypeOK, TaskRecord
<1>2. forgotten \subseteq forgotten'
  BY DEF Forgets
<1>3. CASE task[u].peer = p /\ locks[p] = task[u].lock
  BY <1>1, <1>3, Bounds DEF Forgets
<1>4. CASE task[u].peer # p
  BY <1>1, <1>2, <1>4 DEF Inv, TypeOK
<1> QED BY <1>1, <1>2, <1>3, <1>4

LEMMA ForgottenType ==
    ASSUME Inv, NEW p \in Peer, Forgets(p), locks' = [locks EXCEPT ![p] = NoLock]
    PROVE  forgotten' \subseteq Peer /\ locks' \in [Peer -> Lock \cup {NoLock}]
  BY DEF Inv, TypeOK, Forgets

LEMMA EvictionKeeps ==
    ASSUME Inv, NEW t \in Task, NEW n \in Count, RecordFailure(t),
           n = Bump(IF task[t].stale THEN task[t].failures ELSE status[task[t].peer].failures),
           ToEvict(task[t].peer, n)
    PROVE  Inv'
<1> DEFINE p == task[t].peer
           rest == [task EXCEPT ![t] = Idle]
<1>1. /\ task[t].pc = "failed" /\ known' = known \ {p}
      /\ locks' = [locks EXCEPT ![p] = NoLock] /\ status' = [status EXCEPT ![p] = Absent]
      /\ task' = Dropped(p, rest) /\ Replaces(p, rest) /\ Forgets(p)
      /\ UNCHANGED <<manual, held, queue, paused, churn, losses>>
  BY DEF RecordFailure, At
<1>2. /\ p \in Peer /\ rest \in [Task -> TaskRecord]
      /\ rest[t] = Idle /\ \A u \in Task : u # t => rest[u] = task[u]
  BY IdleType DEF Inv, TypeOK, TaskRecord
<1> HIDE DEF rest
<1>3. /\ Owned' /\ Counted'
      /\ task' \in [Task -> TaskRecord] /\ status' \in [Peer -> PeerStatus]
      /\ replaced \subseteq replaced' /\ replaced' \subseteq Peer
      /\ \A u \in Task : /\ task'[u].pc = rest[u].pc /\ task'[u].peer = rest[u].peer
                         /\ task'[u].lock = rest[u].lock
  <2>1. \A u \in Task : rest[u] = task[u] \/ rest[u] = Idle
    BY <1>2
  <2>2. \A u \in Task : rest[u] # task[u] => task[u].pc = "failed" /\ task[u].peer = p
    BY <1>1, <1>2
  <2>3. UNCHANGED losses
    BY <1>1
  <2> HIDE DEF p
  <2> QED BY <1>1, <1>2, <2>1, <2>2, <2>3, StatusDropped
<1>4. forgotten' \subseteq Peer /\ locks' \in [Peer -> Lock \cup {NoLock}]
  BY <1>1, <1>2, ForgottenType
<1>5. \A u \in Task : task'[u].pc \in {"waiting", "exchanging"} =>
         /\ u # t /\ task'[u].pc = task[u].pc
         /\ task'[u].peer = task[u].peer /\ task'[u].lock = task[u].lock
  BY <1>2, <1>3, IdleType
<1>6. Guarded'
  <2>1. \A u \in Task : task'[u].pc \in {"waiting", "exchanging"} =>
           locks'[task'[u].peer] = task'[u].lock \/ task'[u].peer \in forgotten'
    BY <1>1, <1>2, <1>5, LockForgotten
  <2> QED BY <1>1, <1>5, <2>1 DEF Inv, Guarded
<1>7. known' \subseteq Peer
  BY <1>1 DEF Inv, TypeOK
<1> QED BY <1>1, <1>3, <1>4, <1>6, <1>7 DEF Inv, TypeOK

LEMMA RecordFailureKeeps == ASSUME Inv, NEW t \in Task, RecordFailure(t) PROVE Inv'
<1> DEFINE n == Bump(IF task[t].stale THEN task[t].failures ELSE status[task[t].peer].failures)
<1>1. task[t] \in TaskRecord /\ status[task[t].peer] \in PeerStatus
  BY DEF Inv, TypeOK, TaskRecord
<1>2. (IF task[t].stale THEN task[t].failures ELSE status[task[t].peer].failures) \in Count
  BY <1>1 DEF TaskRecord, PeerStatus
<1>3. n \in Count
  BY <1>2, BumpType
<1> QED BY <1>3, FailureKept, EvictionKeeps

LEMMA CallStepKeeps == ASSUME Inv, NEW t \in Task, CallStep(t) PROVE Inv'
  BY DialRefusedKeeps, DialKeeps, TakeLockKeeps, ExchangeSucceedsKeeps, ExchangeFailsKeeps,
     RecordSuccessKeeps, RecordFailureKeeps DEF CallStep
-----------------------------------------------------------------------------
(* The network, the disk and the operator. *)

\* What a step leaves of the invariant that only touches the statuses' waits.
LEMMA StatusTouched ==
    ASSUME Inv, status' \in [Peer -> PeerStatus],
           \A p \in Peer : status'[p].by = status[p].by /\ status'[p].failures = status[p].failures,
           UNCHANGED <<locks, held, task, losses, replaced, forgotten>>
    PROVE  Owned' /\ Guarded' /\ Counted'
<1>1. Owned'
  BY DEF Inv, Owned, TypeOK, TaskRecord
<1>2. Guarded'
  BY DEF Inv, Guarded
<1>3. Counted'
  BY DEF Inv, Counted, Covers
<1> QED BY <1>1, <1>2, <1>3

LEMMA ElapseKeeps == ASSUME Inv, Elapse PROVE Inv'
<1>1. ASSUME NEW p \in Peer
      PROVE  /\ status'[p] \in PeerStatus
             /\ status'[p].by = status[p].by /\ status'[p].failures = status[p].failures
  <2>1. status[p] \in PeerStatus
    BY DEF Inv, TypeOK
  <2>2. status[p].wait - 1 \in Wait
    BY <2>1, Bounds DEF PeerStatus, Wait
  <2>3. [status[p] EXCEPT !.wait = status[p].wait - 1] \in PeerStatus
    BY <2>1, <2>2 DEF PeerStatus
  <2>4. status'[p] = IF status[p].wait = 0 THEN status[p]
                     ELSE [status[p] EXCEPT !.wait = status[p].wait - 1]
    BY DEF Elapse
  <2> QED BY <2>1, <2>3, <2>4 DEF PeerStatus
<1>2. status' \in [Peer -> PeerStatus]
  <2>1. status' = [p \in Peer |-> status'[p]]
    BY DEF Elapse
  <2> QED BY <1>1, <2>1
<1>3. UNCHANGED <<known, manual, locks, held, queue, task, paused, churn, losses, replaced, forgotten>>
  BY DEF Elapse, history
<1>4. Owned' /\ Guarded' /\ Counted'
  BY <1>1, <1>2, <1>3, StatusTouched
<1> QED BY <1>2, <1>3, <1>4 DEF Inv, TypeOK

LEMMA AdvertiseKeeps == ASSUME Inv, NEW p \in Peer, Advertise(p) PROVE Inv'
<1>1. UNCHANGED <<manual, status, locks, held, queue, task, paused, churn, losses, replaced, forgotten>>
  BY DEF Advertise, history
<1>2. known' \subseteq Peer /\ status' \in [Peer -> PeerStatus]
  BY <1>1 DEF Advertise, Inv, TypeOK
<1>3. Owned' /\ Guarded' /\ Counted'
  BY <1>1, <1>2, StatusTouched
<1> QED BY <1>1, <1>2, <1>3 DEF Inv, TypeOK

LEMMA DepartKeeps == ASSUME Inv, NEW p \in Peer, Depart(p) PROVE Inv'
<1>1. /\ locks' = [locks EXCEPT ![p] = NoLock] /\ Forgets(p)
      /\ known' = known \ {p} /\ churn' = churn + 1 /\ churn < MaxChurn
      /\ UNCHANGED <<manual, status, held, queue, task, paused, losses, replaced>>
  BY DEF Depart
<1>2. forgotten' \subseteq Peer /\ locks' \in [Peer -> Lock \cup {NoLock}]
  BY <1>1, ForgottenType
<1>3. known' \subseteq Peer /\ churn' \in 0..MaxChurn
  BY <1>1, Bounds DEF Inv, TypeOK
<1>4. Owned'
  BY <1>1 DEF Inv, Owned
<1>5. Guarded'
  <2>1. \A u \in Task : task[u].pc \in {"waiting", "exchanging"} =>
           locks'[task[u].peer] = task[u].lock \/ task[u].peer \in forgotten'
    BY <1>1, LockForgotten
  <2> QED BY <1>1, <2>1 DEF Inv, Guarded
<1>6. Counted'
  BY <1>1 DEF Inv, Counted, Covers
<1> QED BY <1>1, <1>2, <1>3, <1>4, <1>5, <1>6 DEF Inv, TypeOK

LEMMA AddPeerKeeps == ASSUME Inv, NEW p \in Peer, AddPeer(p) PROVE Inv'
<1>1. /\ status' = [status EXCEPT ![p] = Present(p)]
      /\ UNCHANGED <<locks, held, queue, task, paused, losses, replaced, forgotten>>
  BY DEF AddPeer, history
<1>2. /\ status' \in [Peer -> PeerStatus]
      /\ \A q \in Peer : status'[q].by = status[q].by /\ status'[q].failures = status[q].failures
  BY <1>1, PresentType DEF Inv, TypeOK
<1>3. known' \subseteq Peer /\ manual' \subseteq Peer /\ churn' \in 0..MaxChurn
  BY Bounds DEF AddPeer, Inv, TypeOK
<1>4. Owned' /\ Guarded' /\ Counted'
  BY <1>1, <1>2, StatusTouched
<1> QED BY <1>1, <1>2, <1>3, <1>4 DEF Inv, TypeOK

LEMMA RemovePeerKeeps == ASSUME Inv, NEW p \in Peer, RemovePeer(p) PROVE Inv'
<1>1. /\ status' = [status EXCEPT ![p] = Absent] /\ task' = Dropped(p, task) /\ Replaces(p, task)
      /\ UNCHANGED <<locks, held, queue, paused, losses, forgotten>>
  BY DEF RemovePeer
<1>2. known' \subseteq Peer /\ manual' \subseteq Peer /\ churn' \in 0..MaxChurn
  BY Bounds DEF RemovePeer, Inv, TypeOK
<1>3. task \in [Task -> TaskRecord]
  BY DEF Inv, TypeOK
<1>4. /\ Owned' /\ Counted'
      /\ task' \in [Task -> TaskRecord] /\ status' \in [Peer -> PeerStatus]
      /\ replaced' \subseteq Peer
      /\ \A u \in Task : /\ task'[u].pc = task[u].pc /\ task'[u].peer = task[u].peer
                         /\ task'[u].lock = task[u].lock
  BY <1>1, <1>3, StatusDropped
<1>5. Guarded'
  BY <1>1, <1>4 DEF Inv, Guarded
<1> QED BY <1>1, <1>2, <1>4, <1>5 DEF Inv, TypeOK

LEMMA ResumeKeeps == ASSUME Inv, Resume PROVE Inv'
<1>1. /\ paused' \in BOOLEAN
      /\ UNCHANGED <<known, manual, status, locks, held, queue, task, churn, losses, replaced, forgotten>>
  BY DEF Resume, history
<1>2. status' \in [Peer -> PeerStatus]
  BY <1>1 DEF Inv, TypeOK
<1>3. Owned' /\ Guarded' /\ Counted'
  BY <1>1, <1>2, StatusTouched
<1> QED BY <1>1, <1>3 DEF Inv, TypeOK

LEMMA Stutters == ASSUME Inv, UNCHANGED vars PROVE Inv'
<1>1. UNCHANGED <<known, manual, status, locks, held, queue, task, paused, churn, losses, replaced, forgotten>>
  BY DEF vars, history
<1>2. status' \in [Peer -> PeerStatus]
  BY <1>1 DEF Inv, TypeOK
<1>3. Owned' /\ Guarded' /\ Counted'
  BY <1>1, <1>2, StatusTouched
<1> QED BY <1>1, <1>3 DEF Inv, TypeOK

LEMMA EachStep == Inv /\ [Next]_vars => Inv'
<1> SUFFICES ASSUME Inv, [Next]_vars PROVE Inv'
  OBVIOUS
<1>1. CASE Tick
  BY <1>1, TickKeeps
<1>2. ASSUME NEW t \in Task, CallStep(t) \/ TimeOut(t) \/ ExchangeFills(t) PROVE Inv'
  BY <1>2, CallStepKeeps, TimeOutKeeps, ExchangeFillsKeeps
<1>3. ASSUME NEW t \in Slot, GetSlot(t) PROVE Inv'
  BY <1>3, GetSlotKeeps
<1>4. ASSUME NEW t \in Call, NEW p \in Peer, SyncNow(t, p) PROVE Inv'
  BY <1>4, SyncNowKeeps
<1>5. ASSUME NEW p \in Peer, Advertise(p) \/ Depart(p) \/ AddPeer(p) \/ RemovePeer(p) PROVE Inv'
  BY <1>5, AdvertiseKeeps, DepartKeeps, AddPeerKeeps, RemovePeerKeeps
<1>6. CASE Elapse \/ Resume
  BY <1>6, ElapseKeeps, ResumeKeeps
<1>7. CASE UNCHANGED vars
  BY <1>7, Stutters
<1> QED BY <1>1, <1>2, <1>3, <1>4, <1>5, <1>6, <1>7 DEF Next
-----------------------------------------------------------------------------
(* The theorems. *)

\* The locks of statuses and of the engine, and the failures that they go
\* with, stay what the calls take them for.
THEOREM Invariance == Spec => []Inv
<1>1. Init => Inv
  BY Initially
<1>2. Inv /\ [Next]_vars => Inv'
  BY EachStep
<1> QED BY <1>1, <1>2, PTL DEF Spec

\* The types of the scheduler's and the engine's records hold in every state.
THEOREM TypeCorrect == Spec => []TypeOK
<1>1. Inv => TypeOK
  BY DEF Inv
<1> QED BY <1>1, Invariance, PTL

\* One of two locks is enough: a peer is exchanged with by one call at a time
\* as long as its status or its lock of the engine has not gone under a call
\* (SyncScheduler._sync_one() and SyncEngine.sync_with_peer()).
THEOREM ExchangesStayApart == Spec => []OneExchange
<1>1. Inv => OneExchange
  <2> SUFFICES ASSUME Inv, NEW t \in Task, NEW u \in Task, t # u,
                      task[t].pc = "exchanging", task[u].pc = "exchanging",
                      task[t].peer = task[u].peer
               PROVE  task[t].peer \in replaced \cap forgotten
    BY DEF OneExchange, At
  <2>1. task[t].peer \in replaced
    BY DEF Inv, Owned
  <2>2. task[t].peer \in forgotten
    BY DEF Inv, Guarded
  <2> QED BY <2>1, <2>2
<1> QED BY <1>1, Invariance, PTL

\* _maybe_evict() needs a streak: a peer that goes was not added by hand, and
\* that many dials in a row have failed, unless its status was replaced.
THEOREM EvictionNeedsStreak == Spec => EvictedOnlyAfterStreak
<1>1. ASSUME Inv, NEW t \in Task, RecordFailure(t), NEW q \in known \ known'
      PROVE  q \notin manual /\ (losses[q] = EvictAfter \/ q \in replaced)
  <2> DEFINE p == task[t].peer
             n == Bump(IF task[t].stale THEN task[t].failures ELSE status[p].failures)
  <2>1. q = p /\ ToEvict(p, n) /\ task[t].pc = "failed"
    BY <1>1 DEF RecordFailure, At
  <2>2. p \notin manual /\ n >= EvictAfter
    BY <2>1 DEF ToEvict
  <2>3. SUFFICES ASSUME p \notin replaced PROVE losses[p] = EvictAfter
    BY <2>1, <2>2
  <2>4. p \in Peer /\ status[p] \in PeerStatus /\ losses[p] \in 0..EvictAfter
    BY <1>1 DEF Inv, TypeOK, TaskRecord
  <2>5. ~task[t].stale /\ status[p].by = t /\ t # NoTask
    BY <1>1, <2>1, <2>3, Bounds DEF Inv, Owned
  <2>6. Covers(p, status[p].failures + 1)
    BY <1>1, <2>1, <2>3, <2>4, <2>5 DEF Inv, Counted
  <2>7. status[p].failures \in Count
    BY <2>4 DEF PeerStatus
  <2>8. status[p].failures + 1 >= EvictAfter /\ status[p].failures \in Int
    BY <2>2, <2>5, <2>7, BumpType, Bounds DEF Count
  <2> QED BY <2>4, <2>6, <2>8, Bounds DEF Covers
<1>2. Inv /\ [Next]_vars =>
        [\A t \in Task : RecordFailure(t) =>
            \A p \in known \ known' :
               /\ p \notin manual
               /\ losses[p] = EvictAfter \/ p \in replaced]_vars
  BY <1>1
<1> QED BY <1>2, Invariance, PTL DEF Spec, EvictedOnlyAfterStreak
=============================================================================
