-------------------------- MODULE HLCNodes_proofs --------------------------
(* Proofs about the clock of HLC.tla and the brains of HLCNodes.tla.       *)
EXTENDS HLCNodes, TLAPS

------------------------------------------------------------------------------
(* The operators of the clock. *)

Remote == [wall : Nat, counter : Nat, node : Nat]

\* The operations of the clock return clocks (memory/hlc.py keeps two
\* non-negative integers whatever it is given).
LEMMA ClockOperationsType ==
    ASSUME NEW c \in Clock, NEW p \in Nat, NEW ts \in Remote
    PROVE  /\ Stabilize(c, p) \in Clock
           /\ Now(c, p) \in Clock
           /\ Receive(c, ts, p) \in Clock
           /\ ReceiveStrict(c, ts, p) \in Clock
<1>1. \A d \in Clock : Stabilize(d, p) \in Clock
  BY DEF Stabilize, Clock
<1>2. \A d \in Clock : TickLocal(d, p) \in Clock
  BY DEF TickLocal, Clock
<1>3. \A d \in Clock : Merge(d, ts, p) \in Clock
  BY DEF Merge, Clock, Remote
<1>4. \A d \in Clock : Receive(d, ts, p) \in Clock
  BY <1>1, <1>2, <1>3 DEF Receive
<1> QED
  BY <1>1, <1>2, <1>4 DEF Now, ReceiveStrict

\* Whatever the clock was, an operation leaves it at most MaxDrift ahead of
\* the physical time it read.
LEMMA ClockOperationsDrift ==
    ASSUME NEW c \in Clock, NEW p \in Nat, NEW ts \in Remote
    PROVE  /\ Now(c, p).wall <= p + MaxDrift
           /\ Receive(c, ts, p).wall <= p + MaxDrift
           /\ ReceiveStrict(c, ts, p).wall <= p + MaxDrift
<1>1. \A d \in Clock : /\ Stabilize(d, p) \in Clock
                       /\ Stabilize(d, p).wall <= p + MaxDrift
  BY MaxDriftAssumption DEF Stabilize, RanAway, Clock
<1>2. \A d \in Clock : d.wall <= p + MaxDrift
                           => TickLocal(d, p).wall <= p + MaxDrift
  BY MaxDriftAssumption DEF TickLocal, Clock
<1>3. \A d \in Clock : d.wall <= p + MaxDrift /\ WithinDrift(ts, p)
                           => Merge(d, ts, p).wall <= p + MaxDrift
  BY MaxDriftAssumption DEF Merge, Clock, Remote, WithinDrift
<1>4. \A d \in Clock : Receive(d, ts, p).wall <= p + MaxDrift
  BY <1>1, <1>2, <1>3 DEF Receive
<1> QED
  BY <1>1, <1>2, <1>4 DEF Now, ReceiveStrict

\* A clock that needs no stabilisation only moves forward.
LEMMA ClockOperationsAdvance ==
    ASSUME NEW c \in Clock, NEW p \in Nat, NEW ts \in Remote, ~RanAway(c, p)
    PROVE  /\ MarkLess(c, Now(c, p))
           /\ MarkLess(c, Receive(c, ts, p))
           /\ ReceiveStrict(c, ts, p) = c \/ MarkLess(c, ReceiveStrict(c, ts, p))
<1>1. Stabilize(c, p) = c
  BY DEF Stabilize
<1>2. MarkLess(c, TickLocal(c, p))
  BY DEF TickLocal, MarkLess, Clock
<1>3. MarkLess(c, Merge(c, ts, p))
  BY DEF Merge, MarkLess, Clock, Remote
<1>4. MarkLess(c, Receive(c, ts, p))
  BY <1>1, <1>2, <1>3 DEF Receive
<1> QED
  BY <1>1, <1>2, <1>4 DEF Now, ReceiveStrict

\* receive() of an acceptable stamp ends above that stamp, also when it had to
\* stabilise first.
LEMMA ReceiveDominates ==
    ASSUME NEW c \in Clock, NEW p \in Nat, NEW ts \in Remote, WithinDrift(ts, p)
    PROVE  MarkLess(ts, Receive(c, ts, p))
<1>1. \A d \in Clock : MarkLess(ts, Merge(d, ts, p))
  BY DEF Merge, MarkLess, Clock, Remote
<1>2. Stabilize(c, p) \in Clock
  BY ClockOperationsType
<1> QED
  BY <1>1, <1>2 DEF Receive

\* A counter is at most one above the larger of MaxCounter and what it merged.
LEMMA ClockOperationsCounter ==
    ASSUME NEW c \in Clock, NEW p \in Nat, NEW ts \in Remote,
           ts.counter <= MaxCounter + 1
    PROVE  /\ Now(c, p).counter <= MaxCounter + 1
           /\ Receive(c, ts, p).counter <= MaxCounter + 2
           /\ ReceiveStrict(c, ts, p).counter <= MaxCounter + 2
<1>1. \A d \in Clock : /\ Stabilize(d, p) \in Clock
                       /\ Stabilize(d, p).counter <= MaxCounter
  BY MaxCounterAssumption DEF Stabilize, RanAway, Clock
<1>2. \A d \in Clock : d.counter <= MaxCounter
                           => TickLocal(d, p).counter <= MaxCounter + 1
  BY MaxCounterAssumption DEF TickLocal, Clock
<1>3. \A d \in Clock : d.counter <= MaxCounter
                           => Merge(d, ts, p).counter <= MaxCounter + 2
  BY MaxCounterAssumption DEF Merge, Clock, Remote
<1>4. \A d \in Clock : Receive(d, ts, p).counter <= MaxCounter + 2
  <2> TAKE d \in Clock
  <2> DEFINE s == Stabilize(d, p)
  <2>1. s \in Clock /\ s.counter <= MaxCounter
    BY <1>1
  <2>2. TickLocal(s, p) \in Clock /\ TickLocal(s, p).counter <= MaxCounter + 1
    BY <1>2, <2>1 DEF TickLocal, Clock
  <2>3. Merge(s, ts, p).counter <= MaxCounter + 2
    BY <1>3, <2>1
  <2> QED
    BY <2>2, <2>3, MaxCounterAssumption DEF Receive, Clock
<1>5. Stabilize(c, p).counter <= MaxCounter + 2
  BY <1>1, MaxCounterAssumption DEF Clock
<1> QED
  BY <1>1, <1>2, <1>4, <1>5 DEF Now, ReceiveStrict

------------------------------------------------------------------------------
(* Type correctness of the brains and their stamps. *)

\* What a node receives is what the clock lemmas call a remote stamp.
LEMMA StampsAreRemotes == Stamp \subseteq Remote
  BY NodeAssumption DEF Stamp, Remote

\* Every step keeps TypeOK.
LEMMA TypeStep == TypeOK /\ [Next]_vars => TypeOK'
<1> SUFFICES ASSUME TypeOK, [Next]_vars PROVE TypeOK'
  OBVIOUS
<1> USE NodeAssumption, BoundsAssumption DEF TypeOK
<1>0. \A n \in Node : pt[n] \in Nat /\ clock[n] \in Clock
  OBVIOUS
<1>1. CASE UNCHANGED vars
  BY <1>1 DEF vars
<1>2. ASSUME NEW n \in Node, LocalEvent(n) PROVE TypeOK'
  <2>1. Now(clock[n], pt[n]) \in Clock
    <3>1. [wall |-> 0, counter |-> 0, node |-> 0] \in Remote
      BY DEF Remote
    <3> QED
      BY <1>0, <3>1, ClockOperationsType
  <2>2. clock' \in [Node -> Clock] /\ clock'[n] \in Clock
    BY <1>2, <2>1 DEF LocalEvent
  <2>3. StampOf(clock'[n], n) \in Stamp
    BY <2>2 DEF StampOf, Stamp, Clock
  <2> QED
    BY <1>2, <2>2, <2>3 DEF LocalEvent, NoteStabilization
<1>3. ASSUME NEW n \in Node, NEW ts \in sent, Absorb(n, ts) PROVE TypeOK'
  <2>1. ts \in Remote
    BY StampsAreRemotes
  <2>2. Receive(clock[n], ts, pt[n]) \in Clock
    BY <1>0, <2>1, ClockOperationsType
  <2> QED
    BY <1>3, <2>2 DEF Absorb, NoteStabilization
<1>4. ASSUME NEW n \in Node, NEW ts \in sent, AbsorbStrict(n, ts) PROVE TypeOK'
  <2>1. ts \in Remote
    BY StampsAreRemotes
  <2>2. ReceiveStrict(clock[n], ts, pt[n]) \in Clock
    BY <1>0, <2>1, ClockOperationsType
  <2> QED
    BY <1>4, <2>2 DEF AbsorbStrict, NoteStabilization
<1>5. ASSUME NEW n \in Node, Reboot(n) PROVE TypeOK'
  BY <1>5 DEF Reboot, ClockAtBoot, Clock
<1>6. ASSUME NEW n \in Node, PhysicalTick(n) PROVE TypeOK'
  BY <1>6 DEF PhysicalTick
<1>7. ASSUME NEW n \in Node, PhysicalStepBack(n) PROVE TypeOK'
  BY <1>7 DEF PhysicalStepBack
<1> QED
  BY <1>1, <1>2, <1>3, <1>4, <1>5, <1>6, <1>7 DEF Next

\* The state of the brains and their clocks keeps its types.
THEOREM TypeCorrect == Spec => []TypeOK
<1>1. Init => TypeOK
  BY NodeAssumption DEF Init, TypeOK, ClockAtBoot, Clock
<1> QED
  BY <1>1, TypeStep, PTL DEF Spec

------------------------------------------------------------------------------
(* Action properties of every clock. *)

\* No operation leaves a logical clock more than MaxDrift ahead of the
\* physical clock it read, for any number of brains, any speeds of their
\* physical clocks, and any backward steps of those.
THEOREM DriftIsBounded == Spec => EveryOperationBoundsDrift
<1>1. ASSUME TypeOK, [Next]_vars, NEW m \in Node, clock'[m] # clock[m]
      PROVE  clock'[m].wall <= pt[m] + MaxDrift
  <2> USE NodeAssumption DEF TypeOK
  <2>0. \A n \in Node : pt[n] \in Nat /\ clock[n] \in Clock
    BY <1>1
  <2>00. [wall |-> 0, counter |-> 0, node |-> 0] \in Remote
    BY DEF Remote
  <2>1. CASE UNCHANGED vars
    BY <1>1, <2>1 DEF vars
  <2>2. ASSUME NEW n \in Node, LocalEvent(n)
        PROVE  clock'[m].wall <= pt[m] + MaxDrift
    <3>1. m = n /\ clock'[m] = Now(clock[m], pt[m])
      BY <1>1, <2>2 DEF LocalEvent
    <3> QED
      BY <2>0, <2>00, <3>1, ClockOperationsDrift
  <2>3. ASSUME NEW n \in Node, NEW ts \in sent, Absorb(n, ts)
        PROVE  clock'[m].wall <= pt[m] + MaxDrift
    <3>1. m = n /\ clock'[m] = Receive(clock[m], ts, pt[m])
      BY <1>1, <2>3 DEF Absorb
    <3>2. ts \in Remote
      BY <1>1, StampsAreRemotes
    <3> QED
      BY <2>0, <3>1, <3>2, ClockOperationsDrift
  <2>4. ASSUME NEW n \in Node, NEW ts \in sent, AbsorbStrict(n, ts)
        PROVE  clock'[m].wall <= pt[m] + MaxDrift
    <3>1. m = n /\ clock'[m] = ReceiveStrict(clock[m], ts, pt[m])
      BY <1>1, <2>4 DEF AbsorbStrict
    <3>2. ts \in Remote
      BY <1>1, StampsAreRemotes
    <3> QED
      BY <2>0, <3>1, <3>2, ClockOperationsDrift
  <2>5. ASSUME NEW n \in Node, Reboot(n)
        PROVE  clock'[m].wall <= pt[m] + MaxDrift
    <3>1. clock'[m] = ClockAtBoot
      BY <1>1, <2>5 DEF Reboot
    <3> QED
      BY <2>0, <3>1, MaxDriftAssumption DEF ClockAtBoot
  <2>6. ASSUME NEW n \in Node, PhysicalTick(n)
        PROVE  clock'[m].wall <= pt[m] + MaxDrift
    BY <1>1, <2>6 DEF PhysicalTick
  <2>7. ASSUME NEW n \in Node, PhysicalStepBack(n)
        PROVE  clock'[m].wall <= pt[m] + MaxDrift
    BY <1>1, <2>7 DEF PhysicalStepBack
  <2> QED
    BY <1>1, <2>1, <2>2, <2>3, <2>4, <2>5, <2>6, <2>7 DEF Next
<1>2. TypeOK /\ [Next]_vars
        => [\A n \in Node :
               clock'[n] # clock[n] => clock'[n].wall <= pt[n] + MaxDrift]_vars
  BY <1>1
<1> QED
  BY <1>2, TypeCorrect, PTL DEF Spec, EveryOperationBoundsDrift

\* send(ts) < receive(ts), the causality guarantee of memory/hlc.py.
THEOREM CausalityIsRespected == Spec => ReceiveIsAboveTheStamp
<1>1. ASSUME TypeOK, NEW n \in Node, NEW ts \in sent,
             Absorb(n, ts), WithinDrift(ts, pt[n])
      PROVE  MarkLess(ts, clock'[n])
  <2>1. clock'[n] = Receive(clock[n], ts, pt[n])
    BY <1>1 DEF Absorb, TypeOK
  <2>2. ts \in Remote
    BY <1>1, StampsAreRemotes DEF TypeOK
  <2>3. clock[n] \in Clock /\ pt[n] \in Nat
    BY <1>1 DEF TypeOK
  <2> QED
    BY <1>1, <2>1, <2>2, <2>3, ReceiveDominates
<1>2. TypeOK /\ [Next]_vars
        => [\A n \in Node, ts \in sent :
               Absorb(n, ts) /\ WithinDrift(ts, pt[n])
                   => MarkLess(ts, clock'[n])]_vars
  BY <1>1
<1> QED
  BY <1>2, TypeCorrect, PTL DEF Spec, ReceiveIsAboveTheStamp

------------------------------------------------------------------------------
(* Counters. *)

\* Every step keeps the bound of the counters.
LEMMA CounterStep == TypeOK /\ CounterBounded /\ [Next]_vars => CounterBounded'
<1> SUFFICES ASSUME TypeOK, CounterBounded, [Next]_vars PROVE CounterBounded'
  OBVIOUS
<1> USE NodeAssumption, MaxCounterAssumption DEF TypeOK
<1>0. \A n \in Node : pt[n] \in Nat /\ clock[n] \in Clock
  OBVIOUS
<1>1. CASE UNCHANGED vars
  BY <1>1 DEF vars, CounterBounded
<1>2. ASSUME NEW n \in Node, LocalEvent(n) PROVE CounterBounded'
  <2>1. [wall |-> 0, counter |-> 0, node |-> 0] \in Remote
    BY DEF Remote
  <2>2. /\ clock' = [clock EXCEPT ![n] = Now(clock[n], pt[n])]
        /\ sent' = sent \cup {StampOf(Now(clock[n], pt[n]), n)}
    BY <1>2 DEF LocalEvent
  <2>3. Now(clock[n], pt[n]).counter <= MaxCounter + 1
    BY <1>0, <2>1, ClockOperationsCounter
  <2>4. Now(clock[n], pt[n]) \in Clock
    BY <1>0, <2>1, ClockOperationsType
  <2> QED
    BY <2>2, <2>3, <2>4 DEF CounterBounded, StampOf, Clock
<1>3. ASSUME NEW n \in Node, NEW ts \in sent, Absorb(n, ts)
      PROVE  CounterBounded'
  <2>1. ts \in Remote /\ ts.counter <= MaxCounter + 1
    BY StampsAreRemotes DEF CounterBounded
  <2>2. Receive(clock[n], ts, pt[n]).counter <= MaxCounter + 2
    BY <1>0, <2>1, ClockOperationsCounter
  <2> QED
    BY <1>3, <2>2 DEF Absorb, CounterBounded
<1>4. ASSUME NEW n \in Node, NEW ts \in sent, AbsorbStrict(n, ts)
      PROVE  CounterBounded'
  <2>1. ts \in Remote /\ ts.counter <= MaxCounter + 1
    BY StampsAreRemotes DEF CounterBounded
  <2>2. ReceiveStrict(clock[n], ts, pt[n]).counter <= MaxCounter + 2
    BY <1>0, <2>1, ClockOperationsCounter
  <2> QED
    BY <1>4, <2>2 DEF AbsorbStrict, CounterBounded
<1>5. ASSUME NEW n \in Node, Reboot(n) PROVE CounterBounded'
  BY <1>5 DEF Reboot, ClockAtBoot, CounterBounded
<1>6. ASSUME NEW n \in Node, PhysicalTick(n) \/ PhysicalStepBack(n)
      PROVE  CounterBounded'
  BY <1>6 DEF PhysicalTick, PhysicalStepBack, CounterBounded
<1> QED
  BY <1>1, <1>2, <1>3, <1>4, <1>5, <1>6 DEF Next

\* Counters stay within two of MaxCounter on every clock, and within one in
\* every stamp, although receive() adds one to what it is sent.
THEOREM CountersAreBounded == Spec => []CounterBounded
<1>1. Init => CounterBounded
  BY MaxCounterAssumption DEF Init, CounterBounded, ClockAtBoot
<1> QED
  BY <1>1, CounterStep, TypeCorrect, PTL DEF Spec

------------------------------------------------------------------------------
(* The stamps of one brain. *)

\* A clock that was never reset is at or above every stamp it issued.
ClockCoversItsStamps ==
    \A n \in Node :
        n \notin rebooted /\ ~stabilized[n]
            => \A ts \in sent : ts.node = n => ~MarkLess(clock[n], ts)

\* The order without the node is transitive.
LEMMA MarkOrder ==
    /\ \A a, b \in Clock, ts \in Remote :
          ~MarkLess(a, ts) /\ MarkLess(a, b) => MarkLess(ts, b)
    /\ \A a, b \in Clock, ts \in Remote :
          ~MarkLess(a, ts) /\ MarkLess(a, b) => ~MarkLess(b, ts)
  BY DEF MarkLess, Clock, Remote

\* Every step keeps a clock above what it issued since its last reset.
LEMMA CoverStep ==
    TypeOK /\ ClockCoversItsStamps /\ [Next]_vars => ClockCoversItsStamps'
<1> SUFFICES ASSUME TypeOK, ClockCoversItsStamps, [Next]_vars,
                    NEW m \in Node, m \notin rebooted', ~stabilized'[m],
                    NEW ts \in sent', ts.node = m
             PROVE  ~MarkLess(clock'[m], ts)
  BY DEF ClockCoversItsStamps
<1> USE NodeAssumption DEF TypeOK
<1>0. \A n \in Node : pt[n] \in Nat /\ clock[n] \in Clock
  OBVIOUS
<1>00. [wall |-> 0, counter |-> 0, node |-> 0] \in Remote
  BY DEF Remote
<1>1. CASE UNCHANGED vars
  BY <1>1 DEF vars, ClockCoversItsStamps
<1>2. ASSUME NEW n \in Node, LocalEvent(n) PROVE ~MarkLess(clock'[m], ts)
  <2>1. CASE m # n
    <3>1. clock'[m] = clock[m] /\ ts \in sent /\ ~stabilized[m]
      BY <1>2, <2>1 DEF LocalEvent, NoteStabilization, StampOf
    <3> QED
      BY <1>2, <3>1 DEF LocalEvent, ClockCoversItsStamps
  <2>2. CASE m = n
    <3>1. ~stabilized[m] /\ ~RanAway(clock[m], pt[m]) /\ m \notin rebooted
      BY <1>2, <2>2 DEF LocalEvent, NoteStabilization
    <3>2. clock'[m] = Now(clock[m], pt[m])
      BY <1>2, <2>2 DEF LocalEvent
    <3>3. clock'[m] \in Clock /\ MarkLess(clock[m], clock'[m])
      BY <1>0, <1>00, <3>1, <3>2, ClockOperationsAdvance, ClockOperationsType
    <3>4. CASE ts \in sent
      <4>1. ~MarkLess(clock[m], ts) /\ ts \in Remote
        BY <3>1, <3>4, StampsAreRemotes DEF ClockCoversItsStamps
      <4> QED
        BY <1>0, <3>3, <4>1, MarkOrder
    <3>5. CASE ts = StampOf(clock'[m], m)
      BY <3>3, <3>5 DEF StampOf, MarkLess, Clock
    <3> QED
      BY <1>2, <2>2, <3>4, <3>5 DEF LocalEvent
  <2> QED
    BY <2>1, <2>2
<1>3. ASSUME NEW n \in Node, NEW rs \in sent,
             Absorb(n, rs) \/ AbsorbStrict(n, rs)
      PROVE  ~MarkLess(clock'[m], ts)
  <2>1. ts \in sent /\ ts \in Remote /\ rs \in Remote /\ m \notin rebooted
    BY <1>3, StampsAreRemotes DEF Absorb, AbsorbStrict
  <2>2. CASE m # n
    <3>1. clock'[m] = clock[m] /\ ~stabilized[m]
      BY <1>3, <2>2 DEF Absorb, AbsorbStrict, NoteStabilization
    <3> QED
      BY <2>1, <3>1 DEF ClockCoversItsStamps
  <2>3. CASE m = n
    <3>1. ~stabilized[m] /\ ~RanAway(clock[m], pt[m])
      BY <1>3, <2>3 DEF Absorb, AbsorbStrict, NoteStabilization
    <3>2. \/ clock'[m] = Receive(clock[m], rs, pt[m])
          \/ clock'[m] = ReceiveStrict(clock[m], rs, pt[m])
      BY <1>3, <2>3 DEF Absorb, AbsorbStrict
    <3>a. /\ Receive(clock[m], rs, pt[m]) \in Clock
          /\ ReceiveStrict(clock[m], rs, pt[m]) \in Clock
      BY <1>0, <2>1, ClockOperationsType
    <3>b. /\ MarkLess(clock[m], Receive(clock[m], rs, pt[m]))
          /\ \/ ReceiveStrict(clock[m], rs, pt[m]) = clock[m]
             \/ MarkLess(clock[m], ReceiveStrict(clock[m], rs, pt[m]))
      BY <1>0, <2>1, <3>1, ClockOperationsAdvance
    <3>3. /\ clock'[m] \in Clock
          /\ clock'[m] = clock[m] \/ MarkLess(clock[m], clock'[m])
      BY <3>2, <3>a, <3>b
    <3>4. ~MarkLess(clock[m], ts)
      BY <2>1, <3>1 DEF ClockCoversItsStamps
    <3> QED
      BY <1>0, <2>1, <3>3, <3>4, MarkOrder
  <2> QED
    BY <2>2, <2>3
<1>4. ASSUME NEW n \in Node, Reboot(n) PROVE ~MarkLess(clock'[m], ts)
  <2>1. m # n
    BY <1>4 DEF Reboot
  <2> QED
    BY <1>4, <2>1 DEF Reboot, ClockCoversItsStamps
<1>5. ASSUME NEW n \in Node, PhysicalTick(n) \/ PhysicalStepBack(n)
      PROVE  ~MarkLess(clock'[m], ts)
  BY <1>5 DEF PhysicalTick, PhysicalStepBack, ClockCoversItsStamps
<1> QED
  BY <1>1, <1>2, <1>3, <1>4, <1>5 DEF Next

\* Up to its first reset, by a reboot or by _stabilize, a clock issues
\* stamps in strictly increasing order.
THEOREM StampsIncrease == Spec => StampsIncreaseUntilReset
<1>1. Init => ClockCoversItsStamps
  BY DEF Init, ClockCoversItsStamps
<1>2. ASSUME TypeOK, ClockCoversItsStamps, NEW n \in Node, LocalEvent(n),
             ~stabilized'[n], n \notin rebooted,
             NEW ts \in sent, ts.node = n
      PROVE  MarkLess(ts, clock'[n])
  <2> USE NodeAssumption
  <2>1. ~stabilized[n] /\ ~RanAway(clock[n], pt[n])
    BY <1>2 DEF LocalEvent, NoteStabilization, TypeOK
  <2>2. clock[n] \in Clock /\ pt[n] \in Nat
        /\ clock'[n] = Now(clock[n], pt[n])
    BY <1>2 DEF LocalEvent, TypeOK
  <2>3. [wall |-> 0, counter |-> 0, node |-> 0] \in Remote
    BY DEF Remote
  <2>4. clock'[n] \in Clock /\ MarkLess(clock[n], clock'[n])
    BY <2>1, <2>2, <2>3, ClockOperationsAdvance, ClockOperationsType
  <2>5. ~MarkLess(clock[n], ts) /\ ts \in Remote
    BY <1>2, <2>1, StampsAreRemotes DEF ClockCoversItsStamps, TypeOK
  <2> QED
    BY <2>2, <2>4, <2>5, MarkOrder
<1>3. TypeOK /\ ClockCoversItsStamps /\ [Next]_vars
        => [\A n \in Node :
               LocalEvent(n) /\ ~stabilized'[n] /\ n \notin rebooted
                   => \A ts \in sent : ts.node = n => MarkLess(ts, clock'[n])]_vars
  BY <1>2
<1> QED
  BY <1>1, <1>3, CoverStep, TypeCorrect, PTL DEF Spec, StampsIncreaseUntilReset
==============================================================================
