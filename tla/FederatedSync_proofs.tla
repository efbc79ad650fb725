------------------------ MODULE FederatedSync_proofs ------------------------
(* Proofs about FederatedSync.tla: types, the drift bound of the logs,     *)
(* that the exchange implements ScopedGossip, that deletes keep the scope  *)
(* of their lineage, that rows follow their logs, and that watermarks      *)
(* cover only what is there.                                               *)
EXTENDS FederatedSync, TLAPS

------------------------------------------------------------------------------
(* Types of what the actions build. *)

Remote == [wall : Nat, counter : Nat, node : Nat]

\* The clock's operations return clocks, and its own stamps keep to the drift.
LEMMA ClockOperations ==
    ASSUME NEW c \in Clock, NEW p \in Nat, NEW ts \in Remote
    PROVE  /\ Now(c, p) \in Clock /\ Now(c, p).wall <= p + MaxDrift
           /\ Receive(c, ts, p) \in Clock
<1>1. Stabilize(c, p) \in Clock /\ Stabilize(c, p).wall <= p + MaxDrift
  BY MaxDriftAssumption DEF Stabilize, RanAway, Clock
<1>2. \A d \in Clock :
         /\ TickLocal(d, p) \in Clock
         /\ d.wall <= p + MaxDrift => TickLocal(d, p).wall <= p + MaxDrift
  BY MaxDriftAssumption DEF TickLocal, Clock
<1>3. \A d \in Clock : Merge(d, ts, p) \in Clock
  BY DEF Merge, Clock, Remote
<1> QED
  BY <1>1, <1>2, <1>3 DEF Now, Receive

\* The initial values, and the stamps a clock shows, have their types.
LEMMA StampFacts ==
    /\ \A ts \in Stamp : ts \in Remote /\ Mark(ts) \in Clock
    /\ \A c \in Clock, n \in Node : StampOf(c, n) \in Stamp
    /\ ClockAtBoot \in Clock /\ EmptyVC \in VectorClock
    /\ NoTask \in Task /\ NoJob \in Job
    /\ NoSession \in Session /\ Broken \in Session
<1>1. ClockAtBoot \in Clock /\ EmptyVC \in VectorClock
  BY DEF ClockAtBoot, Clock, EmptyVC, VectorClock
<1>2. \A ts \in Stamp : ts \in Remote /\ Mark(ts) \in Clock
  BY NodeAssumption DEF Stamp, Remote, Mark, Clock
<1>3. \A c \in Clock, n \in Node : StampOf(c, n) \in Stamp
  BY DEF StampOf, Stamp, Clock
<1>4. NoTask \in Task
  BY DEF NoTask, Task
<1>5. NoJob \in Job
  BY DEF NoJob, Job
<1>6. NoSession \in Session
  BY <1>1 DEF NoSession, Session
<1>7. Broken \in Session
  BY <1>1 DEF NoSession, Broken, Session
<1> QED
  BY <1>1, <1>2, <1>3, <1>4, <1>5, <1>6, <1>7

\* The clock a local operation or a received one leaves.
LEMMA ClockSteps ==
    ASSUME TypeOK, NEW n \in Node
    PROVE  /\ Now(clock[n], pt[n]) \in Clock
           /\ Now(clock[n], pt[n]).wall <= pt[n] + MaxDrift
           /\ \A op \in Op : Receive(clock[n], op.hlc, pt[n]) \in Clock
<1>1. clock[n] \in Clock /\ pt[n] \in Nat
  BY DEF TypeOK
<1>2. [wall |-> 0, counter |-> 0, node |-> 0] \in Remote
  BY DEF Remote
<1>3. \A op \in Op : op.hlc \in Remote
  BY StampFacts DEF Op
<1> QED
  BY <1>1, <1>2, <1>3, ClockOperations

\* What Mint builds is an operation of n, stamped within the drift bound.
LEMMA MintFacts ==
    ASSUME TypeOK, NEW n \in Node, NEW r \in Row,
           NEW kind \in {"insert", "delete"}, NEW scope \in AnyScope
    PROVE  /\ Mint(n, kind, r, scope) \in Op
           /\ Mint(n, kind, r, scope).origin = n
           /\ Mint(n, kind, r, scope).hlc.wall <= pt[n] + MaxDrift
<1>1. Now(clock[n], pt[n]) \in Clock
  BY ClockSteps
<1>2. StampOf(Now(clock[n], pt[n]), n) \in Stamp
  BY <1>1, StampFacts
<1>3. Now(clock[n], pt[n]).wall <= pt[n] + MaxDrift
  BY ClockSteps
<1> QED
  BY <1>2, <1>3 DEF Mint, Op, StampOf

\* An append keeps logs and vector clocks typed.
LEMMA AppendTypes ==
    ASSUME TypeOK, NEW n \in Node, NEW op \in Op, Append(n, op)
    PROVE  /\ wal' \in [Node -> SUBSET Op]
           /\ vc' \in [Node -> VectorClock]
<1>1. wal' \in [Node -> SUBSET Op]
  BY DEF Append, TypeOK
<1>2. op.origin \in Node /\ op.hlc \in Stamp
  BY DEF Op
<1>3. Mark(op.hlc) \in Clock /\ vc[n] \in VectorClock
  BY <1>2, StampFacts DEF TypeOK
<1>4. Later(vc[n][op.origin], Mark(op.hlc)) \in Clock
  BY <1>2, <1>3 DEF Later, VectorClock
<1> DEFINE c == Later(vc[n][op.origin], Mark(op.hlc))
           v == [vc[n] EXCEPT ![op.origin] = c]
<1>5. v \in VectorClock
  BY <1>2, <1>3, <1>4 DEF VectorClock
<1>6. vc' = [vc EXCEPT ![n] = v]
  BY DEF Append
<1>7. vc' \in [Node -> VectorClock]
  <2> HIDE DEF v
  <2> QED
    BY <1>5, <1>6 DEF TypeOK
<1> QED
  BY <1>1, <1>7

\* A fault keeps the type of the budget.
LEMMA FaultTypes ==
    ASSUME TypeOK, NEW kind, Fault(kind)
    PROVE  spent' \in Budget
<1>1. spent \in Budget
  BY DEF TypeOK
<1> QED
  BY <1>1 DEF Fault, Budget

\* Setting one coroutine, or one job, keeps the types of all.
LEMMA TaskSet ==
    ASSUME TypeOK, NEW n \in Node, NEW r \in Row, NEW t \in Task,
           task' = [task EXCEPT ![n][r] = t]
    PROVE  task' \in [Node -> [Row -> Task]]
  BY DEF TypeOK

\* A coroutine with a set of operations is a coroutine.
LEMMA TaskValues ==
    ASSUME NEW S \in SUBSET Op,
           NEW p \in {"idle", "minted", "logged", "deleted"}
    PROVE  [pc |-> p, op |-> S] \in Task
  BY DEF Task

\* What a coroutine works on are operations.
LEMMA TaskOps ==
    ASSUME TypeOK, NEW n \in Node, NEW r \in Row
    PROVE  task[n][r].op \in SUBSET Op
<1>1. task[n][r] \in Task
  BY DEF TypeOK
<1> QED
  BY <1>1 DEF Task

\* What a job still has to apply, or is applying, are operations.
LEMMA JobOps ==
    ASSUME TypeOK, NEW n \in Node, NEW k \in JobKey
    PROVE  /\ job[n][k] \in Job
           /\ job[n][k].todo \in SUBSET Op
           /\ Oldest(job[n][k].todo) \in SUBSET job[n][k].todo
           /\ \A c \in job[n][k].cur : c.op \in Op /\ c.op.row \in Row
                                          /\ c.op.hlc \in Stamp
<1>1. job[n][k] \in Job
  BY DEF TypeOK
<1> QED
  BY <1>1 DEF Job, Current, Oldest, Op

\* What the two ends of an exchange keep has its type.
LEMMA SessOps ==
    ASSUME TypeOK, NEW d \in Dial
    PROVE  /\ sess[d] \in Session /\ sess[d].ops \in SUBSET Op
           /\ sess[d].cvc \in VectorClock /\ sess[d].svc \in VectorClock
<1>1. sess[d] \in Session
  BY DEF TypeOK
<1> QED
  BY <1>1 DEF Session

\* Setting one job keeps the types of all.
LEMMA JobSet ==
    ASSUME TypeOK, NEW n \in Node, NEW k \in JobKey, NEW j \in Job,
           job' = [job EXCEPT ![n][k] = j]
    PROVE  job' \in [Node -> [JobKey -> Job]]
  BY DEF TypeOK

\* Setting one session keeps the types of all.
LEMMA SessSet ==
    ASSUME TypeOK, NEW d \in Dial, NEW s \in Session,
           sess' = [sess EXCEPT ![d] = s]
    PROVE  sess' \in [Dial -> Session]
  BY DEF TypeOK

\* Setting the clock of one brain keeps the types of all.
LEMMA ClockSet ==
    ASSUME TypeOK, NEW n \in Node, NEW c \in Clock,
           clock' = [clock EXCEPT ![n] = c]
    PROVE  clock' \in [Node -> Clock]
  BY DEF TypeOK

\* Setting one row to stamps, or to a blank one, keeps the types of all.
LEMMA RowSet ==
    ASSUME TypeOK, NEW n \in Node, NEW r \in Row,
           NEW v \in SUBSET (Stamp \cup {Blank}),
           row' = [row EXCEPT ![n][r] = v]
    PROVE  row' \in [Node -> [Row -> SUBSET (Stamp \cup {Blank})]]
  BY DEF TypeOK

\* Setting one tombstone keeps the types of all.
LEMMA TombSet ==
    ASSUME TypeOK, NEW n \in Node, NEW r \in Row, NEW v \in SUBSET Stamp,
           tomb' = [tomb EXCEPT ![n][r] = v]
    PROVE  tomb' \in [Node -> [Row -> SUBSET Stamp]]
  BY DEF TypeOK

\* Recording a disturbance keeps the type of the history.
LEMMA DisturbedTypes ==
    ASSUME TypeOK, NEW n \in Node, NEW r \in Row, NEW b, DisturbedBy(n, r, b)
    PROVE  disturbed' \subseteq Node \X Row
  BY DEF DisturbedBy, TypeOK

\* Passing somebody over keeps the type of the history.
LEMMA PassOverTypes ==
    ASSUME TypeOK, NEW n \in Node, NEW S \in SUBSET Op, NEW T, PassOver(n, S, T)
    PROVE  passed' \in [Node -> SUBSET Op]
<1>1. passed \in [Node -> SUBSET Op]
  BY DEF TypeOK
<1>2. Below(S, T) \in SUBSET Op
  BY DEF Below
<1>3. passed' = [passed EXCEPT ![n] = passed[n] \cup (Below(S, T) \ wal[n])]
  BY DEF PassOver
<1> QED
  BY <1>1, <1>2, <1>3

\* So does an operation that is logged late.
LEMMA PassLateTypes ==
    ASSUME TypeOK, NEW op \in Op, PassLate(op)
    PROVE  passed' \in [Node -> SUBSET Op]
<1>1. passed \in [Node -> SUBSET Op] /\ wal[op.origin] \in SUBSET Op
  BY DEF TypeOK, Op
<1> QED
  BY <1>1 DEF PassLate

------------------------------------------------------------------------------
(* Type correctness: local writes. *)

\* A refused local append changes the budget and the pause alone.
LEMMA LocalAppendFailsTypes ==
    ASSUME TypeOK, NEW n \in Node, LocalAppendFails(n)
    PROVE  /\ spent' \in Budget /\ paused' \in [Node -> BOOLEAN]
           /\ UNCHANGED <<wal, vc>>
<1>1. spent' \in Budget
  BY FaultTypes DEF LocalAppendFails
<1>2. paused' \in [Node -> BOOLEAN]
  BY DEF LocalAppendFails, TypeOK
<1> QED
  BY <1>1, <1>2 DEF LocalAppendFails

\* Saving a note or an episode keeps TypeOK.
LEMMA SaveTypes ==
    ASSUME TypeOK, NEW n \in Node, NEW r \in Row, NEW scope \in AnyScope,
           SaveNote(n, r, scope) \/ SaveEpisode(n, r, scope)
    PROVE  TypeOK'
<1> DEFINE op == Mint(n, "insert", r, scope)
<1>1. op \in Op /\ op.origin = n /\ Now(clock[n], pt[n]) \in Clock
  BY MintFacts, ClockSteps
<1>2. /\ [pc |-> "logged", op |-> {op}] \in Task
      /\ [pc |-> "logged", op |-> {}] \in Task
      /\ [pc |-> "minted", op |-> {op}] \in Task
  <2> HIDE DEF op
  <2> QED
    BY <1>1, TaskValues
<1>3. /\ minted' \subseteq Row
      /\ UNCHANGED <<pt, row, tomb, exchange, roster, carried, disturbed>>
  BY DEF SaveNote, SaveEpisode, TypeOK, Row, history
<1>4. clock' \in [Node -> Clock]
  BY <1>1, ClockSet DEF SaveNote, SaveEpisode, TypeOK
<1>5. task' \in [Node -> [Row -> Task]]
  BY <1>2, TaskSet DEF SaveNote, SaveEpisode
<1>6. /\ wal' \in [Node -> SUBSET Op] /\ vc' \in [Node -> VectorClock]
      /\ spent' \in Budget /\ paused' \in [Node -> BOOLEAN]
  <2>1. CASE UNCHANGED <<wal, vc, paused, spent>>
    BY <2>1 DEF TypeOK
  <2>2. CASE Append(n, op) /\ UNCHANGED <<paused, spent>>
    BY <1>1, <2>2, AppendTypes DEF TypeOK
  <2>3. CASE LocalAppendFails(n)
    BY <2>3, LocalAppendFailsTypes DEF TypeOK
  <2> QED
    BY <2>1, <2>2, <2>3 DEF SaveNote, SaveEpisode
<1>7. passed' \in [Node -> SUBSET Op]
  <2>1. PassLate(op) \/ passed' = passed
    BY DEF SaveNote, SaveEpisode, history
  <2>2. CASE passed' = passed
    BY <2>2 DEF TypeOK
  <2> HIDE DEF op
  <2> QED
    BY <1>1, <2>1, <2>2, PassLateTypes
<1> QED
  BY <1>3, <1>4, <1>5, <1>6, <1>7 DEF TypeOK, exchange, roster

\* An append that returns, or raises, on its thread keeps TypeOK.
LEMMA AppendLocalTypes ==
    ASSUME TypeOK, NEW n \in Node, NEW r \in Row,
           AppendLocal(n, r) \/ AppendLocalFails(n, r)
    PROVE  TypeOK'
<1>1. PICK op \in task[n][r].op :
         \/ /\ Append(n, op)
            /\ task' = [task EXCEPT ![n][r] = [pc |-> "logged", op |-> {op}]]
            /\ PassLate(op)
            /\ UNCHANGED <<paused, disturbed, spent>>
         \/ /\ LocalAppendFails(n)
            /\ task' = [task EXCEPT ![n][r] =
                          IF op.kind = "insert"
                          THEN [pc |-> "logged", op |-> {}] ELSE NoTask]
            /\ DisturbedBy(n, r, op.kind = "delete")
            /\ passed' = passed
  BY DEF AppendLocal, AppendLocalFails
<1>2. op \in Op
  BY TaskOps
<1>3. /\ [pc |-> "logged", op |-> {op}] \in Task
      /\ [pc |-> "logged", op |-> {}] \in Task
      /\ NoTask \in Task
  BY <1>2, TaskValues, StampFacts
<1>4. task' \in [Node -> [Row -> Task]]
  <2>1. \E t \in Task : task' = [task EXCEPT ![n][r] = t]
    BY <1>1, <1>3
  <2> QED
    BY <2>1, TaskSet
<1>5. /\ wal' \in [Node -> SUBSET Op] /\ vc' \in [Node -> VectorClock]
      /\ spent' \in Budget /\ paused' \in [Node -> BOOLEAN]
      /\ disturbed' \subseteq Node \X Row
  <2>1. CASE Append(n, op) /\ UNCHANGED <<paused, disturbed, spent>>
    BY <1>2, <2>1, AppendTypes DEF TypeOK
  <2>2. CASE LocalAppendFails(n) /\ DisturbedBy(n, r, op.kind = "delete")
    BY <2>2, LocalAppendFailsTypes, DisturbedTypes DEF TypeOK
  <2> QED
    BY <1>1, <2>1, <2>2
<1>6. UNCHANGED <<pt, clock, row, tomb, minted, exchange, roster, carried>>
  BY DEF AppendLocal, AppendLocalFails
<1>7. passed' \in [Node -> SUBSET Op]
  BY <1>1, <1>2, PassLateTypes DEF TypeOK
<1> QED
  BY <1>4, <1>5, <1>6, <1>7 DEF TypeOK, exchange, roster

\* Inserting the saved row keeps TypeOK.
LEMMA WriteRowTypes ==
    ASSUME TypeOK, NEW n \in Node, NEW r \in Row, WriteRow(n, r)
    PROVE  TypeOK'
<1> DEFINE v == IF row[n][r] # {} THEN row[n][r]
                ELSE IF task[n][r].op = {} THEN {Blank}
                ELSE {op.hlc : op \in task[n][r].op}
<1>1. \A op \in task[n][r].op : op.hlc \in Stamp
  BY TaskOps DEF Op
<1>2. v \in SUBSET (Stamp \cup {Blank})
  BY <1>1 DEF TypeOK
<1>3. row' = [row EXCEPT ![n][r] = v]
  BY DEF WriteRow
<1>4. row' \in [Node -> [Row -> SUBSET (Stamp \cup {Blank})]]
  <2> HIDE DEF v
  <2> QED
    BY <1>2, <1>3 DEF TypeOK
<1>5. task' \in [Node -> [Row -> Task]]
  BY StampFacts, TaskSet DEF WriteRow
<1> QED
  BY <1>4, <1>5 DEF WriteRow, TypeOK, exchange, roster, history

\* The three steps of a local delete keep TypeOK.
LEMMA DeleteTypes ==
    ASSUME TypeOK, NEW n \in Node, NEW r \in Row,
           DeleteRow(n, r) \/ LogDelete(n, r) \/ RecordTombstone(n, r)
    PROVE  TypeOK'
<1>1. CASE DeleteRow(n, r)
  <2>1. [pc |-> "deleted", op |-> {}] \in Task
    BY TaskValues
  <2>2. task' \in [Node -> [Row -> Task]]
    BY <1>1, <2>1, TaskSet DEF DeleteRow
  <2>3. row' \in [Node -> [Row -> SUBSET (Stamp \cup {Blank})]]
    BY <1>1 DEF DeleteRow, TypeOK
  <2>4. spent \in Budget
    BY DEF TypeOK
  <2>5. spent' \in Budget
    BY <1>1, <2>4 DEF DeleteRow, Budget
  <2>6. disturbed' \subseteq Node \X Row
    BY <1>1, DisturbedTypes DEF DeleteRow
  <2> QED
    BY <1>1, <2>2, <2>3, <2>5, <2>6 DEF DeleteRow, TypeOK, exchange, roster
<1>2. CASE LogDelete(n, r)
  <2>1. clock' \in [Node -> Clock]
    BY <1>2, ClockSteps, ClockSet DEF LogDelete, TypeOK
  <2>2. ScopesForRow(n, r) \subseteq AnyScope
    <3>1. \A op \in wal[n] : op.scope \in AnyScope
      BY DEF TypeOK, Op
    <3> QED
      BY <3>1 DEF ScopesForRow, Newest, OpsOf, AnyScope
  <2>3. \A scope \in ScopesForRow(n, r) :
           [pc |-> "minted", op |-> {Mint(n, "delete", r, scope)}] \in Task
    BY <2>2, MintFacts, TaskValues
  <2>4. task' \in [Node -> [Row -> Task]]
    BY <1>2, <2>3, TaskSet, StampFacts DEF LogDelete
  <2>5. disturbed' \subseteq Node \X Row
    BY <1>2, DisturbedTypes DEF LogDelete, TypeOK
  <2> QED
    BY <1>2, <2>1, <2>4, <2>5 DEF LogDelete, TypeOK, exchange, roster
<1>3. CASE RecordTombstone(n, r)
  <2>1. \A op \in task[n][r].op : op.hlc \in Stamp
    BY TaskOps DEF Op
  <2>2. tomb' \in [Node -> [Row -> SUBSET Stamp]]
    BY <1>3, <2>1 DEF RecordTombstone, TypeOK
  <2>3. task' \in [Node -> [Row -> Task]]
    BY <1>3, StampFacts, TaskSet DEF RecordTombstone
  <2> QED
    BY <1>3, <2>2, <2>3 DEF RecordTombstone, TypeOK, exchange, roster, history
<1> QED
  BY <1>1, <1>2, <1>3

\* Every step of a local writer keeps TypeOK.
LEMMA LocalTypes ==
    ASSUME TypeOK, NEW n \in Node, LocalStep(n)
    PROVE  TypeOK'
<1>1. CASE PhysicalTick(n)
  BY <1>1 DEF PhysicalTick, TypeOK, local, exchange, roster, history
<1> QED
  BY <1>1, SaveTypes, AppendLocalTypes, WriteRowTypes, DeleteTypes
  DEF LocalStep

------------------------------------------------------------------------------
(* Type correctness: applying a batch. *)

\* Taking, rejecting or skipping the next operation of a batch keeps TypeOK.
LEMMA TakeTypes ==
    ASSUME TypeOK, NEW n \in Node, NEW k \in JobKey,
           RejectDrift(n, k) \/ TakeRemote(n, k) \/ AppendRemoteFails(n, k)
    PROVE  TypeOK'
<1>0. job[n][k].todo \in SUBSET Op /\ job[n][k].cur = {}
  BY JobOps DEF RejectDrift, TakeRemote, AppendRemoteFails
<1>1. \A op \in Oldest(job[n][k].todo) : op \in Op /\ op.row \in Row
  BY <1>0 DEF Oldest, Op
<1>2. \A op : [job[n][k] EXCEPT !.todo = @ \ {op}] \in Job
  BY JobOps DEF Job
<1>3. \A op \in Op : [todo |-> job[n][k].todo \ {op},
                    cur |-> {[op |-> op, pc |-> "recorded"]}] \in Job
  BY <1>0 DEF Job, Current
<1>4. CASE RejectDrift(n, k)
  <2>1. job' \in [Node -> [JobKey -> Job]]
    <3>1. PICK op : job' = [job EXCEPT ![n][k].todo = @ \ {op}]
      BY <1>4 DEF RejectDrift
    <3> DEFINE j == [job[n][k] EXCEPT !.todo = @ \ {op}]
    <3>2. job' = [job EXCEPT ![n][k] = j]
      BY <3>1
    <3>3. j \in Job
      BY <1>2
    <3> HIDE DEF j
    <3> QED
      BY <3>2, <3>3, JobSet
  <2>2. passed' \in [Node -> SUBSET Op]
    BY <1>1, <1>4, PassOverTypes DEF RejectDrift
  <2> QED
    BY <1>4, <2>1, <2>2 DEF RejectDrift, TypeOK, local, roster
<1>5. CASE TakeRemote(n, k)
  <2>1. PICK op \in Oldest(job[n][k].todo) :
          /\ clock' = [clock EXCEPT ![n] = Receive(@, op.hlc, pt[n])]
          /\ Append(n, op)
          /\ job' = [job EXCEPT ![n][k] =
                       [todo |-> @.todo \ {op},
                        cur |-> {[op |-> op, pc |-> "recorded"]}]]
    BY <1>5 DEF TakeRemote
  <2>2. op \in Op /\ op.row \in Row
    BY <1>1
  <2>3. clock' \in [Node -> Clock]
    <3>1. Receive(clock[n], op.hlc, pt[n]) \in Clock
      BY <2>2, ClockSteps
    <3> QED
      BY <2>1, <3>1, ClockSet DEF TypeOK
  <2>4. wal' \in [Node -> SUBSET Op] /\ vc' \in [Node -> VectorClock]
    BY <2>1, <2>2, AppendTypes
  <2>5. job' \in [Node -> [JobKey -> Job]]
    <3> DEFINE j == [todo |-> job[n][k].todo \ {op},
                     cur |-> {[op |-> op, pc |-> "recorded"]}]
    <3>1. j \in Job
      BY <1>3, <2>2
    <3>2. job' = [job EXCEPT ![n][k] = j]
      BY <2>1
    <3> HIDE DEF j
    <3> QED
      BY <3>1, <3>2, JobSet
  <2> QED
    BY <1>5, <2>3, <2>4, <2>5 DEF TakeRemote, TypeOK, local, roster, history
<1>6. CASE AppendRemoteFails(n, k)
  <2>1. PICK op \in Oldest(job[n][k].todo) :
          /\ clock' = [clock EXCEPT ![n] = Receive(@, op.hlc, pt[n])]
          /\ job' = [job EXCEPT ![n][k].todo = @ \ {op}]
    BY <1>6 DEF AppendRemoteFails
  <2>2. clock' \in [Node -> Clock]
    <3>1. Receive(clock[n], op.hlc, pt[n]) \in Clock
      BY <1>1, ClockSteps
    <3> QED
      BY <2>1, <3>1, ClockSet DEF TypeOK
  <2>3. job' \in [Node -> [JobKey -> Job]]
    <3> DEFINE j == [job[n][k] EXCEPT !.todo = @ \ {op}]
    <3>1. job' = [job EXCEPT ![n][k] = j]
      BY <2>1
    <3>2. j \in Job
      BY <1>2
    <3> HIDE DEF j
    <3> QED
      BY <3>1, <3>2, JobSet
  <2>4. spent' \in Budget
    BY <1>6, FaultTypes DEF AppendRemoteFails
  <2>5. passed' \in [Node -> SUBSET Op]
    BY <1>1, <1>6, PassOverTypes DEF AppendRemoteFails
  <2> QED
    BY <1>6, <2>2, <2>3, <2>4, <2>5 DEF AppendRemoteFails, TypeOK, local, roster
<1> QED
  BY <1>4, <1>5, <1>6

\* Looking up the row of an operation, or its tombstone, keeps TypeOK.
LEMMA LookUpTypes ==
    ASSUME TypeOK, NEW n \in Node, NEW k \in JobKey,
           LookUp(n, k) \/ ReadTombstone(n, k)
    PROVE  TypeOK'
<1>1. PICK c \in job[n][k].cur, p \in {"absent", "winning", "reviving"} :
        /\ \/ job' = [job EXCEPT ![n][k].cur = {[op |-> c.op, pc |-> p]}]
           \/ job' = [job EXCEPT ![n][k].cur = {}]
        /\ \E b : DisturbedBy(n, c.op.row, b)
  <2> DEFINE Cur(S) == job' = [job EXCEPT ![n][k].cur = S]
  <2>1. CASE LookUp(n, k)
    <3>1. PICK c \in job[n][k].cur :
             /\ \/ Cur({[op |-> c.op, pc |-> "absent"]})
                \/ Cur({[op |-> c.op, pc |-> "winning"]})
                \/ Cur({})
             /\ \E b : DisturbedBy(n, c.op.row, b)
      BY <2>1 DEF LookUp
    <3> QED
      BY <3>1
  <2>2. CASE ReadTombstone(n, k)
    <3>1. PICK c \in job[n][k].cur :
             /\ \/ Cur({[op |-> c.op, pc |-> "reviving"]})
                \/ Cur({[op |-> c.op, pc |-> "winning"]})
                \/ Cur({})
             /\ \E b : DisturbedBy(n, c.op.row, b)
      BY <2>2 DEF ReadTombstone
    <3> QED
      BY <3>1
  <2> QED
    BY <2>1, <2>2
<1>2. c.op \in Op /\ c.op.row \in Row
  BY JobOps
<1>3. job' \in [Node -> [JobKey -> Job]]
  <2> DEFINE i == [job[n][k] EXCEPT !.cur = {[op |-> c.op, pc |-> p]}]
             j == [job[n][k] EXCEPT !.cur = {}]
  <2>1. job' = [job EXCEPT ![n][k] = i] \/ job' = [job EXCEPT ![n][k] = j]
    BY <1>1
  <2>2. i \in Job /\ j \in Job
    <3>1. [op |-> c.op, pc |-> p] \in Current
      BY <1>2 DEF Current
    <3>2. \A S \in SUBSET Current : [job[n][k] EXCEPT !.cur = S] \in Job
      BY JobOps DEF Job
    <3> QED
      BY <3>1, <3>2
  <2> HIDE DEF i, j
  <2> QED
    BY <2>1, <2>2, JobSet
<1>4. disturbed' \subseteq Node \X Row
  BY <1>1, <1>2, DisturbedTypes
<1> QED
  BY <1>3, <1>4 DEF LookUp, ReadTombstone, TypeOK, local, roster

\* Writing the row of an operation, or failing to, keeps TypeOK.
LEMMA MaterializeTypes ==
    ASSUME TypeOK, NEW n \in Node, NEW k \in JobKey,
           Materialize(n, k) \/ MaterializeFails(n, k)
    PROVE  TypeOK'
<1>1. job' \in [Node -> [JobKey -> Job]]
  <2> DEFINE j == [job[n][k] EXCEPT !.cur = {}]
  <2>1. job' = [job EXCEPT ![n][k] = j]
    BY DEF Materialize, MaterializeFails
  <2>2. j \in Job
    BY JobOps DEF Job
  <2> HIDE DEF j
  <2> QED
    BY <2>1, <2>2, JobSet
<1>2. \A c \in job[n][k].cur : c.op.row \in Row /\ c.op.hlc \in Stamp
  BY JobOps
<1>3. CASE Materialize(n, k)
  <2>1. PICK c \in job[n][k].cur :
          IF c.op.kind = "delete"
          THEN /\ row' = [row EXCEPT ![n][c.op.row] = {}]
               /\ tomb' = [tomb EXCEPT ![n][c.op.row] = {c.op.hlc}]
          ELSE /\ row' = [row EXCEPT ![n][c.op.row] = {c.op.hlc}]
               /\ tomb' = [tomb EXCEPT ![n][c.op.row] =
                             IF c.pc = "reviving" THEN {} ELSE @]
    BY <1>3 DEF Materialize
  <2> DEFINE v == IF c.pc = "reviving" THEN {} ELSE tomb[n][c.op.row]
  <2>a. {} \in SUBSET (Stamp \cup {Blank}) /\ {c.op.hlc} \in SUBSET Stamp
        /\ {c.op.hlc} \in SUBSET (Stamp \cup {Blank}) /\ v \in SUBSET Stamp
    BY <1>2 DEF TypeOK
  <2>2. row' \in [Node -> [Row -> SUBSET (Stamp \cup {Blank})]]
    BY <1>2, <2>1, <2>a, RowSet
  <2>3. tomb' \in [Node -> [Row -> SUBSET Stamp]]
    <3>1. \/ tomb' = [tomb EXCEPT ![n][c.op.row] = {c.op.hlc}]
          \/ tomb' = [tomb EXCEPT ![n][c.op.row] = v]
      BY <2>1
    <3> HIDE DEF v
    <3> QED
      BY <1>2, <2>a, <3>1, TombSet
  <2> QED
    BY <1>1, <1>3, <2>2, <2>3 DEF Materialize, TypeOK, local, roster, history
<1>4. CASE MaterializeFails(n, k)
  <2>1. spent' \in Budget
    BY <1>4, FaultTypes DEF MaterializeFails
  <2>2. disturbed' \subseteq Node \X Row
    BY <1>2, <1>4, DisturbedTypes DEF MaterializeFails
  <2> QED
    BY <1>1, <1>4, <2>1, <2>2 DEF MaterializeFails, TypeOK, local, roster
<1> QED
  BY <1>3, <1>4

\* Every step of a batch keeps TypeOK.
LEMMA ApplyTypes ==
    ASSUME TypeOK, NEW n \in Node, ApplyStep(n)
    PROVE  TypeOK'
  BY TakeTypes, LookUpTypes, MaterializeTypes DEF ApplyStep

------------------------------------------------------------------------------
(* Type correctness: exchanges. *)

\* Change sets, filtered or not, and what they leave out are sets of operations.
LEMMA SelectTypes ==
    ASSUME TypeOK, NEW n \in Node, NEW p \in Node
    PROVE  /\ \A v : SelectFor(n, p, v) \in SUBSET Op
           /\ \A v : Withheld(n, p, v) \in SUBSET Op
           /\ \A S \in SUBSET Op : /\ Admit(n, p, S) \in SUBSET Op
                                   /\ Ungranted(n, p, S) \in SUBSET Op
<1>1. wal[n] \in SUBSET Op /\ passed[n] \in SUBSET Op
  BY DEF TypeOK
<1> QED
  BY <1>1 DEF SelectFor, MissingAt, Prefiltered, Withheld, Admit, Ungranted

\* The callers of apply_remote_changes are keys of the jobs.
LEMMA JobKeys ==
    ASSUME NEW n \in Node
    PROVE  <<"server", n>> \in JobKey /\ <<"client", n>> \in JobKey
           /\ <<"bundle", n>> \in JobKey
  BY DEF JobKey

\* Beginning a job replaces what it has to do.
LEMMA JobBegins ==
    ASSUME TypeOK, NEW n \in Node, NEW k \in JobKey, NEW S \in SUBSET Op,
           job' = [job EXCEPT ![n][k].todo = S]
    PROVE  job' \in [Node -> [JobKey -> Job]]
<1> DEFINE j == [job[n][k] EXCEPT !.todo = S]
<1>1. job' = [job EXCEPT ![n][k] = j]
  OBVIOUS
<1>2. j \in Job
  BY JobOps DEF Job
<1> HIDE DEF j
<1> QED
  BY <1>1, <1>2, JobSet

\* What each end of an exchange keeps is a session.
LEMMA SessionTypes ==
    ASSUME TypeOK, NEW c \in Node, NEW s \in Node, <<c, s>> \in Dial,
           SessionStep(c, s)
    PROVE  TypeOK'
<1> DEFINE d == <<c, s>>
<1> USE SessOps, StampFacts
<1>0. vc[c] \in VectorClock /\ vc[s] \in VectorClock
  BY DEF TypeOK
<1>1. CASE Request(c, s)
  <2> DEFINE v == [NoSession EXCEPT !.pc = "requested", !.cvc = vc[c]]
  <2>1. v \in Session /\ sess' = [sess EXCEPT ![d] = v]
    BY <1>0, <1>1 DEF Request, Session
  <2>2. sess' \in [Dial -> Session]
    BY <2>1, SessSet
  <2> QED
    BY <1>1, <2>2 DEF Request, SessionOnly, TypeOK, local, roster
<1>2. CASE Respond(c, s)
  <2> DEFINE v == [sess[d] EXCEPT !.pc = "responded", !.svc = vc[s]]
  <2>1. v \in Session
    BY <1>0 DEF Session
  <2>2. sess' = [sess EXCEPT ![d] = v]
    BY <1>2 DEF Respond, TypeOK
  <2>3. sess' \in [Dial -> Session]
    BY <2>1, <2>2, SessSet
  <2> QED
    BY <1>2, <2>3 DEF Respond, SessionOnly, TypeOK, local, roster
<1>3. CASE Upload(c, s)
  <2> DEFINE S == SelectFor(c, s, sess[d].svc)
             v == [sess[d] EXCEPT !.pc = "uploading", !.svc = EmptyVC,
                                  !.ops = S]
  <2>1. S \in SUBSET Op
    BY SelectTypes
  <2>2. v \in Session
    BY <2>1 DEF Session
  <2>3. sess' = [sess EXCEPT ![d] = v]
    BY <1>3 DEF Upload, TypeOK
  <2>4. sess' \in [Dial -> Session]
    BY <2>2, <2>3, SessSet
  <2>5. passed' \in [Node -> SUBSET Op]
    BY <1>3, SelectTypes, PassOverTypes DEF Upload
  <2> QED
    BY <1>3, <2>4, <2>5 DEF Upload, SessionOnly, TypeOK, local, roster
<1>4. CASE ServerApply(c, s)
  <2> DEFINE v == [sess[d] EXCEPT !.pc = "applying", !.ops = {}]
  <2>1. v \in Session
    BY DEF Session
  <2>2. sess' = [sess EXCEPT ![d] = v]
    BY <1>4 DEF ServerApply, TypeOK
  <2>3. sess' \in [Dial -> Session]
    BY <2>1, <2>2, SessSet
  <2>4. Admit(s, c, sess[d].ops) \in SUBSET Op /\ <<"server", c>> \in JobKey
    BY SelectTypes, JobKeys
  <2>5. job' \in [Node -> [JobKey -> Job]]
    BY <1>4, <2>4, JobBegins DEF ServerApply
  <2>6. passed' \in [Node -> SUBSET Op]
    BY <1>4, SelectTypes, PassOverTypes DEF ServerApply
  <2> QED
    BY <1>4, <2>3, <2>5, <2>6 DEF ServerApply, SessionOnly, TypeOK, local, roster
<1>5. CASE Reply(c, s)
  <2> DEFINE S == SelectFor(s, c, sess[d].cvc)
             v == [sess[d] EXCEPT !.pc = "downloading", !.cvc = EmptyVC,
                                  !.ops = S]
  <2>1. S \in SUBSET Op
    BY SelectTypes
  <2>2. v \in Session
    BY <2>1 DEF Session
  <2>3. sess' = [sess EXCEPT ![d] = v]
    BY <1>5 DEF Reply, TypeOK
  <2>4. sess' \in [Dial -> Session]
    BY <2>2, <2>3, SessSet
  <2>5. passed' \in [Node -> SUBSET Op]
    BY <1>5, SelectTypes, PassOverTypes DEF Reply
  <2> QED
    BY <1>5, <2>4, <2>5 DEF Reply, SessionOnly, TypeOK, local, roster
<1>6. CASE ClientApply(c, s)
  <2> DEFINE v == [sess[d] EXCEPT !.pc = "finishing", !.ops = {}]
  <2>1. v \in Session
    BY DEF Session
  <2>2. sess' = [sess EXCEPT ![d] = v]
    BY <1>6 DEF ClientApply, TypeOK
  <2>3. sess' \in [Dial -> Session]
    BY <2>1, <2>2, SessSet
  <2>4. Admit(c, s, sess[d].ops) \in SUBSET Op /\ <<"client", s>> \in JobKey
    BY SelectTypes, JobKeys
  <2>5. job' \in [Node -> [JobKey -> Job]]
    BY <1>6, <2>4, JobBegins DEF ClientApply
  <2>6. passed' \in [Node -> SUBSET Op]
    BY <1>6, SelectTypes, PassOverTypes DEF ClientApply
  <2> QED
    BY <1>6, <2>3, <2>5, <2>6 DEF ClientApply, SessionOnly, TypeOK, local, roster
<1>7. CASE Finish(c, s)
  <2>1. sess' \in [Dial -> Session]
    BY <1>7, SessSet DEF Finish
  <2> QED
    BY <1>7, <2>1 DEF Finish, SessionOnly, TypeOK, local, roster
<1>8. CASE Drop(c, s)
  <2>1. sess' \in [Dial -> Session]
    BY <1>8, StampFacts DEF Drop, TypeOK
  <2>2. spent' \in Budget
    BY <1>8, FaultTypes DEF Drop
  <2> QED
    BY <1>8, <2>1, <2>2 DEF Drop, TypeOK, local, roster, history
<1> QED
  BY <1>1, <1>2, <1>3, <1>4, <1>5, <1>6, <1>7, <1>8 DEF SessionStep

------------------------------------------------------------------------------
(* Type correctness: the operator and the process. *)

\* Grants, revocations, bundles, resuming and restarting keep TypeOK.
LEMMA OperatorTypes ==
    ASSUME TypeOK, NEW n \in Node, OperatorStep(n)
    PROVE  TypeOK'
<1>0. spent \in Budget
  BY DEF TypeOK
<1>1. ASSUME NEW p \in Node, NEW scope \in Scope,
             GrantScope(n, p, scope) \/ RevokeScope(n, p, scope)
      PROVE  TypeOK'
  <2>1. spent' \in Budget
    BY <1>0, <1>1 DEF GrantScope, RevokeScope, Budget
  <2> DEFINE Grants == [Node -> [Node -> SUBSET Scope]]
  <2>a. grant \in Grants /\ shared \in Grants
    BY DEF TypeOK
  <2>2. grant' \in Grants /\ shared' \in Grants
    <3>1. CASE GrantScope(n, p, scope)
      BY <1>1, <2>a, <3>1 DEF GrantScope
    <3>2. CASE RevokeScope(n, p, scope)
      BY <1>1, <2>a, <3>2 DEF RevokeScope
    <3> QED
      BY <1>1, <3>1, <3>2
  <2> QED
    BY <1>1, <2>1, <2>2 DEF GrantScope, RevokeScope, TypeOK, local, exchange,
                            history
<1>2. ASSUME NEW m \in Node, ImportBundle(m, n) PROVE TypeOK'
  <2>1. spent' \in Budget
    BY <1>0, <1>2 DEF ImportBundle, Budget
  <2>2. wal[m] \in SUBSET Op /\ <<"bundle", m>> \in JobKey
    BY JobKeys DEF TypeOK
  <2>3. job' \in [Node -> [JobKey -> Job]]
    BY <1>2, <2>2, JobBegins DEF ImportBundle
  <2>4. carried' \subseteq Node \X Node
    BY <1>2 DEF ImportBundle, TypeOK
  <2>5. passed[m] \in SUBSET Op
    BY DEF TypeOK
  <2>6. passed' \in [Node -> SUBSET Op]
    BY <1>2, <2>5, PassOverTypes DEF ImportBundle
  <2> QED
    BY <1>2, <2>1, <2>3, <2>4, <2>6 DEF ImportBundle, TypeOK, local, roster
<1>3. CASE Resume(n)
  BY <1>3 DEF Resume, TypeOK, local, exchange, roster, history
<1>4. CASE Crash(n)
  <2>1. spent' \in Budget
    BY <1>4, FaultTypes DEF Crash
  <2>2. clock' \in [Node -> Clock] /\ vc' \in [Node -> VectorClock]
    BY <1>4, StampFacts DEF Crash, TypeOK
  <2>3. task' \in [Node -> [Row -> Task]] /\ job' \in [Node -> [JobKey -> Job]]
    BY <1>4, StampFacts DEF Crash, TypeOK
  <2>4. sess' \in [Dial -> Session]
    <3>1. PICK again \in SUBSET Dial :
             sess' = [d \in Dial |->
                        IF d[1] # n /\ ~SessionBreaks(d, n) THEN sess[d]
                        ELSE IF d[1] # n /\ d \in again THEN Broken
                        ELSE NoSession]
      BY <1>4 DEF Crash
    <3> QED
      BY <3>1, StampFacts DEF TypeOK
  <2>5. disturbed' \subseteq Node \X Row
    BY <1>4 DEF Crash, TypeOK
  <2>6. paused' \in [Node -> BOOLEAN]
    BY <1>4 DEF Crash, TypeOK
  <2> QED
    BY <1>4, <2>1, <2>2, <2>3, <2>4, <2>5, <2>6 DEF Crash, TypeOK, roster
<1> QED
  BY <1>1, <1>2, <1>3, <1>4 DEF OperatorStep

\* Every step keeps TypeOK.
LEMMA TypeStep == TypeOK /\ [Next]_vars => TypeOK'
<1> SUFFICES ASSUME TypeOK, [Next]_vars PROVE TypeOK'
  OBVIOUS
<1>1. CASE UNCHANGED vars
  BY <1>1 DEF vars, TypeOK, local, exchange, roster, history
<1>2. ASSUME NEW n \in Node, LocalStep(n) \/ ApplyStep(n) \/ OperatorStep(n)
      PROVE  TypeOK'
  BY <1>2, LocalTypes, ApplyTypes, OperatorTypes
<1>3. ASSUME NEW d \in Dial, SessionStep(d[1], d[2]) PROVE TypeOK'
  <2>1. d[1] \in Node /\ d[2] \in Node /\ d = <<d[1], d[2]>>
    BY DialAssumption
  <2> QED
    BY <1>3, <2>1, SessionTypes
<1> QED
  BY <1>1, <1>2, <1>3 DEF Next

\* The initial states have their types.
LEMMA TypeInit == Init => TypeOK
<1> SUFFICES ASSUME Init PROVE TypeOK
  OBVIOUS
<1>1. spent \in Budget
  BY DEF Init, Budget
<1> QED
  BY <1>1, StampFacts, GrantsAssumption DEF Init, TypeOK

\* Logs hold operations, rows and tombstones stamps, rosters grantable
\* scopes, for any brains, rows, scopes, topology and faults.
THEOREM TypeCorrect == Spec => []TypeOK
  BY TypeInit, TypeStep, PTL DEF Spec

------------------------------------------------------------------------------
(* What the steps leave alone. *)

\* A local step leaves exchanges, batches, rosters and bundles alone.
LEMMA LocalFrame ==
    ASSUME NEW n \in Node, LocalStep(n)
    PROVE  /\ UNCHANGED <<sess, job, grant, shared, carried>>
           /\ PhysicalTick(n) \/ pt' = pt
<1>1. CASE PhysicalTick(n)
  BY <1>1 DEF PhysicalTick, exchange, roster, history
<1>2. ASSUME NEW r \in Row, NEW scope \in AnyScope,
             SaveNote(n, r, scope) \/ SaveEpisode(n, r, scope)
      PROVE  UNCHANGED <<sess, job, grant, shared, carried, pt>>
  BY <1>2 DEF SaveNote, SaveEpisode, exchange, roster, history
<1>3. ASSUME NEW r \in Row, AppendLocal(n, r) \/ AppendLocalFails(n, r)
      PROVE  UNCHANGED <<sess, job, grant, shared, carried, pt>>
  BY <1>3 DEF AppendLocal, AppendLocalFails, exchange, roster
<1>4. ASSUME NEW r \in Row, WriteRow(n, r) \/ DeleteRow(n, r)
      PROVE  UNCHANGED <<sess, job, grant, shared, carried, pt>>
  BY <1>4 DEF WriteRow, DeleteRow, exchange, roster, history
<1>5. ASSUME NEW r \in Row, LogDelete(n, r) \/ RecordTombstone(n, r)
      PROVE  UNCHANGED <<sess, job, grant, shared, carried, pt>>
  BY <1>5 DEF LogDelete, RecordTombstone, exchange, roster, history
<1> QED
  BY <1>1, <1>2, <1>3, <1>4, <1>5 DEF LocalStep

\* A step of a batch leaves time, local writers, exchanges, rosters and
\* bundles alone, and all logs unless it takes an operation.
LEMMA ApplyFrame ==
    ASSUME NEW n \in Node, ApplyStep(n)
    PROVE  /\ UNCHANGED <<pt, task, minted, paused, sess, grant, shared, carried>>
           /\ \/ \E k \in JobKey : TakeRemote(n, k)
              \/ UNCHANGED <<wal, vc>>
<1> DEFINE Frame ==
              UNCHANGED <<pt, task, minted, paused, sess, grant, shared, carried>>
<1>1. ASSUME NEW k \in JobKey, RejectDrift(n, k) \/ AppendRemoteFails(n, k)
      PROVE  Frame /\ UNCHANGED <<wal, vc>>
  BY <1>1 DEF RejectDrift, AppendRemoteFails, local, roster
<1>2. ASSUME NEW k \in JobKey, TakeRemote(n, k)
      PROVE  Frame
  BY <1>2 DEF TakeRemote, local, roster, history
<1>3. ASSUME NEW k \in JobKey, LookUp(n, k) \/ ReadTombstone(n, k)
      PROVE  Frame /\ UNCHANGED <<wal, vc>>
  BY <1>3 DEF LookUp, ReadTombstone, local, roster
<1>4. ASSUME NEW k \in JobKey, Materialize(n, k) \/ MaterializeFails(n, k)
      PROVE  Frame /\ UNCHANGED <<wal, vc>>
  BY <1>4 DEF Materialize, MaterializeFails, local, roster, history
<1> QED
  BY <1>1, <1>2, <1>3, <1>4 DEF ApplyStep

\* A step of an exchange changes no more than its ends, the batch it begins
\* and who was passed over.
LEMMA SessionFrame ==
    ASSUME NEW c, NEW s, SessionStep(c, s)
    PROVE  UNCHANGED <<pt, clock, wal, vc, row, tomb, paused, task, minted,
                       grant, shared, carried, disturbed>>
<1>1. CASE SessionOnly
  BY <1>1 DEF SessionOnly, local, roster
<1>2. CASE Drop(c, s)
  BY <1>2 DEF Drop, local, roster, history
<1>3. SessionOnly \/ Drop(c, s)
  BY DEF SessionStep, Request, Respond, Upload, ServerApply, Reply,
         ClientApply, Finish
<1> QED
  BY <1>1, <1>2, <1>3

\* A step of the operator, or a restart, changes no log, row or tombstone.
LEMMA OperatorFrame ==
    ASSUME NEW n \in Node, OperatorStep(n)
    PROVE  UNCHANGED <<pt, wal, row, tomb, minted>>
  BY DEF OperatorStep, GrantScope, RevokeScope, ImportBundle, Resume, Crash,
         local

------------------------------------------------------------------------------
(* The drift bound of the logs. *)

\* What a local write has minted and not yet appended obeys the bound too.
MintedWithinDrift ==
    \A n \in Node, r \in Row : \A op \in task[n][r].op :
        op.hlc.wall <= pt[n] + MaxDrift

DriftInv == TypeOK /\ LogsWithinDrift /\ MintedWithinDrift

\* A log gains an operation just minted, one a coroutine had minted, or one
\* a batch delivers within the drift bound.
LEMMA LogGains ==
    ASSUME TypeOK, [Next]_vars, NEW n \in Node, NEW op \in wal'[n],
           op \notin wal[n]
    PROVE  \/ \E r \in Row \ minted, scope \in AnyScope :
                 op = Mint(n, "insert", r, scope)
           \/ \E r \in Row : op \in task[n][r].op /\ task'[n][r].pc = "logged"
           \/ \E k \in JobKey : /\ op \in Oldest(job[n][k].todo)
                                /\ WithinDrift(op.hlc, pt[n])
<1> DEFINE New(m, o) == wal' = [wal EXCEPT ![m] = @ \cup {o}]
<1>0. \A m \in Node : \A o : New(m, o) => m = n /\ op = o
  BY DEF TypeOK
<1>1. wal' # wal
  OBVIOUS
<1>2. ASSUME NEW m \in Node, LocalStep(m)
      PROVE  \/ \E r \in Row \ minted, scope \in AnyScope :
                   New(m, Mint(m, "insert", r, scope))
             \/ \E r \in Row : \E o \in task[m][r].op :
                   New(m, o) /\ task'[m][r].pc = "logged"
  <2>1. ~PhysicalTick(m)
    BY <1>1 DEF PhysicalTick
  <2>2. ASSUME NEW r \in Row, NEW scope \in AnyScope,
               SaveNote(m, r, scope) \/ SaveEpisode(m, r, scope)
        PROVE  New(m, Mint(m, "insert", r, scope)) /\ r \notin minted
    BY <1>1, <2>2 DEF SaveNote, SaveEpisode, Append, LocalAppendFails
  <2>3. ASSUME NEW r \in Row, AppendLocal(m, r)
        PROVE  \E o \in task[m][r].op : New(m, o) /\ task'[m][r].pc = "logged"
    <3>1. PICK o \in task[m][r].op :
             /\ New(m, o)
             /\ task' = [task EXCEPT ![m][r] = [pc |-> "logged", op |-> {o}]]
      BY <2>3 DEF AppendLocal, Append
    <3>2. task \in [Node -> [Row -> Task]]
      BY DEF TypeOK
    <3>3. task'[m][r].pc = "logged"
      BY <3>1, <3>2
    <3> HIDE DEF New
    <3> QED
      BY <3>1, <3>3
  <2>4. ASSUME NEW r \in Row
        PROVE  /\ ~AppendLocalFails(m, r) /\ ~WriteRow(m, r)
               /\ ~DeleteRow(m, r) /\ ~LogDelete(m, r)
               /\ ~RecordTombstone(m, r)
    BY <1>1 DEF AppendLocalFails, LocalAppendFails, WriteRow, DeleteRow,
                LogDelete, RecordTombstone
  <2> QED
    BY <1>2, <2>1, <2>2, <2>3, <2>4 DEF LocalStep
<1>3. ASSUME NEW m \in Node, ApplyStep(m)
      PROVE  \E k \in JobKey : \E o \in Oldest(job[m][k].todo) :
                New(m, o) /\ WithinDrift(o.hlc, pt[m])
  <2>1. PICK k \in JobKey :
           \/ RejectDrift(m, k) \/ TakeRemote(m, k) \/ AppendRemoteFails(m, k)
           \/ LookUp(m, k) \/ ReadTombstone(m, k)
           \/ Materialize(m, k) \/ MaterializeFails(m, k)
    BY <1>3 DEF ApplyStep
  <2>2. TakeRemote(m, k)
    BY <1>1, <2>1 DEF RejectDrift, AppendRemoteFails, LookUp,
                      ReadTombstone, Materialize,
                      MaterializeFails
  <2> QED
    BY <2>2 DEF TakeRemote, Append
<1>4. ASSUME NEW m \in Node, OperatorStep(m) PROVE FALSE
  BY <1>1, <1>4 DEF OperatorStep, GrantScope, RevokeScope, ImportBundle,
                    Resume, Crash
<1>5. ASSUME NEW d \in Dial, SessionStep(d[1], d[2]) PROVE FALSE
  BY <1>1, <1>5, SessionFrame
<1>6. wal' = wal => FALSE
  BY <1>1
<1>7. CASE \E m \in Node : LocalStep(m)
  <2> HIDE DEF New
  <2> QED
    BY <1>0, <1>2, <1>7
<1>8. CASE \E m \in Node : ApplyStep(m)
  <2> HIDE DEF New
  <2> QED
    BY <1>0, <1>3, <1>8
<1> QED
  BY <1>4, <1>5, <1>6, <1>7, <1>8 DEF Next, vars

\* A coroutine gains an operation by minting it: an insert under an unused
\* identifier, or a delete in a scope the row's operations give.
LEMMA TaskGains ==
    ASSUME TypeOK, [Next]_vars, NEW n \in Node, NEW r \in Row,
           NEW op \in task'[n][r].op, op \notin task[n][r].op
    PROVE  \E kind \in {"insert", "delete"}, scope \in AnyScope :
              /\ op = Mint(n, kind, r, scope)
              /\ kind = "insert" => r \notin minted
              /\ kind = "delete" => /\ task[n][r].pc = "deleted"
                                    /\ scope \in ScopesForRow(n, r)
<1> DEFINE Set(m, q, t) == task' = [task EXCEPT ![m][q] = t]
           Goal == \E kind \in {"insert", "delete"}, scope \in AnyScope :
                      /\ op = Mint(n, kind, r, scope)
                      /\ kind = "insert" => r \notin minted
                      /\ kind = "delete" => /\ task[n][r].pc = "deleted"
                                            /\ scope \in ScopesForRow(n, r)
<1>0. \A m \in Node, q \in Row : \A t :
         Set(m, q, t) => m = n /\ q = r /\ op \in t.op
  BY DEF TypeOK
<1>1. task' # task
  OBVIOUS
<1>e. NoTask.op = {} /\ \A S, p : [pc |-> p, op |-> S].op = S
  BY DEF NoTask
<1>2. ASSUME NEW m \in Node, LocalStep(m) PROVE Goal
  <2>1. ~PhysicalTick(m)
    BY <1>1 DEF PhysicalTick, local
  <2>2. ASSUME NEW q \in Row, NEW scope \in AnyScope,
               SaveNote(m, q, scope) \/ SaveEpisode(m, q, scope)
        PROVE  Goal
    <3>1. \/ Set(m, q, [pc |-> "logged", op |-> {Mint(m, "insert", q, scope)}])
          \/ Set(m, q, [pc |-> "minted", op |-> {Mint(m, "insert", q, scope)}])
          \/ Set(m, q, [pc |-> "logged", op |-> {}])
      BY <2>2 DEF SaveNote, SaveEpisode
    <3> HIDE DEF Set
    <3>2. m = n /\ q = r /\ op = Mint(m, "insert", q, scope)
      BY <1>0, <1>e, <3>1
    <3>3. q \notin minted
      BY <2>2 DEF SaveNote, SaveEpisode
    <3> QED
      BY <3>2, <3>3
  <2>3. ASSUME NEW q \in Row, AppendLocal(m, q) \/ AppendLocalFails(m, q)
        PROVE  FALSE
    <3>1. PICK o \in task[m][q].op :
             \/ Set(m, q, [pc |-> "logged", op |-> {o}])
             \/ Set(m, q, [pc |-> "logged", op |-> {}])
             \/ Set(m, q, NoTask)
      BY <2>3 DEF AppendLocal, AppendLocalFails
    <3> HIDE DEF Set
    <3> QED
      BY <1>0, <1>e, <3>1
  <2>4. ASSUME NEW q \in Row,
               WriteRow(m, q) \/ DeleteRow(m, q) \/ RecordTombstone(m, q)
        PROVE  FALSE
    <3>1. Set(m, q, NoTask) \/ Set(m, q, [pc |-> "deleted", op |-> {}])
      BY <2>4 DEF WriteRow, DeleteRow, RecordTombstone
    <3> HIDE DEF Set
    <3> QED
      BY <1>0, <1>e, <3>1
  <2>5. ASSUME NEW q \in Row, LogDelete(m, q) PROVE Goal
    <3>1. \/ \E scope \in ScopesForRow(m, q) :
                Set(m, q, [pc |-> "minted", op |-> {Mint(m, "delete", q, scope)}])
          \/ Set(m, q, NoTask)
      BY <2>5 DEF LogDelete
    <3>2. ScopesForRow(m, q) \subseteq AnyScope
      <4>1. \A o \in wal[m] : o.scope \in AnyScope
        BY DEF TypeOK, Op
      <4> QED
        BY <4>1 DEF ScopesForRow, Newest, OpsOf, AnyScope
    <3> HIDE DEF Set
    <3>3. ~Set(m, q, NoTask)
      BY <1>0, <1>e
    <3>4. PICK scope \in ScopesForRow(m, q) :
             Set(m, q, [pc |-> "minted", op |-> {Mint(m, "delete", q, scope)}])
      BY <3>1, <3>3
    <3>5. m = n /\ q = r /\ op = Mint(m, "delete", q, scope)
      BY <1>0, <1>e, <3>4
    <3>6. task[m][q].pc = "deleted"
      BY <2>5 DEF LogDelete
    <3> QED
      BY <3>2, <3>4, <3>5, <3>6
  <2> QED
    BY <1>2, <2>1, <2>2, <2>3, <2>4, <2>5 DEF LocalStep
<1>3. ASSUME NEW m \in Node, ApplyStep(m) PROVE FALSE
  BY <1>1, <1>3, ApplyFrame
<1>4. ASSUME NEW m \in Node, OperatorStep(m) PROVE FALSE
  <2>1. CASE Crash(m)
    <3>1. task' = [task EXCEPT ![m] = [q \in Row |-> NoTask]]
      BY <2>1 DEF Crash
    <3>2. task'[n][r] = task[n][r] \/ task'[n][r] = NoTask
      BY <3>1 DEF TypeOK
    <3> QED
      BY <1>e, <3>2
  <2> QED
    BY <1>1, <1>4, <2>1 DEF OperatorStep, GrantScope, RevokeScope,
                            ImportBundle, Resume, local
<1>5. ASSUME NEW d \in Dial, SessionStep(d[1], d[2]) PROVE FALSE
  BY <1>1, <1>5, SessionFrame
<1> QED
  BY <1>1, <1>2, <1>3, <1>4, <1>5 DEF Next, vars, local

\* Physical clocks do not go back.
LEMMA TimeAdvances ==
    ASSUME TypeOK, [Next]_vars, NEW n \in Node
    PROVE  pt[n] \in Nat /\ pt'[n] \in Nat /\ pt[n] <= pt'[n]
<1>0. pt \in [Node -> Nat]
  BY DEF TypeOK
<1>1. CASE pt' = pt
  BY <1>0, <1>1
<1>2. CASE \E m \in Node : PhysicalTick(m)
  BY <1>0, <1>2 DEF PhysicalTick
<1>3. UNCHANGED pt \/ \E m \in Node : PhysicalTick(m)
  BY LocalFrame, ApplyFrame, SessionFrame, OperatorFrame DEF Next, vars
<1> QED
  BY <1>1, <1>2, <1>3

\* Every step keeps the drift bound of the logs and of what is minted.
LEMMA DriftStep == DriftInv /\ [Next]_vars => DriftInv'
<1> SUFFICES ASSUME DriftInv, [Next]_vars PROVE DriftInv'
  OBVIOUS
<1> USE DEF DriftInv
<1>0. TypeOK'
  BY TypeStep
<1>1. \A n \in Node, k \in {"insert", "delete"}, r \in Row, s \in AnyScope :
         Mint(n, k, r, s).hlc.wall <= pt[n] + MaxDrift
  BY MintFacts
<1>2. \A op \in Op : op.hlc.wall \in Nat
  BY DEF Op, Stamp
<1>3. ASSUME NEW n \in Node, NEW op \in wal'[n]
      PROVE  op.hlc.wall <= pt'[n] + MaxDrift
  <2>1. op \in Op
    BY <1>0 DEF TypeOK
  <2>2. op.hlc.wall <= pt[n] + MaxDrift
    <3>1. CASE op \in wal[n]
      BY <3>1 DEF LogsWithinDrift
    <3>2. CASE op \notin wal[n]
      BY <1>1, <3>2, LogGains DEF MintedWithinDrift, WithinDrift
    <3> QED
      BY <3>1, <3>2
  <2> QED
    BY <1>2, <2>1, <2>2, TimeAdvances, MaxDriftAssumption
<1>4. ASSUME NEW n \in Node, NEW r \in Row, NEW op \in task'[n][r].op
      PROVE  op.hlc.wall <= pt'[n] + MaxDrift
  <2>1. op \in Op
    <3>1. task'[n][r] \in Task
      BY <1>0 DEF TypeOK
    <3> QED
      BY <3>1 DEF Task
  <2>2. op.hlc.wall <= pt[n] + MaxDrift
    <3>1. CASE op \in task[n][r].op
      BY <3>1 DEF MintedWithinDrift
    <3>2. CASE op \notin task[n][r].op
      BY <1>1, <3>2, TaskGains
    <3> QED
      BY <3>1, <3>2
  <2> QED
    BY <1>2, <2>1, <2>2, TimeAdvances, MaxDriftAssumption
<1> QED
  BY <1>0, <1>3, <1>4 DEF LogsWithinDrift, MintedWithinDrift

\* No stamp that a brain's physical clock puts out of reach is ever in its
\* log, from whichever brain and over whichever path it came.
THEOREM LogsStayWithinDrift == Spec => []LogsWithinDrift
<1>1. Init => DriftInv
  BY TypeInit DEF Init, DriftInv, LogsWithinDrift, MintedWithinDrift, NoTask
<1>2. DriftInv => LogsWithinDrift
  BY DEF DriftInv
<1> QED
  BY <1>1, <1>2, DriftStep, PTL DEF Spec

------------------------------------------------------------------------------
(* The exchange implements ScopedGossip. *)

\* The proofs of ScopedGossip, about the logs and grants of the exchange.
GP == INSTANCE ScopedGossip_proofs WITH log <- wal, share <- shared

\* What is granted was shared; a coroutine works on its own brain's
\* operation; and what travels or waits to be applied comes from the log of
\* the brain it is said to come from, over a link in its scope.
GrantsAreShared == \A n, p \in Node : grant[n][p] \subseteq shared[n][p]

TasksAreOwn ==
    \A n \in Node, r \in Row : \A op \in task[n][r].op : op.origin = n

SentBy(a, b, op) == op \in wal[a] /\ op.scope \in shared[a][b]

SessionsSend ==
    \A d \in Dial : \A op \in sess[d].ops :
        \/ sess[d].pc = "uploading" /\ SentBy(d[1], d[2], op)
        \/ sess[d].pc = "downloading" /\ SentBy(d[2], d[1], op)

Linked(a, b, scope) ==
    \/ scope \in shared[a][b] /\ scope \in shared[b][a]
    \/ <<a, b>> \in carried

JobsAreLinked ==
    \A n \in Node, k \in JobKey : \A op \in job[n][k].todo :
        op \in wal[k[2]] /\ Linked(k[2], n, op.scope)

InFlight ==
    TypeOK /\ GrantsAreShared /\ TasksAreOwn /\ SessionsSend /\ JobsAreLinked

\* Logs, grants ever made and bundles ever carried only grow.
LEMMA LinksGrow ==
    ASSUME TypeOK, [Next]_vars
    PROVE  /\ \A n \in Node : wal[n] \subseteq wal'[n]
           /\ \A n, p \in Node : shared[n][p] \subseteq shared'[n][p]
           /\ carried \subseteq carried'
<1> DEFINE Grows == /\ \A n \in Node : wal[n] \subseteq wal'[n]
                    /\ \A n, p \in Node : shared[n][p] \subseteq shared'[n][p]
                    /\ carried \subseteq carried'
<1>1. CASE UNCHANGED <<wal, shared, carried>>
  BY <1>1
<1>2. ASSUME NEW m \in Node, NEW op, Append(m, op), UNCHANGED <<shared, carried>>
      PROVE  Grows
  BY <1>2 DEF Append, TypeOK
<1>3. ASSUME NEW m \in Node, LocalStep(m)
      PROVE  /\ UNCHANGED <<shared, carried>>
             /\ wal' = wal \/ \E op : Append(m, op)
  BY <1>3 DEF LocalStep, PhysicalTick, SaveNote, SaveEpisode, AppendLocal,
              AppendLocalFails, LocalAppendFails, WriteRow, DeleteRow,
              LogDelete, RecordTombstone, roster, history
<1>4. ASSUME NEW m \in Node, ApplyStep(m)
      PROVE  /\ UNCHANGED <<shared, carried>>
             /\ wal' = wal \/ \E op : Append(m, op)
  BY <1>4 DEF ApplyStep, RejectDrift, TakeRemote, AppendRemoteFails,
              LookUp,
              ReadTombstone, Materialize, MaterializeFails, roster, history
<1>5. ASSUME NEW m \in Node, OperatorStep(m) PROVE Grows
  <2>1. wal' = wal
    BY <1>5 DEF OperatorStep, GrantScope, RevokeScope, ImportBundle, Resume,
                Crash
  <2>2. carried \subseteq carried'
    BY <1>5 DEF OperatorStep, GrantScope, RevokeScope, ImportBundle, Resume,
                Crash, history
  <2>3. \A n, p \in Node : shared[n][p] \subseteq shared'[n][p]
    <3>1. ASSUME NEW p \in Node, NEW scope \in Scope, GrantScope(m, p, scope)
          PROVE  \A n, q \in Node : shared[n][q] \subseteq shared'[n][q]
      BY <3>1 DEF GrantScope, TypeOK
    <3>2. \/ \E p \in Node, scope \in Scope : GrantScope(m, p, scope)
          \/ shared' = shared
      BY <1>5 DEF OperatorStep, RevokeScope, ImportBundle, Resume, Crash,
                  roster
    <3> QED
      BY <3>1, <3>2
  <2> QED
    BY <2>1, <2>2, <2>3
<1>6. ASSUME NEW d \in Dial, SessionStep(d[1], d[2])
      PROVE  UNCHANGED <<wal, shared, carried>>
  BY <1>6, SessionFrame
<1>7. CASE UNCHANGED vars
  BY <1>1, <1>7 DEF vars, roster, history
<1> HIDE DEF Grows
<1>8. Grows
  BY <1>1, <1>2, <1>3, <1>4, <1>5, <1>6, <1>7 DEF Next, Grows
<1> QED
  BY <1>8 DEF Grows

\* A brain's grants are among what it ever shared, before and after a step.
LEMMA GrantsStep ==
    ASSUME TypeOK, GrantsAreShared, [Next]_vars
    PROVE  GrantsAreShared'
<1>1. CASE UNCHANGED roster
  BY <1>1 DEF roster, GrantsAreShared
<1>2. ASSUME NEW n \in Node, NEW p \in Node, NEW scope \in Scope,
             GrantScope(n, p, scope) \/ RevokeScope(n, p, scope)
      PROVE  GrantsAreShared'
  <2>1. CASE GrantScope(n, p, scope)
    <3>1. /\ grant' = [grant EXCEPT ![n][p] = grant[n][p] \cup {scope}]
          /\ shared' = [shared EXCEPT ![n][p] = shared[n][p] \cup {scope}]
      BY <2>1 DEF GrantScope
    <3>2. \A m, q \in Node :
             \/ grant'[m][q] = grant[m][q] /\ shared'[m][q] = shared[m][q]
             \/ /\ grant'[m][q] = grant[m][q] \cup {scope}
                /\ shared'[m][q] = shared[m][q] \cup {scope}
      BY <3>1 DEF TypeOK
    <3> QED
      BY <3>2 DEF GrantsAreShared
  <2>2. CASE RevokeScope(n, p, scope)
    <3>1. /\ grant' = [grant EXCEPT ![n][p] = grant[n][p] \ {scope}]
          /\ shared' = shared
      BY <2>2 DEF RevokeScope
    <3>2. \A m, q \in Node : grant'[m][q] \subseteq grant[m][q]
      BY <3>1 DEF TypeOK
    <3> QED
      BY <3>1, <3>2 DEF GrantsAreShared
  <2> QED
    BY <1>2, <2>1, <2>2
<1>3. ASSUME NEW m \in Node, LocalStep(m) \/ ApplyStep(m)
      PROVE  UNCHANGED roster
  BY <1>3, LocalFrame, ApplyFrame DEF roster
<1>4. ASSUME NEW m \in Node, OperatorStep(m) PROVE GrantsAreShared'
  BY <1>1, <1>2, <1>4 DEF OperatorStep, ImportBundle, Resume, Crash
<1>5. ASSUME NEW d \in Dial, SessionStep(d[1], d[2]) PROVE UNCHANGED roster
  BY <1>5, SessionFrame DEF roster
<1> QED
  BY <1>1, <1>3, <1>4, <1>5 DEF Next, vars

\* An operation a coroutine has just minted carries its brain's identifier.
LEMMA TasksStep ==
    ASSUME TypeOK, TasksAreOwn, [Next]_vars
    PROVE  TasksAreOwn'
<1> SUFFICES ASSUME NEW n \in Node, NEW r \in Row, NEW op \in task'[n][r].op
             PROVE  op.origin = n
  BY DEF TasksAreOwn
<1>1. CASE op \in task[n][r].op
  BY <1>1 DEF TasksAreOwn
<1>2. CASE op \notin task[n][r].op
  BY <1>2, TaskGains, MintFacts
<1> QED
  BY <1>1, <1>2

\* What a change set is built from.
LEMMA SelectSends ==
    ASSUME GrantsAreShared, NEW a \in Node, NEW b \in Node, NEW v,
           NEW op \in SelectFor(a, b, v)
    PROVE  SentBy(a, b, op)
  BY DEF SelectFor, MissingAt, GrantsAreShared, SentBy

\* A session changes what it carries only by selecting it at an end.
LEMMA SessionChanges ==
    ASSUME TypeOK, [Next]_vars, NEW d \in Dial
    PROVE  \/ sess'[d] = sess[d]
           \/ sess'[d].ops = {}
           \/ sess'[d].ops = sess[d].ops /\ sess'[d].pc = "responded"
              /\ sess[d].pc = "requested"
           \/ /\ Upload(d[1], d[2]) /\ sess'[d].pc = "uploading"
              /\ sess'[d].ops = SelectFor(d[1], d[2], sess[d].svc)
           \/ /\ Reply(d[1], d[2]) /\ sess'[d].pc = "downloading"
              /\ sess'[d].ops = SelectFor(d[2], d[1], sess[d].cvc)
<1>0. sess \in [Dial -> Session] /\ NoSession.ops = {} /\ Broken.ops = {}
  BY DEF TypeOK, NoSession, Broken
<1>1. CASE UNCHANGED sess
  BY <1>1
<1>2. ASSUME NEW m \in Node, LocalStep(m) \/ ApplyStep(m)
      PROVE  UNCHANGED sess
  BY <1>2, LocalFrame, ApplyFrame
<1>3. ASSUME NEW m \in Node, OperatorStep(m)
      PROVE  sess'[d] = sess[d] \/ sess'[d].ops = {}
  <2>1. CASE Crash(m)
    BY <1>0, <2>1 DEF Crash
  <2> QED
    BY <1>3, <2>1 DEF OperatorStep, GrantScope, RevokeScope, ImportBundle,
                      Resume, exchange
<1>4. ASSUME NEW e \in Dial, SessionStep(e[1], e[2]), e # d
      PROVE  sess'[d] = sess[d]
  <2>1. e = <<e[1], e[2]>>
    BY DialAssumption
  <2>2. CASE Request(e[1], e[2]) \/ Finish(e[1], e[2]) \/ Drop(e[1], e[2])
    BY <1>0, <1>4, <2>1, <2>2 DEF Request, Finish, Drop
  <2>3. CASE Respond(e[1], e[2]) \/ Upload(e[1], e[2]) \/ Reply(e[1], e[2])
    BY <1>0, <1>4, <2>1, <2>3 DEF Respond, Upload, Reply
  <2>4. CASE ServerApply(e[1], e[2]) \/ ClientApply(e[1], e[2])
    BY <1>0, <1>4, <2>1, <2>4 DEF ServerApply, ClientApply
  <2> QED
    BY <1>4, <2>2, <2>3, <2>4 DEF SessionStep
<1>5. ASSUME SessionStep(d[1], d[2])
      PROVE  \/ sess'[d].ops = {}
             \/ sess'[d].ops = sess[d].ops /\ sess'[d].pc = "responded"
                /\ sess[d].pc = "requested"
             \/ /\ Upload(d[1], d[2]) /\ sess'[d].pc = "uploading"
                /\ sess'[d].ops = SelectFor(d[1], d[2], sess[d].svc)
             \/ /\ Reply(d[1], d[2]) /\ sess'[d].pc = "downloading"
                /\ sess'[d].ops = SelectFor(d[2], d[1], sess[d].cvc)
  <2>1. d = <<d[1], d[2]>> /\ sess[d] \in Session
    BY <1>0, DialAssumption
  <2>2. CASE Request(d[1], d[2]) \/ Finish(d[1], d[2]) \/ Drop(d[1], d[2])
    BY <1>0, <2>1, <2>2 DEF Request, Finish, Drop, NoSession
  <2>3. CASE Respond(d[1], d[2])
    BY <1>0, <2>1, <2>3 DEF Respond, Session
  <2>4. CASE Upload(d[1], d[2])
    BY <1>0, <2>1, <2>4 DEF Upload, Session
  <2>5. CASE ServerApply(d[1], d[2]) \/ ClientApply(d[1], d[2])
    <3>1. CASE ServerApply(d[1], d[2])
      <4>1. sess' = [sess EXCEPT ![d] =
                       [sess[d] EXCEPT !.pc = "applying", !.ops = {}]]
        BY <2>1, <3>1 DEF ServerApply
      <4> QED
        BY <1>0, <2>1, <4>1 DEF Session
    <3>2. CASE ClientApply(d[1], d[2])
      <4>1. sess' = [sess EXCEPT ![d] =
                       [sess[d] EXCEPT !.pc = "finishing", !.ops = {}]]
        BY <2>1, <3>2 DEF ClientApply
      <4> QED
        BY <1>0, <2>1, <4>1 DEF Session
    <3> QED
      BY <2>5, <3>1, <3>2
  <2>6. CASE Reply(d[1], d[2])
    BY <1>0, <2>1, <2>6 DEF Reply, Session
  <2> QED
    BY <1>5, <2>2, <2>3, <2>4, <2>5, <2>6 DEF SessionStep
<1> QED
  BY <1>1, <1>2, <1>3, <1>4, <1>5 DEF Next, vars, exchange

\* What travels was in the sender's log, in a scope the sender shares.
LEMMA SessionsStep ==
    ASSUME TypeOK, GrantsAreShared, SessionsSend, [Next]_vars
    PROVE  SessionsSend'
<1>0. \A a, b \in Node : \A op : SentBy(a, b, op) => SentBy(a, b, op)'
  BY LinksGrow DEF SentBy
<1> SUFFICES ASSUME NEW d \in Dial, NEW op \in sess'[d].ops
             PROVE  \/ sess'[d].pc = "uploading" /\ SentBy(d[1], d[2], op)'
                    \/ sess'[d].pc = "downloading" /\ SentBy(d[2], d[1], op)'
  BY DEF SessionsSend
<1>1. d[1] \in Node /\ d[2] \in Node
  BY DialAssumption
<1>2. CASE sess'[d] = sess[d]
  BY <1>0, <1>1, <1>2 DEF SessionsSend
<1>3. CASE sess'[d].ops = sess[d].ops /\ sess[d].pc = "requested"
  BY <1>3 DEF SessionsSend
<1>4. CASE sess'[d].pc = "uploading"
           /\ sess'[d].ops = SelectFor(d[1], d[2], sess[d].svc)
  BY <1>0, <1>1, <1>4, SelectSends
<1>5. CASE sess'[d].pc = "downloading"
           /\ sess'[d].ops = SelectFor(d[2], d[1], sess[d].cvc)
  BY <1>0, <1>1, <1>5, SelectSends
<1> QED
  BY <1>2, <1>3, <1>4, <1>5, SessionChanges

\* A job gains an operation from a session's change set, past the receiving
\* gate, or from a bundle.
LEMMA JobGains ==
    ASSUME TypeOK, GrantsAreShared, SessionsSend, [Next]_vars,
           NEW n \in Node, NEW k \in JobKey, NEW op \in job'[n][k].todo,
           op \notin job[n][k].todo
    PROVE  op \in wal[k[2]] /\ Linked(k[2], n, op.scope)'
<1> DEFINE Goal == op \in wal[k[2]] /\ Linked(k[2], n, op.scope)'
<1>0. /\ job \in [Node -> [JobKey -> Job]] /\ NoJob.todo = {}
      /\ \A m \in Node, q \in JobKey : job[m][q] \in Job
  BY DEF TypeOK, NoJob
<1>1. job' # job
  OBVIOUS
<1>2. ASSUME NEW m \in Node, NEW p \in Node, NEW role, NEW S,
             <<role, p>> \in JobKey,
             job' = [job EXCEPT ![m][<<role, p>>].todo = S]
      PROVE  m = n /\ k[2] = p /\ op \in S
  <2>1. m = n /\ k = <<role, p>>
    BY <1>0, <1>2
  <2> QED
    BY <1>0, <1>2, <2>1 DEF Job
<1>3. ASSUME NEW m \in Node, LocalStep(m) PROVE FALSE
  BY <1>1, <1>3, LocalFrame
<1>4. ASSUME NEW m \in Node, ApplyStep(m) PROVE FALSE
  <2>1. PICK q \in JobKey :
           \/ RejectDrift(m, q) \/ TakeRemote(m, q) \/ AppendRemoteFails(m, q)
           \/ LookUp(m, q) \/ ReadTombstone(m, q)
           \/ Materialize(m, q) \/ MaterializeFails(m, q)
    BY <1>4 DEF ApplyStep
  <2>2. CASE RejectDrift(m, q) \/ AppendRemoteFails(m, q)
    <3>1. PICK o : job' = [job EXCEPT ![m][q] =
                             [job[m][q] EXCEPT !.todo = @ \ {o}]]
      BY <2>2 DEF RejectDrift, AppendRemoteFails
    <3>2. [job[m][q] EXCEPT !.todo = @ \ {o}].todo = job[m][q].todo \ {o}
      BY <1>0 DEF Job
    <3> QED
      BY <1>0, <3>1, <3>2
  <2>3. CASE TakeRemote(m, q)
    BY <1>0, <2>3 DEF TakeRemote, Job
  <2>4. CASE LookUp(m, q) \/ ReadTombstone(m, q)
             \/ Materialize(m, q) \/ MaterializeFails(m, q)
    <3>1. PICK v : job' = [job EXCEPT ![m][q] = [job[m][q] EXCEPT !.cur = v]]
      BY <2>4 DEF LookUp, ReadTombstone, Materialize, MaterializeFails
    <3>2. [job[m][q] EXCEPT !.cur = v].todo = job[m][q].todo
      BY <1>0 DEF Job
    <3> QED
      BY <1>0, <3>1, <3>2
  <2> QED
    BY <2>1, <2>2, <2>3, <2>4
<1>5. ASSUME NEW m \in Node, OperatorStep(m) PROVE Goal
  <2>1. ~Crash(m)
    BY <1>0 DEF Crash
  <2>2. PICK p \in Node : ImportBundle(p, m)
    BY <1>1, <1>5, <2>1 DEF OperatorStep, GrantScope, RevokeScope, Resume,
                            exchange
  <2>3. m = n /\ k[2] = p /\ op \in wal[p]
    BY <1>2, <2>2, JobKeys DEF ImportBundle
  <2>4. <<p, n>> \in carried'
    BY <2>2, <2>3 DEF ImportBundle
  <2> QED
    BY <2>3, <2>4 DEF Linked
<1>6. ASSUME NEW d \in Dial, SessionStep(d[1], d[2]) PROVE Goal
  <2>1. d[1] \in Node /\ d[2] \in Node /\ d = <<d[1], d[2]>>
    BY DialAssumption
  <2>2. UNCHANGED <<shared, carried>>
    BY <1>6, SessionFrame
  <2>3. ServerApply(d[1], d[2]) \/ ClientApply(d[1], d[2])
    BY <1>1, <1>6 DEF SessionStep, Request, Respond, Upload, Reply, Finish,
                      Drop
  <2>4. CASE ServerApply(d[1], d[2])
    <3>1. n = d[2] /\ k[2] = d[1] /\ op \in Admit(d[2], d[1], sess[d].ops)
      <4>1. job' = [job EXCEPT ![d[2]][<<"server", d[1]>>].todo =
                      Admit(d[2], d[1], sess[d].ops)]
        BY <2>1, <2>4 DEF ServerApply
      <4>2. <<"server", d[1]>> \in JobKey
        BY <2>1, JobKeys
      <4> QED
        BY <1>2, <2>1, <4>1, <4>2
    <3>2. SentBy(d[1], d[2], op) /\ op.scope \in shared[d[2]][d[1]]
      BY <2>1, <2>4, <3>1
      DEF ServerApply, SessionsSend, Admit, GrantsAreShared
    <3> QED
      BY <2>2, <3>1, <3>2 DEF SentBy, Linked
  <2>5. CASE ClientApply(d[1], d[2])
    <3>1. n = d[1] /\ k[2] = d[2] /\ op \in Admit(d[1], d[2], sess[d].ops)
      <4>1. job' = [job EXCEPT ![d[1]][<<"client", d[2]>>].todo =
                      Admit(d[1], d[2], sess[d].ops)]
        BY <2>1, <2>5 DEF ClientApply
      <4>2. <<"client", d[2]>> \in JobKey
        BY <2>1, JobKeys
      <4> QED
        BY <1>2, <2>1, <4>1, <4>2
    <3>2. SentBy(d[2], d[1], op) /\ op.scope \in shared[d[1]][d[2]]
      BY <2>1, <2>5, <3>1
      DEF ClientApply, SessionsSend, Admit, GrantsAreShared
    <3> QED
      BY <2>2, <3>1, <3>2 DEF SentBy, Linked
  <2> QED
    BY <2>3, <2>4, <2>5
<1> HIDE DEF Goal
<1>7. Goal
  BY <1>1, <1>3, <1>4, <1>5, <1>6 DEF Next, vars, exchange
<1> QED
  BY <1>7 DEF Goal

\* What waits to be applied came over a link.
LEMMA JobsStep ==
    ASSUME InFlight, [Next]_vars
    PROVE  JobsAreLinked'
<1> SUFFICES ASSUME NEW n \in Node, NEW k \in JobKey,
                    NEW op \in job'[n][k].todo
             PROVE  op \in wal'[k[2]] /\ Linked(k[2], n, op.scope)'
  BY DEF JobsAreLinked
<1>1. k[2] \in Node
  BY DEF JobKey
<1>2. CASE op \in job[n][k].todo
  BY <1>1, <1>2, LinksGrow DEF InFlight, JobsAreLinked, Linked
<1>3. CASE op \notin job[n][k].todo
  BY <1>1, <1>3, JobGains, LinksGrow DEF InFlight
<1> QED
  BY <1>2, <1>3

\* The strengthening that the refinement needs is an invariant.
LEMMA InFlightInvariant == Spec => []InFlight
<1>1. Init => InFlight
  BY TypeInit DEF Init, InFlight, GrantsAreShared, TasksAreOwn, SessionsSend,
     JobsAreLinked, NoTask, NoSession, NoJob
<1>2. InFlight /\ [Next]_vars => InFlight'
  BY TypeStep, GrantsStep, TasksStep, SessionsStep, JobsStep DEF InFlight
<1> QED
  BY <1>1, <1>2, PTL DEF Spec

------------------------------------------------------------------------------
\* How a step changes a log: by one operation, of its own or of a job.
LEMMA LogStep ==
    ASSUME InFlight, [Next]_vars, wal' # wal
    PROVE  /\ UNCHANGED <<shared, carried>>
           /\ \E n \in Node, op \in Op :
                 /\ wal' = [wal EXCEPT ![n] = @ \cup {op}]
                 /\ \/ op.origin = n
                    \/ \E k \in JobKey : op \in job[n][k].todo
<1> USE DEF InFlight
<1> DEFINE Adds(n, op) == wal' = [wal EXCEPT ![n] = @ \cup {op}]
           Goal == /\ UNCHANGED <<shared, carried>>
                   /\ \E n \in Node, op \in Op :
                         /\ Adds(n, op)
                         /\ \/ op.origin = n
                            \/ \E k \in JobKey : op \in job[n][k].todo
<1>1. ASSUME NEW n \in Node, LocalStep(n) PROVE Goal
  <2>1. UNCHANGED <<shared, carried>>
    BY <1>1, LocalFrame
  <2>2. ASSUME NEW r \in Row, NEW scope \in AnyScope,
               SaveNote(n, r, scope) \/ SaveEpisode(n, r, scope)
        PROVE  Goal
    <3>1. Adds(n, Mint(n, "insert", r, scope))
      BY <2>2 DEF SaveNote, SaveEpisode, Append, LocalAppendFails
    <3>2. /\ Mint(n, "insert", r, scope) \in Op
          /\ Mint(n, "insert", r, scope).origin = n
      BY MintFacts
    <3> HIDE DEF Adds
    <3> QED
      BY <2>1, <3>1, <3>2
  <2>3. ASSUME NEW r \in Row, AppendLocal(n, r) PROVE Goal
    <3>1. PICK op \in task[n][r].op : Adds(n, op)
      BY <2>3 DEF AppendLocal, Append
    <3>2. op \in Op /\ op.origin = n
      BY TaskOps DEF TasksAreOwn
    <3> HIDE DEF Adds
    <3> QED
      BY <2>1, <3>1, <3>2
  <2>4. \/ \E r \in Row, scope \in AnyScope :
              SaveNote(n, r, scope) \/ SaveEpisode(n, r, scope)
        \/ \E r \in Row : AppendLocal(n, r)
    BY <1>1 DEF LocalStep, PhysicalTick, AppendLocalFails, LocalAppendFails,
                WriteRow, DeleteRow, LogDelete, RecordTombstone
  <2> HIDE DEF Goal
  <2> QED
    BY <2>2, <2>3, <2>4
<1>2. ASSUME NEW n \in Node, ApplyStep(n) PROVE Goal
  <2>1. PICK k \in JobKey : TakeRemote(n, k)
    BY <1>2, ApplyFrame
  <2>2. PICK op \in job[n][k].todo : Adds(n, op)
    BY <2>1 DEF TakeRemote, Append, Oldest
  <2>3. UNCHANGED <<shared, carried>>
    BY <1>2, ApplyFrame
  <2>4. op \in Op
    BY JobOps
  <2> HIDE DEF Adds
  <2> QED
    BY <2>2, <2>3, <2>4
<1>3. ASSUME NEW n \in Node PROVE ~OperatorStep(n)
  BY OperatorFrame
<1>4. ASSUME NEW d \in Dial PROVE ~SessionStep(d[1], d[2])
  BY SessionFrame
<1> HIDE DEF Goal
<1>5. Goal
  BY <1>1, <1>2, <1>3, <1>4 DEF Next, vars
<1> QED
  BY <1>5 DEF Goal

\* How a step that adds to no log changes what links brains.
LEMMA LinkStep ==
    ASSUME InFlight, [Next]_vars, wal' = wal
    PROVE  \/ UNCHANGED <<shared, carried>>
           \/ \E n, p \in Node : Gossip!Widen(n, p) \/ Gossip!Carry(p, n)
<1>1. ASSUME NEW n \in Node, OperatorStep(n)
      PROVE  \/ UNCHANGED <<shared, carried>>
             \/ \E m, p \in Node : Gossip!Widen(m, p) \/ Gossip!Carry(p, m)
  <2>1. ASSUME NEW p \in Node, NEW scope \in Scope, GrantScope(n, p, scope)
        PROVE  Gossip!Widen(n, p)
    BY <2>1 DEF GrantScope, Gossip!Widen, history
  <2>2. ASSUME NEW p \in Node, ImportBundle(p, n)
        PROVE  Gossip!Carry(p, n)
    BY <2>2 DEF ImportBundle, Gossip!Carry, roster
  <2>3. \/ \E p \in Node, scope \in Scope : GrantScope(n, p, scope)
        \/ \E p \in Node : ImportBundle(p, n)
        \/ UNCHANGED <<shared, carried>>
    BY <1>1 DEF OperatorStep, RevokeScope, Resume, Crash, roster, history
  <2> QED
    BY <2>1, <2>2, <2>3
<1>2. ASSUME NEW n \in Node, LocalStep(n) \/ ApplyStep(n)
      PROVE  UNCHANGED <<shared, carried>>
  BY <1>2, LocalFrame, ApplyFrame
<1>3. ASSUME NEW d \in Dial, SessionStep(d[1], d[2])
      PROVE  UNCHANGED <<shared, carried>>
  BY <1>3, SessionFrame
<1> QED
  BY <1>1, <1>2, <1>3 DEF Next, vars, roster, history

\* Every step maps to a step of ScopedGossip, or changes nothing there.
LEMMA GossipStep ==
    ASSUME InFlight, [Next]_vars
    PROVE  [Gossip!Next]_(Gossip!vars)
<1> USE DEF InFlight
<1>1. CASE wal' # wal
  <2>1. PICK n \in Node, op \in Op :
           /\ wal' = [wal EXCEPT ![n] = @ \cup {op}]
           /\ \/ op.origin = n
              \/ \E k \in JobKey : op \in job[n][k].todo
    BY <1>1, LogStep
  <2>2. UNCHANGED <<shared, carried>>
    BY <1>1, LogStep
  <2>3. Gossip!Learn(n, op)
    BY <2>1 DEF Gossip!Learn
  <2>4. CASE op.origin = n
    <3>1. op \in wal'[n]
      BY <2>1 DEF TypeOK
    <3>2. Gossip!Write(n)
      BY <2>2, <2>3, <2>4, <3>1 DEF Gossip!Write
    <3> QED
      BY <3>2 DEF Gossip!Next
  <2>5. ASSUME NEW k \in JobKey, op \in job[n][k].todo
        PROVE  Gossip!Next
    <3>1. k[2] \in Node
      BY DEF JobKey
    <3>2. op \in wal[k[2]] /\ Gossip!Linked(k[2], n, op.scope)
      BY <2>5 DEF JobsAreLinked, Linked, Gossip!Linked
    <3>3. Gossip!Deliver(k[2], n)
      BY <2>2, <2>3, <3>2 DEF Gossip!Deliver
    <3> QED
      BY <3>1, <3>3 DEF Gossip!Next
  <2> QED
    BY <2>1, <2>4, <2>5
<1>2. CASE wal' = wal
  BY <1>2, LinkStep DEF Gossip!Next, Gossip!vars
<1> QED
  BY <1>1, <1>2

\* What the exchange does to logs, grants and bundles, for any brains, any
\* topology and any faults, is what ScopedGossip allows.
THEOREM SyncImplementsGossip == Spec => ImplementsGossip
<1>1. Init => Gossip!Init
  BY GrantsAssumption DEF Init, Gossip!Init
<1>2. InFlight /\ [Next]_vars => [Gossip!Next]_(Gossip!vars)
  BY GossipStep
<1> QED
  BY <1>1, <1>2, InFlightInvariant, PTL DEF Spec, ImplementsGossip, Gossip!Spec

\* An operation never reaches a brain outside every set of brains that
\* contains its writer and is closed under links in its scope.
THEOREM ScopesStayConfined == Spec => []ScopesConfined
<1>1. Gossip!Spec => []Gossip!Confined
  BY GP!GossipConfined, PTL
  DEF GP!Spec, Gossip!Spec,
      GP!Init, Gossip!Init,
      GP!Next, Gossip!Next,
      GP!vars, Gossip!vars,
      GP!Write, Gossip!Write,
      GP!Deliver, Gossip!Deliver,
      GP!Widen, Gossip!Widen,
      GP!Carry, Gossip!Carry,
      GP!Linked, Gossip!Linked,
      GP!Learn, Gossip!Learn,
      GP!Confined, Gossip!Confined,
      GP!Closed, Gossip!Closed
<1> QED
  BY <1>1, SyncImplementsGossip, PTL DEF ScopesConfined, ImplementsGossip

------------------------------------------------------------------------------
(* Rows and their lineage. *)

\* A row identifier nobody has used yet has left no trace anywhere.
UnbornRows ==
    \A r \in Row \ minted, n \in Node :
        /\ OpsOf(n, r) = {} /\ task[n][r] = NoTask
        /\ row[n][r] = {} /\ tomb[n][r] = {}

\* A coroutine works on at most one operation, of its own row: one that is in
\* the log once it is "logged", and an insert that is in no log before.
Shapely(n, r) ==
    /\ \A op \in task[n][r].op : op.row = r
    /\ \A o, p \in task[n][r].op : o = p
    /\ task[n][r].pc \in {"idle", "deleted"} => task[n][r].op = {}
    /\ task[n][r].pc = "logged" => task[n][r].op \subseteq wal[n]
    /\ task[n][r].pc = "minted" =>
          \A op \in task[n][r].op :
              op.kind = "insert" => \A m \in Node : op \notin wal[m]

TaskShape == \A n \in Node, r \in Row : Shapely(n, r)

\* A batch works on at most one operation, which it has logged.
JobShape ==
    \A n \in Node, k \in JobKey :
        /\ \A c, d \in job[n][k].cur : c = d
        /\ \A c \in job[n][k].cur : c.op \in wal[n]

Book == InFlight /\ UnbornRows /\ TaskShape /\ JobShape

\* What the batch of k on n has in hand of row r.
Hand(n, k, r) == {c \in job[n][k].cur : c.op.row = r}

\* A step leaves alone what n keeps of r, and what its batches do with r.
Still(n, r) ==
    /\ task'[n][r] = task[n][r]
    /\ row'[n][r] = row[n][r] /\ tomb'[n][r] = tomb[n][r]
    /\ OpsOf(n, r)' = OpsOf(n, r)

HandStill(n, r) == \A k \in JobKey : Hand(n, k, r)' = Hand(n, k, r)

\* A step of the coroutine on r, other than a save.
Works(n, r) ==
    \/ AppendLocal(n, r) \/ AppendLocalFails(n, r) \/ WriteRow(n, r)
    \/ DeleteRow(n, r) \/ LogDelete(n, r) \/ RecordTombstone(n, r)

Saves(n, r) ==
    \E scope \in AnyScope : SaveNote(n, r, scope) \/ SaveEpisode(n, r, scope)

\* A local write touches its own row only.
LEMMA WritesStayPut ==
    ASSUME TypeOK, TaskShape, NEW n \in Node, NEW r \in Row,
           Saves(n, r) \/ Works(n, r), NEW m \in Node, NEW q \in Row,
           m # n \/ q # r
    PROVE  Still(m, q)
<1>1. \A op : op.row = r /\ Append(n, op) => OpsOf(m, q)' = OpsOf(m, q)
  BY DEF Append, OpsOf, TypeOK
<1>2. OpsOf(m, q)' = OpsOf(m, q)
  <2>1. CASE wal' = wal
    BY <2>1 DEF OpsOf
  <2>2. CASE wal' # wal
    <3>1. \E op : op.row = r /\ Append(n, op)
      BY <2>2 DEF Saves, Works, SaveNote, SaveEpisode, AppendLocal,
                  AppendLocalFails, LocalAppendFails, WriteRow, DeleteRow,
                  LogDelete, RecordTombstone, Mint, TaskShape,
                  Shapely
    <3> QED
      BY <1>1, <3>1
  <2> QED
    BY <2>1, <2>2
<1>3. task'[m][q] = task[m][q]
  <2>1. \E t : task' = [task EXCEPT ![n][r] = t]
    BY DEF Saves, Works, SaveNote, SaveEpisode, AppendLocal, AppendLocalFails,
           WriteRow, DeleteRow, LogDelete, RecordTombstone
  <2> QED
    BY <2>1 DEF TypeOK
<1>4. row'[m][q] = row[m][q]
  <2>1. row' = row \/ \E v : row' = [row EXCEPT ![n][r] = v]
    BY DEF Saves, Works, SaveNote, SaveEpisode, AppendLocal, AppendLocalFails,
           WriteRow, DeleteRow, LogDelete, RecordTombstone
  <2> QED
    BY <2>1 DEF TypeOK
<1>5. tomb'[m][q] = tomb[m][q]
  <2>1. tomb' = tomb \/ \E v : tomb' = [tomb EXCEPT ![n][r] = v]
    BY DEF Saves, Works, SaveNote, SaveEpisode, AppendLocal, AppendLocalFails,
           WriteRow, DeleteRow, LogDelete, RecordTombstone
  <2> QED
    BY <2>1 DEF TypeOK
<1> QED
  BY <1>2, <1>3, <1>4, <1>5 DEF Still

\* A local write takes nothing out of a batch's hands.
LEMMA WritesKeepHands ==
    ASSUME NEW n \in Node, NEW r \in Row, Saves(n, r) \/ Works(n, r)
    PROVE  job' = job
  BY DEF Saves, Works, SaveNote, SaveEpisode, AppendLocal, AppendLocalFails,
         WriteRow, DeleteRow, LogDelete, RecordTombstone, exchange

\* A batch puts S in its hands, in place of what it had there.
TakesInHand(n, k, S) == job' = [job EXCEPT ![n][k].cur = S]

\* It has S in hand then, and no other batch changes.
LEMMA JobCur ==
    ASSUME TypeOK, NEW n \in Node, NEW k \in JobKey, NEW S \in SUBSET Current,
           TakesInHand(n, k, S)
    PROVE  /\ job'[n][k].cur = S
           /\ \A m \in Node, j \in JobKey :
                 m # n \/ j # k => job'[m][j] = job[m][j]
<1> DEFINE v == [job[n][k] EXCEPT !.cur = S]
<1>1. job' = [job EXCEPT ![n][k] = v]
  BY DEF TakesInHand
<1>2. v \in Job /\ v.cur = S
  BY JobOps DEF Job
<1>3. job \in [Node -> [JobKey -> Job]]
  BY DEF TypeOK
<1> HIDE DEF v
<1> QED
  BY <1>1, <1>2, <1>3

\* A step that gives a batch more to do, or takes from what it has to do,
\* leaves its hands alone.
LEMMA JobTodo ==
    ASSUME TypeOK, NEW n \in Node, NEW k \in JobKey, NEW S,
           job' = [job EXCEPT ![n][k].todo = S]
    PROVE  \A m \in Node, j \in JobKey : job'[m][j].cur = job[m][j].cur
<1>1. job' = [job EXCEPT ![n][k] = [job[n][k] EXCEPT !.todo = S]]
  OBVIOUS
<1>2. [job[n][k] EXCEPT !.todo = S].cur = job[n][k].cur
  BY JobOps DEF Job
<1> QED
  BY <1>1, <1>2 DEF TypeOK

\* What the row says was the last operation: its stamp, or its tombstone's.
Word(n, r) == IF row[n][r] # {} THEN row[n][r] ELSE tomb[n][r]

\* A row and a tombstone exclude each other, and each bears the stamp of an
\* operation of the log; a row can also be blank.
Worded(n, r) ==
    /\ row[n][r] # {} =>
          /\ tomb[n][r] = {}
          /\ \/ row[n][r] = {Blank}
             \/ \E op \in OpsOf(n, r) :
                   op.kind = "insert" /\ row[n][r] = {op.hlc}
    /\ tomb[n][r] # {} =>
          \E op \in OpsOf(n, r) : op.kind = "delete" /\ tomb[n][r] = {op.hlc}

\* A batch has decided to write the row of c.
Armed(c) == c.pc \in {"winning", "reviving"}

\* What a lookup of the row, or of the tombstone, puts in hand: the operation,
\* to look at the tombstone next; the operation, to be written, which unless
\* the row is disturbed nobody else has decided to and which is above what the
\* row says; or nothing, when it is not above that.
Chooses(n, r, c, S) ==
    \/ S = {[op |-> c.op, pc |-> "absent"]}
    \/ /\ \E p \in {"winning", "reviving"} :
             /\ S = {[op |-> c.op, pc |-> p]}
             /\ p = "winning" /\ row[n][r] = {} => tomb[n][r] = {}
       /\ <<n, r>> \notin disturbed' =>
             ~RowHeld(n, r) /\ \A e \in Word(n, r) : TsLess(e, c.op.hlc)
    \/ /\ S = {}
       /\ Worded(n, r) => \E e \in Word(n, r) : ~TsLess(e, c.op.hlc)

OthersStill(n, k, r) ==
    \A j \in JobKey : j # k => Hand(n, j, r)' = Hand(n, j, r)

\* What the steps of the batch of k on n do to r: an operation enters the log,
\* is looked up, is written to the row, or its write fails.
Takes(n, k, r, op) ==
    /\ op.row = r
    /\ OpsOf(n, r)' = OpsOf(n, r) \cup {op}
    /\ task'[n][r] = task[n][r]
    /\ row'[n][r] = row[n][r] /\ tomb'[n][r] = tomb[n][r]
    /\ Hand(n, k, r) = {}
    /\ Hand(n, k, r)' = {[op |-> op, pc |-> "recorded"]}
    /\ OthersStill(n, k, r)

Looks(n, k, r, c) ==
    /\ ~Armed(c) /\ Still(n, r) /\ OthersStill(n, k, r)
    /\ Chooses(n, r, c, Hand(n, k, r)')

Settles(n, k, r, c) ==
    /\ Armed(c)
    /\ OpsOf(n, r)' = OpsOf(n, r) /\ task'[n][r] = task[n][r]
    /\ row'[n][r] = IF c.op.kind = "delete" THEN {} ELSE {c.op.hlc}
    /\ tomb'[n][r] = IF c.op.kind = "delete" THEN {c.op.hlc}
                     ELSE IF c.pc = "reviving" THEN {} ELSE tomb[n][r]
    /\ Hand(n, k, r)' = {} /\ OthersStill(n, k, r)

Misses(n, k, r, c) ==
    /\ Still(n, r) /\ Hand(n, k, r)' = {} /\ OthersStill(n, k, r)
    /\ <<n, r>> \in disturbed'

\* A batch that puts other hands on its operation changes its own hands, and
\* on that operation's row alone.
LEMMA HandChange ==
    ASSUME TypeOK, JobShape, NEW n \in Node, NEW k \in JobKey,
           NEW c \in job[n][k].cur, NEW S \in SUBSET Current,
           \A d \in S : d.op = c.op, TakesInHand(n, k, S), NEW r \in Row
    PROVE  /\ OthersStill(n, k, r)
           /\ c.op.row = r => c \in Hand(n, k, r) /\ Hand(n, k, r)' = S
           /\ c.op.row # r => HandStill(n, r)
<1>1. /\ job'[n][k].cur = S
      /\ \A j \in JobKey : j # k => job'[n][j] = job[n][j]
  BY JobCur
<1>2. job[n][k].cur = {c}
  BY DEF JobShape
<1> QED
  BY <1>1, <1>2 DEF OthersStill, HandStill, Hand

\* Reading the row chooses so: a row that is there has no tombstone beside it.
LEMMA LooksUp ==
    ASSUME TypeOK, NEW n \in Node, NEW k \in JobKey, LookUp(n, k)
    PROVE  \E c \in job[n][k].cur : \E S :
              /\ ~Armed(c) /\ TakesInHand(n, k, S)
              /\ Chooses(n, c.op.row, c, S)
<1>1. PICK c \in job[n][k].cur :
         /\ c.pc = "recorded"
         /\ job' = [job EXCEPT ![n][k].cur =
                      IF row[n][c.op.row] = {}
                      THEN {[op |-> c.op, pc |-> "absent"]}
                      ELSE IF row[n][c.op.row] # {} /\ Wins(n, c.op)
                      THEN {[op |-> c.op, pc |-> "winning"]}
                      ELSE {}]
         /\ DisturbedBy(n, c.op.row, (row[n][c.op.row] # {} /\ Wins(n, c.op))
                                       /\ RowHeld(n, c.op.row))
  BY DEF LookUp
<1> DEFINE q == c.op.row
<1>2. ~Armed(c)
  BY <1>1 DEF Armed
<1>3. CASE row[n][q] = {}
  BY <1>1, <1>2, <1>3 DEF TakesInHand, Chooses
<1>4. CASE row[n][q] # {} /\ Wins(n, c.op)
  <2>1. TakesInHand(n, k, {[op |-> c.op, pc |-> "winning"]})
    BY <1>1, <1>4 DEF TakesInHand
  <2>2. <<n, q>> \notin disturbed' => ~RowHeld(n, q)
    BY <1>1, <1>4 DEF DisturbedBy
  <2>3. \A e \in Word(n, q) : TsLess(e, c.op.hlc)
    BY <1>4 DEF Wins, Word
  <2> QED
    BY <1>2, <1>4, <2>1, <2>2, <2>3 DEF Chooses
<1>5. CASE row[n][q] # {} /\ ~Wins(n, c.op)
  <2>1. TakesInHand(n, k, {})
    BY <1>1, <1>5 DEF TakesInHand
  <2>2. \E e \in Word(n, q) : ~TsLess(e, c.op.hlc)
    BY <1>5 DEF Wins, Word
  <2> QED
    BY <1>2, <2>1, <2>2 DEF Chooses
<1> QED
  BY <1>3, <1>4, <1>5

\* So does reading the tombstone: a row that has come in between is recorded
\* as disturbed, or has no tombstone beside it.
LEMMA ReadsTombstone ==
    ASSUME TypeOK, NEW n \in Node, NEW k \in JobKey, ReadTombstone(n, k)
    PROVE  \E c \in job[n][k].cur : \E S :
              /\ ~Armed(c) /\ TakesInHand(n, k, S)
              /\ Chooses(n, c.op.row, c, S)
<1>1. PICK c \in job[n][k].cur :
         /\ c.pc = "absent"
         /\ job' = [job EXCEPT ![n][k].cur =
                      IF ~Outlives(n, c.op) THEN {}
                      ELSE {[op |-> c.op,
                             pc |-> IF tomb[n][c.op.row] = {} THEN "winning"
                                    ELSE "reviving"]}]
         /\ DisturbedBy(n, c.op.row,
                        Outlives(n, c.op) /\ (RowHeld(n, c.op.row)
                                                \/ row[n][c.op.row] # {}))
  BY DEF ReadTombstone
<1> DEFINE q == c.op.row
           p == IF tomb[n][q] = {} THEN "winning" ELSE "reviving"
<1>2. ~Armed(c)
  BY <1>1 DEF Armed
<1>3. CASE Outlives(n, c.op)
  <2>1. TakesInHand(n, k, {[op |-> c.op, pc |-> p]})
    BY <1>1, <1>3 DEF TakesInHand
  <2>2. <<n, q>> \notin disturbed' => ~RowHeld(n, q) /\ row[n][q] = {}
    BY <1>1, <1>3 DEF DisturbedBy
  <2>3. row[n][q] = {} => \A e \in Word(n, q) : TsLess(e, c.op.hlc)
    BY <1>3 DEF Outlives, Word
  <2>4. p \in {"winning", "reviving"} /\ (p = "winning" => tomb[n][q] = {})
    OBVIOUS
  <2> HIDE DEF p
  <2> QED
    BY <1>2, <2>1, <2>2, <2>3, <2>4 DEF Chooses
<1>4. CASE ~Outlives(n, c.op)
  <2>1. TakesInHand(n, k, {})
    BY <1>1, <1>4 DEF TakesInHand
  <2>2. PICK t \in tomb[n][q] : ~TsLess(t, c.op.hlc)
    BY <1>4 DEF Outlives
  <2>3. Worded(n, q) => t \in Word(n, q)
    BY DEF Worded, Word
  <2> QED
    BY <1>2, <2>1, <2>2, <2>3 DEF Chooses
<1> QED
  BY <1>3, <1>4

\* The steps of a batch, as the rows of its brain see them.
LEMMA BatchSteps ==
    ASSUME TypeOK, JobShape, NEW n \in Node, ApplyStep(n), NEW r \in Row
    PROVE  \/ Still(n, r) /\ HandStill(n, r)
           \/ \E k \in JobKey : \E op \in job[n][k].todo : Takes(n, k, r, op)
           \/ \E k \in JobKey : \E c \in Hand(n, k, r) :
                 Looks(n, k, r, c) \/ Settles(n, k, r, c) \/ Misses(n, k, r, c)
<1> DEFINE Goal == \/ Still(n, r) /\ HandStill(n, r)
                   \/ \E k \in JobKey : \E op \in job[n][k].todo :
                         Takes(n, k, r, op)
                   \/ \E k \in JobKey : \E c \in Hand(n, k, r) :
                         \/ Looks(n, k, r, c) \/ Settles(n, k, r, c)
                         \/ Misses(n, k, r, c)
<1>0. PICK k \in JobKey :
         \/ RejectDrift(n, k) \/ TakeRemote(n, k) \/ AppendRemoteFails(n, k)
         \/ LookUp(n, k) \/ ReadTombstone(n, k)
         \/ Materialize(n, k) \/ MaterializeFails(n, k)
  BY DEF ApplyStep
<1>1. CASE RejectDrift(n, k) \/ AppendRemoteFails(n, k)
  <2>1. \E S : job' = [job EXCEPT ![n][k].todo = S]
    BY <1>1 DEF RejectDrift, AppendRemoteFails
  <2>2. HandStill(n, r)
    BY <2>1, JobTodo DEF HandStill, Hand
  <2>3. Still(n, r)
    BY <1>1 DEF RejectDrift, AppendRemoteFails, Still, OpsOf, local
  <2> QED
    BY <2>2, <2>3
<1>2. CASE TakeRemote(n, k)
  <2>1. PICK op \in job[n][k].todo :
           /\ Append(n, op)
           /\ job' = [job EXCEPT ![n][k] =
                        [todo |-> job[n][k].todo \ {op},
                         cur |-> {[op |-> op, pc |-> "recorded"]}]]
    BY <1>2 DEF TakeRemote, Oldest
  <2> DEFINE c == [op |-> op, pc |-> "recorded"]
  <2>2. /\ job'[n][k].cur = {c}
        /\ \A j \in JobKey : j # k => job'[n][j] = job[n][j]
    <3> DEFINE v == [todo |-> job[n][k].todo \ {op}, cur |-> {c}]
    <3>1. job' = [job EXCEPT ![n][k] = v] /\ v.cur = {c}
      BY <2>1
    <3>2. job \in [Node -> [JobKey -> Job]]
      BY DEF TypeOK
    <3> HIDE DEF v
    <3> QED
      BY <3>1, <3>2
  <2>3. wal'[n] = wal[n] \cup {op}
    BY <2>1 DEF Append, TypeOK
  <2>4. UNCHANGED <<task, row, tomb>> /\ job[n][k].cur = {}
    BY <1>2 DEF TakeRemote, local
  <2>5. OthersStill(n, k, r)
    BY <2>2 DEF OthersStill, Hand
  <2>6. CASE op.row = r
    <3>1. OpsOf(n, r)' = OpsOf(n, r) \cup {op}
      BY <2>3, <2>6 DEF OpsOf
    <3>2. Hand(n, k, r)' = {c} /\ Hand(n, k, r) = {}
      BY <2>2, <2>4, <2>6 DEF Hand
    <3>3. Takes(n, k, r, op)
      BY <2>4, <2>5, <2>6, <3>1, <3>2 DEF Takes
    <3> QED
      BY <3>3
  <2>7. CASE op.row # r
    <3>1. OpsOf(n, r)' = OpsOf(n, r)
      BY <2>3, <2>7 DEF OpsOf
    <3>2. Hand(n, k, r)' = {} /\ Hand(n, k, r) = {}
      BY <2>2, <2>4, <2>7 DEF Hand
    <3> QED
      BY <2>4, <2>5, <3>1, <3>2 DEF Still, HandStill, OthersStill
  <2> QED
    BY <2>6, <2>7
<1>3. CASE LookUp(n, k) \/ ReadTombstone(n, k)
           \/ Materialize(n, k) \/ MaterializeFails(n, k)
  <2>1. wal' = wal /\ task' = task
    BY <1>3 DEF LookUp, ReadTombstone, Materialize, MaterializeFails, local
  <2>2. OpsOf(n, r)' = OpsOf(n, r)
    BY <2>1 DEF OpsOf
  <2>3. UNCHANGED <<row, tomb>> => Still(n, r)
    BY <2>1, <2>2 DEF Still
  <2>4. CASE LookUp(n, k) \/ ReadTombstone(n, k)
    <3>1. PICK c \in job[n][k].cur :
             \E S : /\ ~Armed(c) /\ TakesInHand(n, k, S)
                    /\ Chooses(n, c.op.row, c, S)
      BY <2>4, LooksUp, ReadsTombstone
    <3>2. PICK S : /\ ~Armed(c) /\ TakesInHand(n, k, S)
                   /\ Chooses(n, c.op.row, c, S)
      BY <3>1
    <3>3. (\A d \in S : d.op = c.op) /\ S \in SUBSET Current
      <4>1. c.op \in Op
        BY JobOps
      <4>2. \A p \in {"absent", "winning", "reviving"} :
               [op |-> c.op, pc |-> p] \in Current
        BY <4>1 DEF Current
      <4> QED
        BY <3>2, <4>2 DEF Chooses
    <3>4. Still(n, r)
      BY <2>3, <2>4 DEF LookUp, ReadTombstone
    <3>5. /\ OthersStill(n, k, r)
          /\ c.op.row = r => c \in Hand(n, k, r) /\ Hand(n, k, r)' = S
          /\ c.op.row # r => HandStill(n, r)
      BY <3>2, <3>3, HandChange
    <3>6. c.op.row = r => Looks(n, k, r, c)
      BY <3>2, <3>4, <3>5 DEF Looks
    <3> QED
      BY <3>4, <3>5, <3>6
  <2>5. CASE Materialize(n, k)
    <3>1. PICK c \in job[n][k].cur :
             /\ Armed(c)
             /\ IF c.op.kind = "delete"
                THEN /\ row' = [row EXCEPT ![n][c.op.row] = {}]
                     /\ tomb' = [tomb EXCEPT ![n][c.op.row] = {c.op.hlc}]
                ELSE /\ row' = [row EXCEPT ![n][c.op.row] = {c.op.hlc}]
                     /\ tomb' = [tomb EXCEPT ![n][c.op.row] =
                                   IF c.pc = "reviving" THEN {} ELSE @]
      BY <2>5 DEF Materialize, Armed
    <3>2. TakesInHand(n, k, {})
      BY <2>5 DEF Materialize, TakesInHand
    <3>3. /\ OthersStill(n, k, r)
          /\ c.op.row = r => c \in Hand(n, k, r) /\ Hand(n, k, r)' = {}
          /\ c.op.row # r => HandStill(n, r)
      BY <3>2, HandChange
    <3>4. row \in [Node -> [Row -> SUBSET (Stamp \cup {Blank})]]
          /\ tomb \in [Node -> [Row -> SUBSET Stamp]]
      BY DEF TypeOK
    <3> DEFINE q == c.op.row
               x == IF c.op.kind = "delete" THEN {} ELSE {c.op.hlc}
               y == IF c.op.kind = "delete" THEN {c.op.hlc}
                    ELSE IF c.pc = "reviving" THEN {} ELSE tomb[n][q]
    <3>5. row' = [row EXCEPT ![n][q] = x] /\ tomb' = [tomb EXCEPT ![n][q] = y]
      BY <3>1
    <3>6. q \in Row
      BY JobOps
    <3>7. IF q = r THEN row'[n][r] = x /\ tomb'[n][r] = y
                   ELSE row'[n][r] = row[n][r] /\ tomb'[n][r] = tomb[n][r]
      <4> HIDE DEF q, x, y
      <4> QED
        BY <3>4, <3>5, <3>6
    <3>8. CASE q = r
      <4>1. Settles(n, k, r, c)
        BY <2>1, <2>2, <3>1, <3>3, <3>7, <3>8 DEF Settles
      <4> QED
        BY <3>3, <3>8, <4>1
    <3>9. CASE q # r
      BY <2>1, <2>2, <3>3, <3>7, <3>9 DEF Still
    <3> QED
      BY <3>8, <3>9
  <2>6. CASE MaterializeFails(n, k)
    <3>1. PICK c \in job[n][k].cur : DisturbedBy(n, c.op.row, TRUE)
      BY <2>6 DEF MaterializeFails
    <3>2. TakesInHand(n, k, {}) /\ Still(n, r)
      BY <2>3, <2>6 DEF MaterializeFails, TakesInHand
    <3>3. /\ OthersStill(n, k, r)
          /\ c.op.row = r => c \in Hand(n, k, r) /\ Hand(n, k, r)' = {}
          /\ c.op.row # r => HandStill(n, r)
      BY <3>2, HandChange
    <3>4. c.op.row = r => Misses(n, k, r, c)
      BY <3>1, <3>2, <3>3 DEF Misses, DisturbedBy
    <3> QED
      BY <3>2, <3>3, <3>4
  <2> QED
    BY <1>3, <2>4, <2>5, <2>6
<1> HIDE DEF Goal
<1> QED
  BY <1>0, <1>1, <1>2, <1>3 DEF Goal

\* A step of another brain, of an exchange or of the operator leaves a
\* brain's rows and the hands of its batches alone.
LEMMA StepsElsewhere ==
    ASSUME TypeOK, TaskShape, NEW n \in Node, NEW r \in Row,
           \/ UNCHANGED vars
           \/ PhysicalTick(n)
           \/ \E m \in Node \ {n} : LocalStep(m) \/ ApplyStep(m)
           \/ \E m \in Node : OperatorStep(m) /\ ~Crash(n)
           \/ \E d \in Dial : SessionStep(d[1], d[2])
    PROVE  Still(n, r) /\ HandStill(n, r)
<1>0. /\ wal \in [Node -> SUBSET Op] /\ job \in [Node -> [JobKey -> Job]]
      /\ row \in [Node -> [Row -> SUBSET (Stamp \cup {Blank})]]
      /\ tomb \in [Node -> [Row -> SUBSET Stamp]]
      /\ task \in [Node -> [Row -> Task]]
  BY DEF TypeOK
<1>1. CASE UNCHANGED <<wal, row, tomb, task>>
           /\ \A k \in JobKey : job'[n][k].cur = job[n][k].cur
  BY <1>1 DEF Still, HandStill, Hand, OpsOf
<1>2. CASE UNCHANGED vars \/ PhysicalTick(n)
  BY <1>1, <1>2 DEF vars, local, exchange, PhysicalTick
<1>3. ASSUME NEW m \in Node \ {n}, LocalStep(m)
      PROVE  Still(n, r) /\ HandStill(n, r)
  <2>1. CASE PhysicalTick(m)
    BY <1>1, <2>1 DEF PhysicalTick, local, exchange
  <2>2. ASSUME NEW q \in Row, Saves(m, q) \/ Works(m, q)
        PROVE  Still(n, r) /\ HandStill(n, r)
    <3>1. Still(n, r)
      BY <2>2, WritesStayPut
    <3>2. job' = job
      BY <2>2, WritesKeepHands
    <3> QED
      BY <3>1, <3>2 DEF HandStill, Hand
  <2> QED
    BY <1>3, <2>1, <2>2 DEF LocalStep, Saves, Works
<1>4. ASSUME NEW m \in Node \ {n}, ApplyStep(m)
      PROVE  Still(n, r) /\ HandStill(n, r)
  <2>1. PICK k \in JobKey :
           \/ RejectDrift(m, k) \/ TakeRemote(m, k) \/ AppendRemoteFails(m, k)
           \/ LookUp(m, k) \/ ReadTombstone(m, k)
           \/ Materialize(m, k) \/ MaterializeFails(m, k)
    BY <1>4 DEF ApplyStep
  <2>2. \E v : job' = [job EXCEPT ![m] = v]
    <3>1. CASE RejectDrift(m, k) \/ AppendRemoteFails(m, k)
      BY <3>1 DEF RejectDrift, AppendRemoteFails
    <3>2. CASE TakeRemote(m, k)
      BY <3>2 DEF TakeRemote
    <3>3. CASE LookUp(m, k)
      BY <3>3 DEF LookUp
    <3>4. CASE ReadTombstone(m, k)
      BY <3>4 DEF ReadTombstone
    <3>5. CASE Materialize(m, k) \/ MaterializeFails(m, k)
      BY <3>5 DEF Materialize, MaterializeFails
    <3> QED
      BY <2>1, <3>1, <3>2, <3>3, <3>4, <3>5
  <2>3. job'[n] = job[n]
    BY <1>0, <2>2
  <2>4. wal'[n] = wal[n]
    BY <1>0, <1>4, ApplyFrame DEF TakeRemote, Append
  <2>5. row'[n] = row[n]
    BY <1>0, <2>1 DEF RejectDrift, TakeRemote, AppendRemoteFails, LookUp,
                      ReadTombstone, Materialize, MaterializeFails
  <2>6. tomb'[n] = tomb[n]
    BY <1>0, <2>1 DEF RejectDrift, TakeRemote, AppendRemoteFails, LookUp,
                      ReadTombstone, Materialize, MaterializeFails
  <2>7. task' = task
    BY <1>4, ApplyFrame
  <2> QED
    BY <2>3, <2>4, <2>5, <2>6, <2>7 DEF Still, HandStill, Hand, OpsOf
<1>5. ASSUME NEW m \in Node, OperatorStep(m), ~Crash(n)
      PROVE  Still(n, r) /\ HandStill(n, r)
  <2>1. CASE Crash(m)
    <3>1. m # n
      BY <1>5, <2>1
    <3> QED
      BY <1>0, <2>1, <3>1 DEF Crash, Still, HandStill, Hand, OpsOf
  <2>2. ASSUME NEW p \in Node, ImportBundle(p, m)
        PROVE  Still(n, r) /\ HandStill(n, r)
    <3>1. \A k \in JobKey : job'[n][k].cur = job[n][k].cur
      BY <2>2, JobTodo, JobKeys DEF ImportBundle
    <3> QED
      BY <1>1, <2>2, <3>1 DEF ImportBundle, local
  <2>3. ASSUME NEW p \in Node, NEW s \in Scope,
               GrantScope(m, p, s) \/ RevokeScope(m, p, s)
        PROVE  Still(n, r) /\ HandStill(n, r)
    BY <1>1, <2>3 DEF GrantScope, RevokeScope, local, exchange
  <2>4. CASE Resume(m)
    BY <1>1, <2>4 DEF Resume, local, exchange
  <2> QED
    BY <1>5, <2>1, <2>2, <2>3, <2>4 DEF OperatorStep
<1>6. ASSUME NEW d \in Dial, SessionStep(d[1], d[2])
      PROVE  Still(n, r) /\ HandStill(n, r)
  <2>1. UNCHANGED <<wal, row, tomb, task>>
    BY <1>6 DEF SessionStep, SessionOnly, Request, Respond, Upload,
                ServerApply, Reply, ClientApply, Finish, Drop, local
  <2>2. d[1] \in Node /\ d[2] \in Node
    BY DialAssumption
  <2>3. \/ job' = job
        \/ \E S : job' = [job EXCEPT ![d[2]][<<"server", d[1]>>].todo = S]
        \/ \E S : job' = [job EXCEPT ![d[1]][<<"client", d[2]>>].todo = S]
    BY <1>6 DEF SessionStep, Request, Respond, Upload, ServerApply, Reply,
                ClientApply, Finish, Drop
  <2>4. \A k \in JobKey : job'[n][k].cur = job[n][k].cur
    BY <2>2, <2>3, JobTodo, JobKeys
  <2> QED
    BY <1>1, <2>1, <2>4
<1> QED
  BY <1>2, <1>3, <1>4, <1>5, <1>6

\* Every step, as one row of one brain sees it.
LEMMA RowSteps ==
    ASSUME TypeOK, TaskShape, JobShape, [Next]_vars, NEW n \in Node,
           NEW r \in Row
    PROVE  \/ Still(n, r) /\ HandStill(n, r)
           \/ HandStill(n, r) /\ (Saves(n, r) \/ Works(n, r))
           \/ \E k \in JobKey : \E op \in job[n][k].todo : Takes(n, k, r, op)
           \/ \E k \in JobKey : \E c \in Hand(n, k, r) :
                 Looks(n, k, r, c) \/ Settles(n, k, r, c) \/ Misses(n, k, r, c)
           \/ Crash(n)
<1>1. ASSUME LocalStep(n), ~PhysicalTick(n)
      PROVE  \/ Still(n, r) /\ HandStill(n, r)
             \/ HandStill(n, r) /\ (Saves(n, r) \/ Works(n, r))
  <2>1. PICK q \in Row : Saves(n, q) \/ Works(n, q)
    BY <1>1 DEF LocalStep, Saves, Works
  <2>2. HandStill(n, r)
    BY <2>1, WritesKeepHands DEF HandStill, Hand
  <2>3. q # r => Still(n, r)
    BY <2>1, WritesStayPut
  <2> QED
    BY <2>1, <2>2, <2>3
<1>2. CASE ApplyStep(n)
  BY <1>2, BatchSteps
<1> QED
  BY <1>1, <1>2, StepsElsewhere DEF Next

\* Identifiers that were used stay used.
LEMMA MintedGrows ==
    ASSUME [Next]_vars
    PROVE  minted \subseteq minted'
<1>1. ASSUME NEW n \in Node, LocalStep(n)
      PROVE  minted \subseteq minted'
  BY <1>1 DEF LocalStep, PhysicalTick, SaveNote, SaveEpisode, AppendLocal,
              AppendLocalFails, WriteRow, DeleteRow, LogDelete,
              RecordTombstone, local
<1>2. UNCHANGED minted \/ \E n \in Node : LocalStep(n)
  BY ApplyFrame, SessionFrame, OperatorFrame DEF Next, vars, local
<1> QED
  BY <1>1, <1>2

\* A restart keeps the log, the rows and the tombstones, and ends every
\* coroutine and every batch.
LEMMA CrashEffects ==
    ASSUME TypeOK, NEW n \in Node, Crash(n), NEW r \in Row
    PROVE  /\ OpsOf(n, r)' = OpsOf(n, r) /\ task'[n][r] = NoTask
           /\ row'[n][r] = row[n][r] /\ tomb'[n][r] = tomb[n][r]
           /\ \A k \in JobKey : job'[n][k] = NoJob
<1>1. /\ task \in [Node -> [Row -> Task]] /\ job \in [Node -> [JobKey -> Job]]
  BY DEF TypeOK
<1> QED
  BY <1>1 DEF Crash, OpsOf

\* An identifier that is still unused after a step left no trace before it,
\* and the step leaves none.
LEMMA UnbornStep ==
    ASSUME Book, [Next]_vars
    PROVE  UnbornRows'
<1> SUFFICES ASSUME NEW r \in Row \ minted', NEW n \in Node
             PROVE  /\ OpsOf(n, r)' = {} /\ task'[n][r] = NoTask
                    /\ row'[n][r] = {} /\ tomb'[n][r] = {}
  BY DEF UnbornRows
<1>0. r \in Row \ minted
  BY MintedGrows
<1>1. /\ \A m \in Node : OpsOf(m, r) = {}
      /\ task[n][r] = NoTask /\ row[n][r] = {} /\ tomb[n][r] = {}
  BY <1>0 DEF Book, UnbornRows
<1>2. CASE Still(n, r)
  BY <1>1, <1>2 DEF Still
<1>3. ~Saves(n, r)
  BY DEF Saves, SaveNote, SaveEpisode
<1>4. ~Works(n, r)
  BY <1>1 DEF Works, NoTask, AppendLocal, AppendLocalFails, WriteRow,
              DeleteRow, LogDelete, RecordTombstone
<1>5. ASSUME NEW k \in JobKey, NEW op \in job[n][k].todo, Takes(n, k, r, op)
      PROVE  FALSE
  <2>1. op.row = r /\ op \in wal[k[2]] /\ k[2] \in Node
    BY <1>5 DEF Takes, Book, InFlight, JobsAreLinked, JobKey
  <2> QED
    BY <1>1, <2>1 DEF OpsOf
<1>6. ASSUME NEW k \in JobKey, NEW c \in Hand(n, k, r) PROVE FALSE
  BY <1>1 DEF Hand, Book, JobShape, OpsOf
<1>7. CASE Crash(n)
  BY <1>1, <1>7, CrashEffects DEF Book, InFlight
<1> QED
  BY <1>2, <1>3, <1>4, <1>5, <1>6, <1>7, RowSteps DEF Book, InFlight

\* What a step does to a coroutine: nothing, a save, a step of its own, or
\* the end of it in a restart.
LEMMA TaskSteps ==
    ASSUME Book, [Next]_vars, NEW n \in Node, NEW r \in Row
    PROVE  \/ task'[n][r] = task[n][r]
           \/ Saves(n, r) \/ Works(n, r)
           \/ task'[n][r] = NoTask
<1>1. CASE Crash(n)
  BY <1>1, CrashEffects DEF Book, InFlight
<1> QED
  BY <1>1, RowSteps
  DEF Book, InFlight, Still, Takes, Looks, Settles, Misses

\* An insert that waits for its append is in no log.
LEMMA MintedIsUnlogged ==
    ASSUME Book, [Next]_vars, NEW n \in Node, NEW r \in Row,
           task'[n][r] = task[n][r], task[n][r].pc = "minted",
           NEW op \in task[n][r].op, op.kind = "insert", NEW m \in Node
    PROVE  op \notin wal'[m]
<1>1. /\ op.row = r /\ op.origin = n /\ r \in minted
      /\ \A p \in Node : op \notin wal[p]
  BY DEF Book, InFlight, TasksAreOwn, TaskShape, Shapely, UnbornRows,
         NoTask
<1> SUFFICES ASSUME op \in wal'[m] PROVE FALSE
  OBVIOUS
<1>2. ASSUME NEW q \in Row \ minted, NEW scope \in AnyScope,
             op = Mint(m, "insert", q, scope)
      PROVE  FALSE
  BY <1>1, <1>2 DEF Mint
<1>3. ASSUME NEW q \in Row, op \in task[m][q].op, task'[m][q].pc = "logged"
      PROVE  FALSE
  <2>1. q = r /\ m = n
    BY <1>1, <1>3 DEF Book, InFlight, TasksAreOwn, TaskShape, Shapely
  <2> QED
    BY <1>3, <2>1
<1>4. ASSUME NEW k \in JobKey, op \in job[m][k].todo
      PROVE  FALSE
  BY <1>1, <1>4 DEF Book, InFlight, JobsAreLinked, JobKey
<1> QED
  BY <1>1, <1>2, <1>3, <1>4, LogGains DEF Book, InFlight, Oldest

\* A save leaves a coroutine of the right shape.
LEMMA SaveShapes ==
    ASSUME Book, NEW n \in Node, NEW r \in Row, Saves(n, r)
    PROVE  Shapely(n, r)'
<1>1. PICK scope \in AnyScope :
         SaveNote(n, r, scope) \/ SaveEpisode(n, r, scope)
  BY DEF Saves
<1> DEFINE op == Mint(n, "insert", r, scope)
<1>2. op.row = r
  BY DEF Mint
<1>3. /\ task \in [Node -> [Row -> Task]] /\ wal \in [Node -> SUBSET Op]
  BY DEF Book, InFlight, TypeOK
<1>4. r \notin minted
  BY <1>1 DEF SaveNote, SaveEpisode
<1>5. \A m \in Node : op \notin wal[m]
  BY <1>2, <1>4 DEF Book, UnbornRows, OpsOf
<1>6. \/ task' = [task EXCEPT ![n][r] = [pc |-> "logged", op |-> {op}]]
         /\ wal' = [wal EXCEPT ![n] = @ \cup {op}]
      \/ task' = [task EXCEPT ![n][r] = [pc |-> "logged", op |-> {}]]
      \/ task' = [task EXCEPT ![n][r] = [pc |-> "minted", op |-> {op}]]
         /\ wal' = wal
  BY <1>1 DEF SaveNote, SaveEpisode, Append
<1> HIDE DEF op
<1>7. \/ task'[n][r] = [pc |-> "logged", op |-> {op}] /\ op \in wal'[n]
      \/ task'[n][r] = [pc |-> "logged", op |-> {}]
      \/ task'[n][r] = [pc |-> "minted", op |-> {op}] /\ wal' = wal
  BY <1>3, <1>6
<1> QED
  BY <1>2, <1>5, <1>7 DEF Shapely

\* A step of a coroutine leaves one of the right shape.
LEMMA WorkShapes ==
    ASSUME Book, NEW n \in Node, NEW r \in Row, Works(n, r)
    PROVE  Shapely(n, r)'
<1>0. /\ task \in [Node -> [Row -> Task]] /\ wal \in [Node -> SUBSET Op]
      /\ Shapely(n, r)
  BY DEF Book, InFlight, TypeOK, TaskShape
<1>1. CASE AppendLocal(n, r)
  <2>1. PICK op \in task[n][r].op :
           /\ wal' = [wal EXCEPT ![n] = @ \cup {op}]
           /\ task' = [task EXCEPT ![n][r] = [pc |-> "logged", op |-> {op}]]
    BY <1>1 DEF AppendLocal, Append
  <2>2. task'[n][r] = [pc |-> "logged", op |-> {op}] /\ op \in wal'[n]
    BY <1>0, <2>1
  <2> QED
    BY <1>0, <2>2 DEF Shapely
<1>2. CASE LogDelete(n, r)
  <2>1. ASSUME NEW scope,
               task' = [task EXCEPT ![n][r] =
                          [pc |-> "minted", op |-> {Mint(n, "delete", r, scope)}]]
        PROVE  Shapely(n, r)'
    <3> DEFINE op == Mint(n, "delete", r, scope)
    <3>1. op.row = r /\ op.kind = "delete"
      BY DEF Mint
    <3>2. task' = [task EXCEPT ![n][r] = [pc |-> "minted", op |-> {op}]]
      BY <2>1
    <3> HIDE DEF op
    <3>3. task'[n][r] = [pc |-> "minted", op |-> {op}]
      BY <1>0, <3>2
    <3> QED
      BY <3>1, <3>3 DEF Shapely
  <2>2. ASSUME task' = [task EXCEPT ![n][r] = NoTask]
        PROVE  Shapely(n, r)'
    <3>1. task'[n][r] = NoTask
      BY <1>0, <2>2
    <3> QED
      BY <3>1 DEF Shapely, NoTask
  <2> QED
    BY <1>2, <2>1, <2>2 DEF LogDelete
<1>3. CASE ~AppendLocal(n, r) /\ ~LogDelete(n, r)
  <2>1. \/ task' = [task EXCEPT ![n][r] = [pc |-> "logged", op |-> {}]]
        \/ task' = [task EXCEPT ![n][r] = [pc |-> "deleted", op |-> {}]]
        \/ task' = [task EXCEPT ![n][r] = NoTask]
    BY <1>3 DEF Works, AppendLocalFails, WriteRow, DeleteRow, RecordTombstone
  <2>2. \/ task'[n][r] = [pc |-> "logged", op |-> {}]
        \/ task'[n][r] = [pc |-> "deleted", op |-> {}]
        \/ task'[n][r] = NoTask
    BY <1>0, <2>1
  <2> QED
    BY <2>2 DEF Shapely, NoTask
<1> QED
  BY <1>1, <1>2, <1>3

\* Every step keeps the shape of the coroutines.
LEMMA TaskShapeStep ==
    ASSUME Book, [Next]_vars
    PROVE  TaskShape'
<1> SUFFICES ASSUME NEW n \in Node, NEW r \in Row PROVE Shapely(n, r)'
  BY DEF TaskShape
<1>0. Shapely(n, r)
  BY DEF Book, TaskShape
<1>1. CASE task'[n][r] = task[n][r]
  <2>1. wal[n] \subseteq wal'[n]
    BY LinksGrow DEF Book, InFlight
  <2>2. task[n][r].pc = "minted" =>
           \A op \in task[n][r].op :
               op.kind = "insert" => \A m \in Node : op \notin wal'[m]
    BY <1>1, MintedIsUnlogged
  <2> QED
    BY <1>0, <1>1, <2>1, <2>2 DEF Shapely
<1>2. CASE task'[n][r] = NoTask
  BY <1>2 DEF Shapely, NoTask
<1> QED
  BY <1>1, <1>2, SaveShapes, WorkShapes, TaskSteps

\* How the hands of a batch change.
LEMMA CurSteps ==
    ASSUME TypeOK, [Next]_vars, NEW n \in Node, NEW k \in JobKey
    PROVE  \/ job'[n][k].cur = job[n][k].cur
           \/ job'[n][k].cur = {}
           \/ \E op \in wal'[n] :
                 job'[n][k].cur = {[op |-> op, pc |-> "recorded"]}
           \/ \E c \in job[n][k].cur, p \in {"absent", "winning", "reviving"} :
                 job'[n][k].cur = {[op |-> c.op, pc |-> p]}
<1> DEFINE Goal == \/ job'[n][k].cur = job[n][k].cur
                   \/ job'[n][k].cur = {}
                   \/ \E op \in wal'[n] :
                         job'[n][k].cur = {[op |-> op, pc |-> "recorded"]}
                   \/ \E c \in job[n][k].cur,
                         p \in {"absent", "winning", "reviving"} :
                         job'[n][k].cur = {[op |-> c.op, pc |-> p]}
<1>0. job \in [Node -> [JobKey -> Job]] /\ wal \in [Node -> SUBSET Op]
  BY DEF TypeOK
<1>1. CASE job' = job
  BY <1>1
<1>2. ASSUME NEW m \in Node, ApplyStep(m) PROVE Goal
  <2>1. PICK j \in JobKey :
           \/ RejectDrift(m, j) \/ TakeRemote(m, j) \/ AppendRemoteFails(m, j)
           \/ LookUp(m, j) \/ ReadTombstone(m, j)
           \/ Materialize(m, j) \/ MaterializeFails(m, j)
    BY <1>2 DEF ApplyStep
  <2>2. CASE RejectDrift(m, j) \/ AppendRemoteFails(m, j)
    <3>1. \E S : job' = [job EXCEPT ![m][j].todo = S]
      BY <2>2 DEF RejectDrift, AppendRemoteFails
    <3> QED
      BY <3>1, JobTodo
  <2>3. CASE TakeRemote(m, j)
    <3>1. PICK op :
             /\ wal' = [wal EXCEPT ![m] = @ \cup {op}]
             /\ job' = [job EXCEPT ![m][j] =
                          [todo |-> job[m][j].todo \ {op},
                           cur |-> {[op |-> op, pc |-> "recorded"]}]]
      BY <2>3 DEF TakeRemote, Append
    <3> DEFINE c == [op |-> op, pc |-> "recorded"]
               v == [todo |-> job[m][j].todo \ {op}, cur |-> {c}]
    <3>2. job' = [job EXCEPT ![m][j] = v] /\ v.cur = {c}
      BY <3>1
    <3>3. \/ job'[n][k] = job[n][k]
          \/ m = n /\ job'[n][k].cur = {c}
      <4> HIDE DEF v, c
      <4> QED
        BY <1>0, <3>2
    <3>4. op \in wal'[m]
      BY <1>0, <3>1
    <3> QED
      BY <3>3, <3>4
  <2>4. CASE LookUp(m, j) \/ ReadTombstone(m, j)
    <3>0. PICK c \in job[m][j].cur :
             \E S : TakesInHand(m, j, S) /\ Chooses(m, c.op.row, c, S)
      BY <2>4, LooksUp, ReadsTombstone
    <3>1. PICK p \in {"absent", "winning", "reviving"} :
             \/ TakesInHand(m, j, {[op |-> c.op, pc |-> p]})
             \/ TakesInHand(m, j, {})
      BY <3>0 DEF Chooses
    <3>2. [op |-> c.op, pc |-> p] \in Current
      <4>1. c.op \in Op
        BY JobOps
      <4> QED
        BY <4>1 DEF Current
    <3>3. \/ job'[n][k] = job[n][k]
          \/ m = n /\ j = k /\ job'[n][k].cur = {}
          \/ m = n /\ j = k /\ job'[n][k].cur = {[op |-> c.op, pc |-> p]}
      <4> DEFINE S == {[op |-> c.op, pc |-> p]}
      <4>1. S \in SUBSET Current
        BY <3>2
      <4> HIDE DEF S
      <4>2. \/ job'[n][k] = job[n][k]
            \/ m = n /\ j = k /\ job'[n][k].cur = {}
            \/ m = n /\ j = k /\ job'[n][k].cur = S
        BY <3>1, <4>1, JobCur DEF S
      <4> QED
        BY <4>2 DEF S
    <3> QED
      BY <3>1, <3>3
  <2>5. CASE Materialize(m, j) \/ MaterializeFails(m, j)
    <3>1. TakesInHand(m, j, {})
      BY <2>5 DEF Materialize, MaterializeFails, TakesInHand
    <3> QED
      BY <3>1, JobCur
  <2> QED
    BY <2>1, <2>2, <2>3, <2>4, <2>5
<1>3. ASSUME NEW m \in Node, OperatorStep(m) PROVE Goal
  <2>1. CASE Crash(m)
    BY <1>0, <2>1 DEF Crash, NoJob
  <2>2. ASSUME NEW p \in Node, ImportBundle(p, m) PROVE Goal
    BY <2>2, JobTodo, JobKeys DEF ImportBundle
  <2>3. \/ Crash(m) \/ \E p \in Node : ImportBundle(p, m)
        \/ job' = job
    BY <1>3 DEF OperatorStep, GrantScope, RevokeScope, Resume, exchange
  <2> QED
    BY <1>1, <2>1, <2>2, <2>3
<1>4. ASSUME NEW d \in Dial, SessionStep(d[1], d[2]) PROVE Goal
  <2>1. d[1] \in Node /\ d[2] \in Node
    BY DialAssumption
  <2>2. \/ job' = job
        \/ \E S : job' = [job EXCEPT ![d[2]][<<"server", d[1]>>].todo = S]
        \/ \E S : job' = [job EXCEPT ![d[1]][<<"client", d[2]>>].todo = S]
    BY <1>4 DEF SessionStep, Request, Respond, Upload, ServerApply, Reply,
                ClientApply, Finish, Drop
  <2> QED
    BY <2>1, <2>2, JobTodo, JobKeys
<1>5. ASSUME NEW m \in Node, LocalStep(m) PROVE job' = job
  BY <1>5, LocalFrame
<1> HIDE DEF Goal
<1>6. Goal
  <2>1. job' = job => Goal
    BY <1>1 DEF Goal
  <2> QED
    BY <1>2, <1>3, <1>4, <1>5, <2>1 DEF Next, vars, exchange
<1> QED
  BY <1>6 DEF Goal

\* Every step keeps the shape of the batches.
LEMMA JobShapeStep ==
    ASSUME TypeOK, JobShape, [Next]_vars
    PROVE  JobShape'
<1> SUFFICES ASSUME NEW n \in Node, NEW k \in JobKey
             PROVE  /\ \A c, d \in job'[n][k].cur : c = d
                    /\ \A c \in job'[n][k].cur : c.op \in wal'[n]
  BY DEF JobShape
<1>1. /\ \A c, d \in job[n][k].cur : c = d
      /\ \A c \in job[n][k].cur : c.op \in wal'[n]
  BY LinksGrow DEF JobShape
<1> QED
  BY <1>1, CurSteps

\* The bookkeeping of coroutines and batches is an invariant.
LEMMA BookInvariant == Spec => []Book
<1>1. Init => UnbornRows /\ TaskShape /\ JobShape
  BY DEF Init, UnbornRows, OpsOf, TaskShape, Shapely, NoTask, JobShape, NoJob
<1>2. Book /\ [Next]_vars => UnbornRows' /\ TaskShape' /\ JobShape'
  BY UnbornStep, TaskShapeStep, JobShapeStep DEF Book, InFlight
<1>3. (UnbornRows /\ TaskShape /\ JobShape) /\ InFlight => Book
  BY DEF Book
<1>5. Book' <=> (InFlight' /\ UnbornRows' /\ TaskShape' /\ JobShape')
  BY DEF Book
<1> QED
  BY <1>1, <1>2, <1>3, <1>5, InFlightInvariant, PTL DEF Spec

------------------------------------------------------------------------------
(* Deletes go no further than inserts. *)

\* An operation somebody has built, whether it is in a log yet or not.
Known(op) ==
    \E n \in Node : op \in wal[n] \/ \E r \in Row : op \in task[n][r].op

\* Everything built on a row bears the scope of the row's insert, except that
\* a delete may have been kept private.
Lineage ==
    \A o, i \in Op :
        Known(o) /\ Known(i) /\ i.kind = "insert" /\ i.row = o.row =>
            \/ o.scope = i.scope
            \/ o.kind = "delete" /\ o.scope = Private

\* What becomes known when one coroutine and one log change.
LEMMA KnownFrom ==
    ASSUME TypeOK, NEW n \in Node, NEW r \in Row, NEW x, NEW t,
           t.op \subseteq {x},
           wal' = wal \/ wal' = [wal EXCEPT ![n] = @ \cup {x}],
           task' = task \/ task' = [task EXCEPT ![n][r] = t],
           NEW op, Known(op)'
    PROVE  Known(op) \/ op = x
<1>1. task \in [Node -> [Row -> Task]] /\ wal \in [Node -> SUBSET Op]
  BY DEF TypeOK
<1>2. \A m \in Node : wal'[m] \subseteq wal[m] \cup {x}
  BY <1>1
<1>3. \A m \in Node, q \in Row : task'[m][q].op \subseteq task[m][q].op \cup {x}
  BY <1>1
<1> QED
  BY <1>2, <1>3 DEF Known

\* An operation becomes known by being minted.
Minted(x) ==
    \/ \E n \in Node, r \in Row \ minted, scope \in AnyScope :
          x = Mint(n, "insert", r, scope)
    \/ \E n \in Node, r \in Row :
          /\ task[n][r].pc = "deleted"
          /\ \E scope \in ScopesForRow(n, r) : x = Mint(n, "delete", r, scope)

\* What a step makes known: an insert of an unused identifier, or a delete in a
\* scope that the row's operations gave.
LEMMA KnownGains ==
    ASSUME Book, [Next]_vars
    PROVE  \/ \A op : Known(op)' => Known(op)
           \/ \E x : Minted(x) /\ \A op : Known(op)' => Known(op) \/ op = x
<1> DEFINE Same == \A op : Known(op)' => Known(op)
           Goal == \/ Same
                   \/ \E x : /\ Minted(x)
                             /\ \A op : Known(op)' => Known(op) \/ op = x
<1>0. /\ task \in [Node -> [Row -> Task]] /\ wal \in [Node -> SUBSET Op]
      /\ TypeOK
  BY DEF Book, InFlight, TypeOK
<1>e. NoTask.op = {} /\ \A S, p : [pc |-> p, op |-> S].op = S
  BY DEF NoTask
<1>1. ASSUME wal' = wal, task' = task PROVE Same
  BY <1>1 DEF Known
<1>2. ASSUME NEW n \in Node, NEW r \in Row, NEW scope \in AnyScope,
             SaveNote(n, r, scope) \/ SaveEpisode(n, r, scope)
      PROVE  Goal
  <2> DEFINE x == Mint(n, "insert", r, scope)
  <2>1. r \notin minted
    BY <1>2 DEF SaveNote, SaveEpisode
  <2>2. Minted(x)
    BY <2>1 DEF Minted
  <2>3. PICK t :
           /\ t.op \subseteq {x}
           /\ task' = [task EXCEPT ![n][r] = t]
    BY <1>2, <1>e DEF SaveNote, SaveEpisode
  <2>4. wal' = wal \/ wal' = [wal EXCEPT ![n] = @ \cup {x}]
    BY <1>2 DEF SaveNote, SaveEpisode, Append, LocalAppendFails
  <2> HIDE DEF x
  <2>5. \A op : Known(op)' => Known(op) \/ op = x
    BY <1>0, <2>3, <2>4, KnownFrom
  <2> QED
    BY <2>2, <2>5
<1>3. ASSUME NEW n \in Node, NEW r \in Row, LogDelete(n, r)
      PROVE  Goal
  <2>1. ASSUME NEW scope \in ScopesForRow(n, r),
               task' = [task EXCEPT ![n][r] =
                          [pc |-> "minted", op |-> {Mint(n, "delete", r, scope)}]]
        PROVE  Goal
    <3> DEFINE x == Mint(n, "delete", r, scope)
               t == [pc |-> "minted", op |-> {x}]
    <3>1. Minted(x)
      BY <1>3 DEF Minted, LogDelete
    <3>2. t.op \subseteq {x} /\ task' = [task EXCEPT ![n][r] = t]
      BY <2>1
    <3>3. wal' = wal
      BY <1>3 DEF LogDelete
    <3> HIDE DEF x, t
    <3>4. \A op : Known(op)' => Known(op) \/ op = x
      BY <1>0, <3>2, <3>3, KnownFrom
    <3> QED
      BY <3>1, <3>4
  <2>2. ASSUME task' = [task EXCEPT ![n][r] = NoTask]
        PROVE  Goal
    <3>1. wal' = wal
      BY <1>3 DEF LogDelete
    <3>2. \A m \in Node, q \in Row : task'[m][q].op \subseteq task[m][q].op
      BY <1>0, <1>e, <2>2
    <3> QED
      BY <3>1, <3>2 DEF Known
  <2> QED
    BY <1>3, <2>1, <2>2 DEF LogDelete
<1>4. ASSUME NEW n \in Node, NEW r \in Row, Works(n, r), ~LogDelete(n, r)
      PROVE  Same
  <2>1. CASE AppendLocal(n, r)
    <3>1. PICK x \in task[n][r].op :
             /\ wal' = [wal EXCEPT ![n] = @ \cup {x}]
             /\ task' = [task EXCEPT ![n][r] = [pc |-> "logged", op |-> {x}]]
      BY <2>1 DEF AppendLocal, Append
    <3>2. Known(x)
      BY DEF Known
    <3> DEFINE t == [pc |-> "logged", op |-> {x}]
    <3>3. t.op \subseteq {x} /\ task' = [task EXCEPT ![n][r] = t]
      BY <3>1
    <3> HIDE DEF t
    <3>4. \A op : Known(op)' => Known(op) \/ op = x
      BY <1>0, <3>1, <3>3, KnownFrom
    <3> QED
      BY <3>2, <3>4
  <2>2. CASE ~AppendLocal(n, r)
    <3>1. \/ task' = [task EXCEPT ![n][r] = [pc |-> "logged", op |-> {}]]
          \/ task' = [task EXCEPT ![n][r] = [pc |-> "deleted", op |-> {}]]
          \/ task' = [task EXCEPT ![n][r] = NoTask]
      BY <1>4, <2>2 DEF Works, AppendLocalFails, WriteRow, DeleteRow,
                        RecordTombstone
    <3>2. \A m \in Node, q \in Row : task'[m][q].op \subseteq task[m][q].op
      BY <1>0, <1>e, <3>1
    <3>3. wal' = wal
      BY <1>4, <2>2 DEF Works, AppendLocalFails, LocalAppendFails, WriteRow,
                        DeleteRow, RecordTombstone
    <3> QED
      BY <3>2, <3>3 DEF Known
  <2> QED
    BY <2>1, <2>2
<1>5. ASSUME NEW n \in Node, ApplyStep(n) PROVE Same
  <2>1. task' = task
    BY <1>5, ApplyFrame
  <2>2. \/ wal' = wal
        \/ \E k \in JobKey : \E x \in job[n][k].todo :
              wal' = [wal EXCEPT ![n] = @ \cup {x}]
    <3>1. ASSUME NEW k \in JobKey, TakeRemote(n, k)
          PROVE  \E x \in job[n][k].todo : wal' = [wal EXCEPT ![n] = @ \cup {x}]
      BY <3>1 DEF TakeRemote, Append, Oldest
    <3> QED
      BY <1>5, <3>1, ApplyFrame
  <2>3. CASE wal' # wal
    <3>0. PICK k \in JobKey :
             \E x \in job[n][k].todo : wal' = [wal EXCEPT ![n] = @ \cup {x}]
      BY <2>2, <2>3
    <3>1. PICK x \in job[n][k].todo : wal' = [wal EXCEPT ![n] = @ \cup {x}]
      BY <3>0
    <3>2. x \in wal[k[2]] /\ k[2] \in Node
      BY DEF Book, InFlight, JobsAreLinked, JobKey
    <3>3. \A m \in Node : wal'[m] \subseteq wal[m] \cup {x}
      BY <1>0, <3>1
    <3> QED
      BY <2>1, <3>2, <3>3 DEF Known
  <2> QED
    BY <1>1, <2>1, <2>3
<1>6. ASSUME NEW n \in Node, OperatorStep(n) PROVE Same
  <2>1. wal' = wal
    BY <1>6 DEF OperatorStep, GrantScope, RevokeScope, ImportBundle, Resume,
                Crash
  <2>2. \A m \in Node, q \in Row : task'[m][q].op \subseteq task[m][q].op
    <3>1. CASE Crash(n)
      BY <1>0, <1>e, <3>1 DEF Crash
    <3>2. CASE ~Crash(n)
      BY <1>6, <3>2 DEF OperatorStep, GrantScope, RevokeScope, ImportBundle,
                        Resume, local
    <3> QED
      BY <3>1, <3>2
  <2> QED
    BY <2>1, <2>2 DEF Known
<1>7. ASSUME NEW d \in Dial, SessionStep(d[1], d[2])
      PROVE  wal' = wal /\ task' = task
  BY <1>7, SessionFrame
<1>8. ASSUME NEW n \in Node, PhysicalTick(n)
      PROVE  wal' = wal /\ task' = task
  BY <1>8 DEF PhysicalTick, local
<1>9. ASSUME UNCHANGED vars PROVE Same
  BY <1>1, <1>9 DEF vars, local
<1>10. ASSUME NEW n \in Node, LocalStep(n) PROVE Goal
  <2>1. ASSUME NEW r \in Row, Works(n, r) PROVE Goal
    BY <1>3, <1>4, <2>1
  <2>2. PhysicalTick(n) => Goal
    BY <1>1, <1>8
  <2> HIDE DEF Goal
  <2> QED
    BY <1>2, <1>10, <2>1, <2>2 DEF LocalStep, Works
<1>11. Same => Goal
  OBVIOUS
<1> HIDE DEF Same, Goal
<1>12. Goal
  BY <1>1, <1>5, <1>6, <1>7, <1>9, <1>10, <1>11 DEF Next
<1> QED
  BY <1>12 DEF Goal, Same

\* A row that nobody has used has no operation, built or logged.
LEMMA KnownIsBorn ==
    ASSUME Book, NEW op, Known(op)
    PROVE  op \in Op /\ op.row \in minted
<1>1. CASE \E n \in Node : op \in wal[n]
  <2>1. op \in Op /\ op.row \in Row
    BY <1>1 DEF Book, InFlight, TypeOK, Op
  <2> QED
    BY <1>1, <2>1 DEF Book, UnbornRows, OpsOf
<1>2. ASSUME NEW n \in Node, NEW r \in Row, op \in task[n][r].op
      PROVE  op \in Op /\ op.row \in minted
  <2>1. op \in Op
    BY <1>2, TaskOps DEF Book, InFlight
  <2>2. op.row = r
    BY <1>2 DEF Book, TaskShape, Shapely
  <2> QED
    BY <1>2, <2>1, <2>2 DEF Book, UnbornRows, NoTask
<1> QED
  BY <1>1, <1>2 DEF Known

\* The scope of a new delete is the scope of an operation of its row, or the
\* reserved one if the log has none.
LEMMA ScopeOfDelete ==
    ASSUME NEW n \in Node, NEW r \in Row, NEW scope \in ScopesForRow(n, r)
    PROVE  \/ scope = Private
           \/ \E o \in wal[n] : o.row = r /\ o.scope = scope
  BY DEF ScopesForRow, Newest, OpsOf

\* A minted operation keeps the lineage.
LEMMA LineageStep ==
    ASSUME Book, Lineage, [Next]_vars
    PROVE  Lineage'
<1> SUFFICES ASSUME NEW o \in Op, NEW i \in Op, Known(o)', Known(i)',
                    i.kind = "insert", i.row = o.row
             PROVE  \/ o.scope = i.scope
                    \/ o.kind = "delete" /\ o.scope = Private
  BY DEF Lineage
<1>1. CASE Known(o) /\ Known(i)
  BY <1>1 DEF Lineage
<1>2. ASSUME NEW x, Minted(x),
             \A op : Known(op)' => Known(op) \/ op = x
      PROVE  \/ o.scope = i.scope
             \/ o.kind = "delete" /\ o.scope = Private
  <2>1. CASE o = x /\ i = x
    BY <2>1
  <2>2. ASSUME NEW n \in Node, NEW r \in Row \ minted, NEW scope \in AnyScope,
               x = Mint(n, "insert", r, scope)
        PROVE  (~Known(o) /\ ~Known(i)) \/ (Known(o) /\ Known(i))
    <3>1. x.row = r
      BY <2>2 DEF Mint
    <3>2. \A op : Known(op) => op.row # r
      BY KnownIsBorn
    <3> QED
      BY <1>2, <3>1, <3>2
  <2>3. ASSUME NEW n \in Node, NEW r \in Row, NEW scope \in ScopesForRow(n, r),
               x = Mint(n, "delete", r, scope), o = x
        PROVE  \/ o.scope = i.scope
               \/ o.kind = "delete" /\ o.scope = Private
    <3>1. o.kind = "delete" /\ o.row = r /\ o.scope = scope
      BY <2>3 DEF Mint
    <3>2. Known(i)
      BY <1>2, <2>3, <3>1
    <3>3. CASE scope = Private
      BY <3>1, <3>3
    <3>4. ASSUME NEW p \in wal[n], p.row = r, p.scope = scope
          PROVE  o.scope = i.scope \/ o.scope = Private
      <4>1. p \in Op /\ Known(p)
        BY DEF Book, InFlight, TypeOK, Known
      <4> QED
        BY <3>1, <3>2, <3>4, <4>1 DEF Lineage
    <3> QED
      BY <3>1, <3>3, <3>4, ScopeOfDelete
  <2>4. ASSUME NEW n \in Node, NEW r \in Row, NEW scope,
               x = Mint(n, "delete", r, scope)
        PROVE  i # x
    BY <2>4 DEF Mint
  <2>5. CASE ~Known(o) \/ ~Known(i)
    <3>1. CASE \E n \in Node, r \in Row \ minted, scope \in AnyScope :
                  x = Mint(n, "insert", r, scope)
      BY <1>2, <2>1, <2>2, <2>5, <3>1
    <3>2. CASE \E n \in Node, r \in Row : \E scope \in ScopesForRow(n, r) :
                  x = Mint(n, "delete", r, scope)
      BY <1>2, <2>3, <2>4, <2>5, <3>2
    <3> QED
      BY <1>2, <3>1, <3>2 DEF Minted
  <2> QED
    BY <1>1, <2>5
<1> QED
  BY <1>1, <1>2, KnownGains

\* A delete never bears a scope other than the row's insert bears, or the
\* reserved one: whichever brain deletes, whatever has reached it by then,
\* and however often it restarts, a delete is sent to nobody the insert was
\* not for.
THEOREM DeletesStayInLineage == Spec => []DeletesInheritScope
<1>1. Init => Lineage
  BY DEF Init, Lineage, Known, NoTask
<1>2. Book /\ Lineage /\ [Next]_vars => Lineage'
  BY LineageStep
<1>3. Book /\ Lineage => DeletesInheritScope
  <2> SUFFICES ASSUME Book, Lineage, NEW n \in Node, NEW m \in Node,
                      NEW d \in wal[n], NEW i \in wal[m],
                      d.kind = "delete", i.kind = "insert", d.row = i.row
               PROVE  d.scope \in {i.scope, Private}
    BY DEF DeletesInheritScope
  <2>1. d \in Op /\ i \in Op /\ Known(d) /\ Known(i)
    BY DEF Book, InFlight, TypeOK, Known
  <2> QED
    BY <2>1 DEF Lineage
<1> QED
  BY <1>1, <1>2, <1>3, BookInvariant, PTL DEF Spec

------------------------------------------------------------------------------
(* A row agrees with its log. *)

\* The stamps of a row and of its tombstone are in a strict total order, and a
\* blank one is below every stamp that was issued.
LEMMA StampOrder ==
    /\ \A s \in Stamp \cup {Blank} : ~TsLess(s, s)
    /\ \A s \in Stamp : TsLess(Blank, s)
    /\ \A s, t \in Stamp \cup {Blank} : TsLess(s, t) => ~TsLess(t, s)
    /\ \A s, t, u \in Stamp \cup {Blank} :
          ~TsLess(s, u) /\ TsLess(s, t) => ~TsLess(t, u)
<1>1. \A s \in Stamp :
         s.wall \in Nat /\ s.counter \in Nat /\ s.node \in Nat /\ s.node # 0
  <2>1. \A s \in Stamp :
           s.wall \in Nat /\ s.counter \in Nat /\ s.node \in Node
    BY DEF Stamp
  <2> QED
    BY <2>1, NodeAssumption
<1>2. Blank.wall = 0 /\ Blank.counter = 0 /\ Blank.node = 0
  BY DEF Blank
<1>3. \A s \in Stamp : TsLess(Blank, s)
  BY <1>1, <1>2 DEF TsLess
<1>4. \A s \in Stamp \cup {Blank} :
         s.wall \in Nat /\ s.counter \in Nat /\ s.node \in Nat
  BY <1>1, <1>2
<1> HIDE DEF Blank
<1> QED
  BY <1>3, <1>4 DEF TsLess

\* Disturbances are not forgotten.
LEMMA DisturbedGrows ==
    ASSUME [Next]_vars
    PROVE  disturbed \subseteq disturbed'
<1>1. ASSUME NEW n \in Node, LocalStep(n)
      PROVE  disturbed \subseteq disturbed'
  BY <1>1 DEF LocalStep, PhysicalTick, SaveNote, SaveEpisode, AppendLocal,
              AppendLocalFails, WriteRow, DeleteRow, LogDelete,
              RecordTombstone, history, DisturbedBy
<1>2. ASSUME NEW n \in Node, ApplyStep(n)
      PROVE  disturbed \subseteq disturbed'
  <2>1. ASSUME NEW k \in JobKey, RejectDrift(n, k) \/ TakeRemote(n, k)
                                 \/ AppendRemoteFails(n, k)
        PROVE  disturbed' = disturbed
    BY <2>1 DEF RejectDrift, TakeRemote, AppendRemoteFails, history
  <2>2. ASSUME NEW k \in JobKey, LookUp(n, k) \/ ReadTombstone(n, k)
        PROVE  disturbed \subseteq disturbed'
    BY <2>2 DEF LookUp, ReadTombstone, DisturbedBy
  <2>3. ASSUME NEW k \in JobKey, Materialize(n, k) \/ MaterializeFails(n, k)
        PROVE  disturbed \subseteq disturbed'
    BY <2>3 DEF Materialize, MaterializeFails, history, DisturbedBy
  <2> QED
    BY <1>2, <2>1, <2>2, <2>3 DEF ApplyStep
<1>3. ASSUME NEW n \in Node, OperatorStep(n)
      PROVE  disturbed \subseteq disturbed'
  BY <1>3 DEF OperatorStep, GrantScope, RevokeScope, ImportBundle, Resume,
              Crash, history
<1>4. ASSUME NEW d \in Dial, SessionStep(d[1], d[2])
      PROVE  disturbed \subseteq disturbed'
  BY <1>4, SessionFrame
<1> QED
  BY <1>1, <1>2, <1>3, <1>4 DEF Next, vars, history

\* Somebody on n has op, on r, in hand.
InHand(n, r, op) ==
    \/ op \in task[n][r].op
    \/ \E k \in JobKey : \E c \in Hand(n, k, r) : c.op = op

\* While a coroutine works on the row it is neither there nor buried.
Blanked(n, r) == task[n][r].pc # "idle" => row[n][r] = {} /\ tomb[n][r] = {}

\* Every operation of the log is still in hand, or is not above what the row
\* says, or not above the local delete that is about to bury the row.
Heard(n, r) ==
    \A op \in OpsOf(n, r) :
        \/ InHand(n, r, op)
        \/ task[n][r].pc = "deleted"
        \/ \E e \in Word(n, r) : ~TsLess(e, op.hlc)
        \/ \E d \in task[n][r].op : d.kind = "delete" /\ ~TsLess(d.hlc, op.hlc)

\* An operation that passed the gates is above what the row says, and nobody
\* else has the row in hand.
Prevails(n, r) ==
    \A k \in JobKey : \A c \in Hand(n, k, r) :
        Armed(c) =>
            /\ task[n][r].pc = "idle"
            /\ \A e \in Word(n, r) : TsLess(e, c.op.hlc)
            /\ c.pc = "winning" => tomb[n][r] = {}
            /\ \A j \in JobKey : \A d \in Hand(n, j, r) :
                  Armed(d) => j = k

RowAgrees(n, r) ==
    Worded(n, r) /\ Blanked(n, r) /\ Heard(n, r) /\ Prevails(n, r)

RowsAgree ==
    \A n \in Node, r \in Row : <<n, r>> \notin disturbed => RowAgrees(n, r)

\* What a log, and a batch, have of a row.
LEMMA RowFacts ==
    ASSUME Book, NEW n \in Node, NEW r \in Row
    PROVE  /\ \A op \in OpsOf(n, r) : op \in Op /\ op.hlc \in Stamp
                                      /\ op.kind \in {"insert", "delete"}
           /\ \A k \in JobKey : \A c \in Hand(n, k, r) :
                 /\ c.op \in OpsOf(n, r) /\ Hand(n, k, r) = {c}
                 /\ c.pc \in {"recorded", "absent", "winning", "reviving"}
           /\ \A op \in task[n][r].op :
                 /\ op \in Op /\ op.hlc \in Stamp /\ op.row = r
                 /\ op.kind \in {"insert", "delete"} /\ task[n][r].op = {op}
           /\ row[n][r] \subseteq Stamp \cup {Blank} /\ tomb[n][r] \subseteq Stamp
<1>1. \A op \in Op : op.hlc \in Stamp /\ op.kind \in {"insert", "delete"}
  BY DEF Op
<1>2. \A op \in OpsOf(n, r) : op \in Op
  BY DEF Book, InFlight, TypeOK, OpsOf
<1>3. ASSUME NEW k \in JobKey, NEW c \in Hand(n, k, r)
      PROVE  /\ c.op \in OpsOf(n, r) /\ Hand(n, k, r) = {c}
             /\ c.pc \in {"recorded", "absent", "winning", "reviving"}
  <2>1. job[n][k] \in Job
    BY JobOps DEF Book, InFlight
  <2> QED
    BY <2>1 DEF Hand, Book, JobShape, OpsOf, Job, Current
<1>4. ASSUME NEW op \in task[n][r].op
      PROVE  op \in Op /\ op.row = r /\ task[n][r].op = {op}
  BY TaskOps DEF Book, InFlight, TaskShape, Shapely
<1>5. row[n][r] \subseteq Stamp \cup {Blank} /\ tomb[n][r] \subseteq Stamp
  BY DEF Book, InFlight, TypeOK
<1> QED
  BY <1>1, <1>2, <1>3, <1>4, <1>5

\* Where nothing about the row changes, the row goes on agreeing.
LEMMA StillAgrees ==
    ASSUME NEW n \in Node, NEW r \in Row, RowAgrees(n, r), Still(n, r),
           HandStill(n, r)
    PROVE  RowAgrees(n, r)'
<1>1. /\ task'[n][r] = task[n][r] /\ row'[n][r] = row[n][r]
      /\ tomb'[n][r] = tomb[n][r] /\ OpsOf(n, r)' = OpsOf(n, r)
      /\ \A k \in JobKey : Hand(n, k, r)' = Hand(n, k, r)
  BY DEF Still, HandStill
<1> QED
  BY <1>1 DEF RowAgrees, Worded, Blanked, Heard, Prevails, Word, InHand

\* A hand that passed the gates finds no coroutine on the row.
LEMMA BusyHands ==
    ASSUME NEW n \in Node, NEW r \in Row, Prevails(n, r),
           task[n][r].pc # "idle"
    PROVE  \A k \in JobKey : \A c \in Hand(n, k, r) : ~Armed(c)
  BY DEF Prevails

\* A new row agrees with its log, which has at most the insert in hand.
LEMMA SavedAgrees ==
    ASSUME Book, NEW n \in Node, NEW r \in Row, Saves(n, r), HandStill(n, r)
    PROVE  RowAgrees(n, r)'
<1>1. PICK scope \in AnyScope :
         SaveNote(n, r, scope) \/ SaveEpisode(n, r, scope)
  BY DEF Saves
<1> DEFINE x == Mint(n, "insert", r, scope)
<1>2. r \in Row \ minted /\ row' = row /\ tomb' = tomb
  BY <1>1 DEF SaveNote, SaveEpisode
<1>3. OpsOf(n, r) = {} /\ row[n][r] = {} /\ tomb[n][r] = {}
  BY <1>2 DEF Book, UnbornRows
<1>4. \A k \in JobKey : Hand(n, k, r)' = {}
  BY <1>3, RowFacts DEF HandStill
<1>5. /\ task \in [Node -> [Row -> Task]] /\ wal \in [Node -> SUBSET Op]
  BY DEF Book, InFlight, TypeOK
<1>6. \/ task' = [task EXCEPT ![n][r] = [pc |-> "logged", op |-> {x}]]
         /\ wal' = [wal EXCEPT ![n] = @ \cup {x}]
      \/ task' = [task EXCEPT ![n][r] = [pc |-> "logged", op |-> {}]]
         /\ wal' = wal
      \/ task' = [task EXCEPT ![n][r] = [pc |-> "minted", op |-> {x}]]
         /\ wal' = wal
  BY <1>1 DEF SaveNote, SaveEpisode, Append, LocalAppendFails
<1> HIDE DEF x
<1>7. /\ task'[n][r].op = {x} \/ wal'[n] = wal[n]
      /\ wal'[n] \subseteq wal[n] \cup {x}
  BY <1>5, <1>6
<1>8. OpsOf(n, r)' \subseteq task'[n][r].op
  BY <1>3, <1>7 DEF OpsOf
<1> QED
  BY <1>2, <1>3, <1>4, <1>8
  DEF RowAgrees, Worded, Blanked, Heard, Prevails, InHand

\* A step of the coroutine on the row keeps it in agreement, unless it is
\* recorded as a disturbance.
LEMMA WorkedAgrees ==
    ASSUME Book, NEW n \in Node, NEW r \in Row, Works(n, r), HandStill(n, r),
           RowAgrees(n, r), <<n, r>> \notin disturbed'
    PROVE  RowAgrees(n, r)'
<1>0. /\ task \in [Node -> [Row -> Task]] /\ wal \in [Node -> SUBSET Op]
      /\ row \in [Node -> [Row -> SUBSET (Stamp \cup {Blank})]]
      /\ tomb \in [Node -> [Row -> SUBSET Stamp]]
      /\ Shapely(n, r) /\ Worded(n, r) /\ Blanked(n, r) /\ Heard(n, r)
      /\ Prevails(n, r)
  BY DEF Book, InFlight, TypeOK, TaskShape, RowAgrees
<1>1. \A k \in JobKey : Hand(n, k, r)' = Hand(n, k, r)
  BY DEF HandStill
<1>2. \A op \in task[n][r].op :
         /\ op \in Op /\ op.hlc \in Stamp /\ op.row = r
         /\ op.kind \in {"insert", "delete"} /\ task[n][r].op = {op}
  BY RowFacts
<1>3. task[n][r].pc # "idle" =>
         /\ row[n][r] = {} /\ tomb[n][r] = {} /\ Word(n, r) = {}
         /\ \A k \in JobKey : \A c \in Hand(n, k, r)' : ~Armed(c)
  BY <1>0, <1>1, BusyHands DEF Blanked, Word
<1>4. (\A k \in JobKey : \A c \in Hand(n, k, r)' : ~Armed(c))
         => Prevails(n, r)'
  BY DEF Prevails
<1>5. CASE AppendLocal(n, r)
  <2>1. PICK x \in task[n][r].op :
           /\ wal' = [wal EXCEPT ![n] = @ \cup {x}]
           /\ task' = [task EXCEPT ![n][r] = [pc |-> "logged", op |-> {x}]]
    BY <1>5 DEF AppendLocal, Append
  <2>2. task'[n][r] = [pc |-> "logged", op |-> {x}]
    BY <1>0, <2>1
  <2>3. OpsOf(n, r)' = OpsOf(n, r) \cup {x}
    BY <1>0, <1>2, <2>1 DEF OpsOf
  <2>4. row' = row /\ tomb' = tomb /\ task[n][r].pc = "minted"
    BY <1>5 DEF AppendLocal
  <2>5. task[n][r].op = {x}
    BY <1>2
  <2>6. Heard(n, r)'
    BY <1>0, <1>1, <1>3, <2>2, <2>3, <2>4, <2>5 DEF Heard, InHand
  <2> QED
    BY <1>3, <1>4, <2>2, <2>4, <2>6 DEF RowAgrees, Worded, Blanked
<1>6. CASE AppendLocalFails(n, r)
  <2>1. PICK x \in task[n][r].op :
           /\ task' = [task EXCEPT ![n][r] =
                         IF x.kind = "insert"
                         THEN [pc |-> "logged", op |-> {}] ELSE NoTask]
           /\ DisturbedBy(n, r, x.kind = "delete")
    BY <1>6 DEF AppendLocalFails
  <2>2. x.kind = "insert"
    BY <1>2, <2>1 DEF DisturbedBy
  <2>3. task'[n][r] = [pc |-> "logged", op |-> {}]
    BY <1>0, <2>1, <2>2
  <2>4. /\ row' = row /\ tomb' = tomb /\ task[n][r].pc = "minted"
        /\ wal' = wal
    BY <1>6 DEF AppendLocalFails, LocalAppendFails
  <2>5. task[n][r].op = {x} /\ x \notin wal[n]
    BY <1>0, <1>2, <2>2, <2>4 DEF Shapely
  <2>6. OpsOf(n, r)' = OpsOf(n, r) /\ x \notin OpsOf(n, r)
    BY <2>4, <2>5 DEF OpsOf
  <2>7. Heard(n, r)'
    <3> SUFFICES ASSUME NEW op \in OpsOf(n, r) PROVE InHand(n, r, op)'
      BY <2>6 DEF Heard
    <3>1. \A d \in task[n][r].op : d.kind # "delete" /\ d # op
      BY <2>2, <2>5, <2>6
    <3>2. task[n][r].pc # "deleted" /\ Word(n, r) = {}
      BY <1>3, <2>4
    <3>3. InHand(n, r, op)
      BY <1>0, <3>1, <3>2 DEF Heard
    <3> QED
      BY <1>1, <3>1, <3>3 DEF InHand
  <2> QED
    BY <1>3, <1>4, <2>3, <2>4, <2>7 DEF RowAgrees, Worded, Blanked
<1>7. CASE WriteRow(n, r)
  <2>1. /\ task[n][r].pc = "logged"
        /\ \A op \in task[n][r].op : op.kind = "insert"
        /\ tomb' = tomb /\ wal' = wal
    BY <1>7 DEF WriteRow
  <2> DEFINE v == IF task[n][r].op = {} THEN {Blank}
                  ELSE {op.hlc : op \in task[n][r].op}
  <2>2. row'[n][r] = v /\ task'[n][r] = NoTask
    <3>1. row' = [row EXCEPT ![n][r] = IF @ # {} THEN @ ELSE v]
          /\ task' = [task EXCEPT ![n][r] = NoTask]
      BY <1>7 DEF WriteRow
    <3> HIDE DEF v
    <3> QED
      BY <1>0, <1>3, <2>1, <3>1
  <2>3. /\ OpsOf(n, r)' = OpsOf(n, r) /\ task[n][r].op \subseteq OpsOf(n, r)
    BY <1>0, <1>2, <2>1 DEF OpsOf, Shapely
  <2>4. \A op \in task[n][r].op : v = {op.hlc}
    <3> SUFFICES ASSUME NEW op \in task[n][r].op PROVE v = {op.hlc}
      OBVIOUS
    <3>1. task[n][r].op = {op}
      BY <1>2
    <3> QED
      BY <3>1
  <2>5. v = {Blank} \/ \E op \in task[n][r].op : v = {op.hlc}
    BY <2>4
  <2>6. v # {} /\ tomb'[n][r] = {}
    BY <1>3, <2>1, <2>5
  <2> HIDE DEF v
  <2>7. Worded(n, r)'
    BY <2>1, <2>2, <2>3, <2>5, <2>6 DEF Worded
  <2>8. Blanked(n, r)'
    BY <2>2 DEF Blanked, NoTask
  <2>9. Heard(n, r)'
    <3> SUFFICES ASSUME NEW op \in OpsOf(n, r)
                 PROVE  \/ InHand(n, r, op)'
                        \/ \E e \in Word(n, r)' : ~TsLess(e, op.hlc)
      BY <2>3 DEF Heard
    <3>1. InHand(n, r, op)
      BY <1>0, <1>3, <2>1 DEF Heard
    <3>2. Word(n, r)' = v
      BY <2>2, <2>6 DEF Word
    <3>3. CASE op \in task[n][r].op
      BY <1>2, <2>4, <3>2, <3>3, StampOrder
    <3> QED
      BY <1>1, <3>1, <3>3 DEF InHand
  <2> QED
    BY <1>3, <1>4, <2>1, <2>7, <2>8, <2>9 DEF RowAgrees
<1>8. CASE DeleteRow(n, r)
  <2>1. /\ row[n][r] # {} /\ task[n][r].pc = "idle"
        /\ row' = [row EXCEPT ![n][r] = {}]
        /\ task' = [task EXCEPT ![n][r] = [pc |-> "deleted", op |-> {}]]
        /\ DisturbedBy(n, r, RowHeld(n, r)) /\ tomb' = tomb /\ wal' = wal
    BY <1>8 DEF DeleteRow
  <2>2. /\ row'[n][r] = {}
        /\ task'[n][r] = [pc |-> "deleted", op |-> {}]
    BY <1>0, <2>1
  <2>3. tomb'[n][r] = {}
    BY <1>0, <2>1 DEF Worded
  <2>4. \A k \in JobKey : \A c \in Hand(n, k, r)' : ~Armed(c)
    BY <1>1, <2>1 DEF DisturbedBy, RowHeld, Hand, Armed
  <2> QED
    BY <1>4, <2>2, <2>3, <2>4 DEF RowAgrees, Worded, Blanked, Heard
<1>9. CASE LogDelete(n, r)
  <2>1. /\ task[n][r].pc = "deleted" /\ row' = row /\ tomb' = tomb
        /\ wal' = wal
    BY <1>9 DEF LogDelete
  <2>2. PICK scope \in ScopesForRow(n, r) :
           /\ task' = [task EXCEPT ![n][r] =
                         [pc |-> "minted", op |-> {Mint(n, "delete", r, scope)}]]
           /\ DisturbedBy(n, r, ~Outstamps(n, r))
    BY <1>9 DEF LogDelete, DisturbedBy
  <2> DEFINE x == Mint(n, "delete", r, scope)
  <2>3. task'[n][r] = [pc |-> "minted", op |-> {x}]
    <3> HIDE DEF x
    <3> QED
      BY <1>0, <2>2 DEF x
  <2>4. \A op \in OpsOf(n, r) : TsLess(op.hlc, x.hlc)
    BY <2>2 DEF Outstamps, DisturbedBy, Mint
  <2>5. x.hlc \in Stamp /\ x.kind = "delete"
    BY ClockSteps, StampFacts DEF Mint, Book, InFlight
  <2> HIDE DEF x
  <2>6. OpsOf(n, r)' = OpsOf(n, r)
    BY <2>1 DEF OpsOf
  <2>7. \A op \in OpsOf(n, r) : op.hlc \in Stamp
    BY RowFacts
  <2>8. Heard(n, r)'
    <3>1. \A op \in OpsOf(n, r) : ~TsLess(x.hlc, op.hlc)
      BY <2>4, <2>5, <2>7, StampOrder
    <3> QED
      BY <2>3, <2>5, <2>6, <3>1 DEF Heard
  <2> QED
    BY <1>3, <1>4, <2>1, <2>3, <2>8 DEF RowAgrees, Worded, Blanked
<1>10. CASE RecordTombstone(n, r)
  <2>1. /\ task[n][r].pc = "logged" /\ row' = row /\ wal' = wal
        /\ task' = [task EXCEPT ![n][r] = NoTask]
    BY <1>10 DEF RecordTombstone
  <2>2. PICK x \in task[n][r].op :
           x.kind = "delete" /\ tomb' = [tomb EXCEPT ![n][r] = {x.hlc}]
    BY <1>10 DEF RecordTombstone
  <2>3. /\ task'[n][r] = NoTask /\ tomb'[n][r] = {x.hlc} /\ row'[n][r] = {}
    BY <1>0, <1>3, <2>1, <2>2
  <2>4. OpsOf(n, r)' = OpsOf(n, r) /\ x \in OpsOf(n, r)
    BY <1>0, <1>2, <2>1 DEF OpsOf, Shapely
  <2>5. Word(n, r)' = {x.hlc} /\ task[n][r].op = {x} /\ x.hlc \in Stamp
    BY <1>2, <2>3 DEF Word
  <2>6. Heard(n, r)'
    <3> SUFFICES ASSUME NEW op \in OpsOf(n, r)
                 PROVE  InHand(n, r, op)' \/ ~TsLess(x.hlc, op.hlc)
      BY <2>4, <2>5 DEF Heard
    <3>1. InHand(n, r, op) \/ ~TsLess(x.hlc, op.hlc)
      BY <1>0, <1>3, <2>1, <2>5 DEF Heard
    <3>2. ~TsLess(x.hlc, x.hlc)
      BY <2>5, StampOrder
    <3> QED
      BY <1>1, <2>5, <3>1, <3>2 DEF InHand
  <2> QED
    BY <1>3, <1>4, <2>1, <2>2, <2>3, <2>4, <2>6
    DEF RowAgrees, Worded, Blanked, NoTask
<1> QED
  BY <1>5, <1>6, <1>7, <1>8, <1>9, <1>10 DEF Works

\* The steps of a batch keep the row in agreement: an operation enters the log,
LEMMA TakenAgrees ==
    ASSUME NEW n \in Node, NEW r \in Row, RowAgrees(n, r),
           NEW k \in JobKey, NEW op, Takes(n, k, r, op)
    PROVE  RowAgrees(n, r)'
<1>1. /\ OpsOf(n, r)' = OpsOf(n, r) \cup {op}
      /\ task'[n][r] = task[n][r]
      /\ row'[n][r] = row[n][r] /\ tomb'[n][r] = tomb[n][r]
      /\ Hand(n, k, r) = {}
      /\ Hand(n, k, r)' = {[op |-> op, pc |-> "recorded"]}
      /\ \A j \in JobKey : j # k => Hand(n, j, r)' = Hand(n, j, r)
  BY DEF Takes, OthersStill
<1>2. Worded(n, r)' /\ Blanked(n, r)'
  BY <1>1 DEF RowAgrees, Worded, Blanked
<1>3. Word(n, r)' = Word(n, r)
  BY <1>1 DEF Word
<1>4. InHand(n, r, op)'
  <2> DEFINE c == [op |-> op, pc |-> "recorded"]
  <2>1. c \in Hand(n, k, r)' /\ c.op = op
    BY <1>1
  <2> HIDE DEF c
  <2> QED
    BY <2>1 DEF InHand
<1>5. \A o \in OpsOf(n, r) : InHand(n, r, o) => InHand(n, r, o)'
  BY <1>1 DEF InHand
<1>6. Heard(n, r)'
  BY <1>1, <1>3, <1>4, <1>5 DEF RowAgrees, Heard
<1>7. \A j \in JobKey : \A c \in Hand(n, j, r)' :
         Armed(c) => j # k /\ c \in Hand(n, j, r)
  BY <1>1 DEF Armed
<1>8. Prevails(n, r)'
  BY <1>1, <1>3, <1>7 DEF RowAgrees, Prevails
<1> QED
  BY <1>2, <1>6, <1>8 DEF RowAgrees

\* ... the lookup,
LEMMA LookedAgrees ==
    ASSUME Book, NEW n \in Node, NEW r \in Row, RowAgrees(n, r),
           <<n, r>> \notin disturbed',
           NEW k \in JobKey, NEW c \in Hand(n, k, r), Looks(n, k, r, c)
    PROVE  RowAgrees(n, r)'
<1>1. /\ OpsOf(n, r)' = OpsOf(n, r) /\ task'[n][r] = task[n][r]
      /\ row'[n][r] = row[n][r] /\ tomb'[n][r] = tomb[n][r]
      /\ \A j \in JobKey : j # k => Hand(n, j, r)' = Hand(n, j, r)
      /\ ~Armed(c) /\ Chooses(n, r, c, Hand(n, k, r)')
  BY DEF Looks, Still, OthersStill
<1>2. c.op.row = r /\ Hand(n, k, r) = {c}
  BY RowFacts DEF Hand
<1>3. Worded(n, r)' /\ Blanked(n, r)' /\ Word(n, r)' = Word(n, r)
  BY <1>1 DEF RowAgrees, Worded, Blanked, Word
<1>4. ASSUME NEW d, Hand(n, k, r)' = {d}, d.op = c.op
      PROVE  Heard(n, r)'
  <2>1. \A o \in OpsOf(n, r) : InHand(n, r, o) => InHand(n, r, o)'
    BY <1>1, <1>2, <1>4 DEF InHand
  <2> QED
    BY <1>1, <1>3, <2>1 DEF RowAgrees, Heard
<1>5. ASSUME \A j \in JobKey : \A b \in Hand(n, j, r)' :
                Armed(b) => b \in Hand(n, j, r)
      PROVE  Prevails(n, r)'
  BY <1>1, <1>3, <1>5 DEF RowAgrees, Prevails
<1>6. CASE Hand(n, k, r)' = {[op |-> c.op, pc |-> "absent"]}
  <2> DEFINE d == [op |-> c.op, pc |-> "absent"]
  <2>1. d.op = c.op /\ ~Armed(d)
    BY DEF Armed
  <2>2. Hand(n, k, r)' = {d}
    BY <1>6
  <2> HIDE DEF d
  <2>3. \A j \in JobKey : \A b \in Hand(n, j, r)' :
           Armed(b) => b \in Hand(n, j, r)
    BY <1>1, <2>1, <2>2
  <2> QED
    BY <1>3, <1>4, <1>5, <2>1, <2>2, <2>3 DEF RowAgrees
<1>7. ASSUME NEW p \in {"winning", "reviving"},
             Hand(n, k, r)' = {[op |-> c.op, pc |-> p]},
             p = "winning" /\ row[n][r] = {} => tomb[n][r] = {},
             ~RowHeld(n, r), \A e \in Word(n, r) : TsLess(e, c.op.hlc)
      PROVE  RowAgrees(n, r)'
  <2> DEFINE d == [op |-> c.op, pc |-> p]
  <2>1. d.op = c.op /\ d.pc = p /\ Hand(n, k, r)' = {d}
    BY <1>7
  <2> HIDE DEF d
  <2>2. Heard(n, r)'
    BY <1>4, <2>1
  <2>3. /\ task[n][r].pc = "idle"
        /\ \A j \in JobKey : \A b \in Hand(n, j, r) : ~Armed(b)
    BY <1>7 DEF RowHeld, Hand, Armed
  <2>4. \A j \in JobKey : \A b \in Hand(n, j, r)' :
           Armed(b) => j = k /\ b = d
    BY <1>1, <2>1, <2>3
  <2>5. p = "winning" => tomb[n][r] = {}
    BY <1>7 DEF RowAgrees, Worded
  <2>6. Prevails(n, r)'
    BY <1>1, <1>3, <1>7, <2>1, <2>3, <2>4, <2>5 DEF Prevails
  <2> QED
    BY <1>3, <2>2, <2>6 DEF RowAgrees
<1>8. ASSUME Hand(n, k, r)' = {},
             \E e \in Word(n, r) : ~TsLess(e, c.op.hlc)
      PROVE  RowAgrees(n, r)'
  <2>1. \A o \in OpsOf(n, r) :
           o # c.op /\ InHand(n, r, o) => InHand(n, r, o)'
    BY <1>1, <1>2, <1>8 DEF InHand
  <2>2. Heard(n, r)'
    BY <1>1, <1>3, <1>8, <2>1 DEF RowAgrees, Heard
  <2>3. \A j \in JobKey : \A b \in Hand(n, j, r)' : b \in Hand(n, j, r)
    BY <1>1, <1>8
  <2> QED
    BY <1>3, <1>5, <2>2, <2>3 DEF RowAgrees
<1> QED
  BY <1>1, <1>6, <1>7, <1>8 DEF Chooses, RowAgrees

\* ... and the write to the row.
LEMMA SettledAgrees ==
    ASSUME Book, NEW n \in Node, NEW r \in Row, RowAgrees(n, r),
           NEW k \in JobKey, NEW c \in Hand(n, k, r), Settles(n, k, r, c)
    PROVE  RowAgrees(n, r)'
<1>0. Worded(n, r) /\ Blanked(n, r) /\ Heard(n, r) /\ Prevails(n, r)
  BY DEF RowAgrees
<1>1. /\ OpsOf(n, r)' = OpsOf(n, r) /\ task'[n][r] = task[n][r]
      /\ row'[n][r] = IF c.op.kind = "delete" THEN {} ELSE {c.op.hlc}
      /\ tomb'[n][r] = IF c.op.kind = "delete" THEN {c.op.hlc}
                       ELSE IF c.pc = "reviving" THEN {} ELSE tomb[n][r]
      /\ Hand(n, k, r)' = {}
      /\ \A j \in JobKey : j # k => Hand(n, j, r)' = Hand(n, j, r)
      /\ Armed(c)
  BY DEF Settles, OthersStill
<1>2. /\ c.op \in OpsOf(n, r) /\ Hand(n, k, r) = {c} /\ c.op.hlc \in Stamp
      /\ c.op.kind \in {"insert", "delete"}
      /\ c.pc \in {"winning", "reviving"}
  BY <1>1, RowFacts DEF Armed
<1>3. /\ task[n][r].pc = "idle"
      /\ \A e \in Word(n, r) : TsLess(e, c.op.hlc)
      /\ c.pc = "winning" => tomb[n][r] = {}
      /\ \A j \in JobKey : \A d \in Hand(n, j, r) :
            Armed(d) => j = k
  BY <1>0, <1>1 DEF Prevails
<1>4. task[n][r].op = {}
  BY <1>3 DEF Book, TaskShape, Shapely
<1>5. Word(n, r)' = {c.op.hlc}
  BY <1>1, <1>2 DEF Word
<1>6. Worded(n, r)'
  BY <1>1, <1>2, <1>3 DEF Worded
<1>7. Blanked(n, r)'
  BY <1>1, <1>3 DEF Blanked
<1>8. Heard(n, r)'
  <2> SUFFICES ASSUME NEW o \in OpsOf(n, r)
               PROVE  InHand(n, r, o)' \/ ~TsLess(c.op.hlc, o.hlc)
    BY <1>1, <1>5 DEF Heard
  <2>1. InHand(n, r, o) \/ \E e \in Word(n, r) : ~TsLess(e, o.hlc)
    BY <1>0, <1>3, <1>4 DEF Heard
  <2>2. CASE InHand(n, r, o)
    <3>1. InHand(n, r, o)' \/ o = c.op
      BY <1>1, <1>2, <1>4, <2>2 DEF InHand
    <3> QED
      BY <1>2, <3>1, StampOrder
  <2>3. ASSUME NEW e \in Word(n, r), ~TsLess(e, o.hlc)
        PROVE  ~TsLess(c.op.hlc, o.hlc)
    <3>1. e \in Stamp \cup {Blank} /\ o.hlc \in Stamp
      BY RowFacts DEF Word
    <3>2. TsLess(e, c.op.hlc)
      BY <1>3
    <3> QED
      BY <1>2, <2>3, <3>1, <3>2, StampOrder
  <2> QED
    BY <2>1, <2>2, <2>3
<1>9. \A j \in JobKey : \A d \in Hand(n, j, r)' : ~Armed(d)
  BY <1>1, <1>3
<1>10. Prevails(n, r)'
  BY <1>9 DEF Prevails
<1> QED
  BY <1>6, <1>7, <1>8, <1>10 DEF RowAgrees

\* A restart keeps the row in agreement where nobody was working on it.
LEMMA RestartAgrees ==
    ASSUME Book, NEW n \in Node, NEW r \in Row, RowAgrees(n, r), Crash(n),
           <<n, r>> \notin disturbed'
    PROVE  RowAgrees(n, r)'
<1>1. ~RowBusy(n, r)
  BY DEF Crash
<1>2. /\ OpsOf(n, r)' = OpsOf(n, r) /\ task'[n][r] = NoTask
      /\ row'[n][r] = row[n][r] /\ tomb'[n][r] = tomb[n][r]
      /\ \A k \in JobKey : job'[n][k] = NoJob
  BY CrashEffects DEF Book, InFlight
<1>3. \A k \in JobKey : Hand(n, k, r) = {} /\ Hand(n, k, r)' = {}
  BY <1>1, <1>2 DEF RowBusy, Hand, NoJob
<1>4. task[n][r].pc = "idle" /\ task[n][r].op = {}
  BY <1>1 DEF RowBusy, Book, TaskShape, Shapely
<1>5. Word(n, r)' = Word(n, r)
  BY <1>2 DEF Word
<1>6. \A op \in OpsOf(n, r) : \E e \in Word(n, r) : ~TsLess(e, op.hlc)
  BY <1>3, <1>4 DEF RowAgrees, Heard, InHand
<1>7. Heard(n, r)' /\ Prevails(n, r)'
  BY <1>2, <1>3, <1>5, <1>6 DEF Heard, Prevails
<1>8. Worded(n, r)' /\ Blanked(n, r)'
  BY <1>2 DEF RowAgrees, Worded, Blanked, NoTask
<1> QED
  BY <1>7, <1>8 DEF RowAgrees

\* Every step keeps undisturbed rows in agreement with their logs.
LEMMA RowsAgreeStep ==
    ASSUME Book, RowsAgree, [Next]_vars
    PROVE  RowsAgree'
<1> SUFFICES ASSUME NEW n \in Node, NEW r \in Row, <<n, r>> \notin disturbed'
             PROVE  RowAgrees(n, r)'
  BY DEF RowsAgree
<1>1. RowAgrees(n, r)
  BY DisturbedGrows DEF RowsAgree
<1>2. \A k \in JobKey : \A c \in Hand(n, k, r) : ~Misses(n, k, r, c)
  BY DEF Misses
<1> QED
  BY <1>1, <1>2, RowSteps, StillAgrees, SavedAgrees, WorkedAgrees,
     TakenAgrees, LookedAgrees, SettledAgrees, RestartAgrees
  DEF Book, InFlight

\* A row in agreement that nobody has in hand is what its newest operation
\* says.
LEMMA AgreedIsSettled ==
    ASSUME Book, NEW n \in Node, NEW r \in Row, RowAgrees(n, r),
           ~RowBusy(n, r)
    PROVE  SettledRow(n, r)
<1> SUFFICES ASSUME NEW w \in LastWriter(n, r)
             PROVE  IF w.kind = "insert"
                    THEN row[n][r] = {w.hlc}
                    ELSE row[n][r] = {} /\ tomb[n][r] = {w.hlc}
  BY DEF SettledRow
<1>1. w \in OpsOf(n, r) /\ \A o \in OpsOf(n, r) : o = w \/ TsLess(o.hlc, w.hlc)
  BY DEF LastWriter
<1>2. \A o \in OpsOf(n, r) : o.hlc \in Stamp
  BY RowFacts
<1>3. task[n][r].pc = "idle" /\ task[n][r].op = {}
  BY DEF RowBusy, Book, TaskShape, Shapely
<1>4. ~InHand(n, r, w)
  BY <1>3 DEF InHand, RowBusy, Hand
<1>5. PICK e \in Word(n, r) : ~TsLess(e, w.hlc)
  BY <1>1, <1>3, <1>4 DEF RowAgrees, Heard
<1>6. e # Blank
  BY <1>1, <1>2, <1>5, StampOrder
<1>7. \A o \in OpsOf(n, r) : e = o.hlc => o = w
  BY <1>1, <1>5
<1>8. CASE row[n][r] # {}
  <2>1. PICK o \in OpsOf(n, r) : o.kind = "insert" /\ row[n][r] = {o.hlc}
    BY <1>5, <1>6, <1>8 DEF RowAgrees, Worded, Word
  <2>2. o = w
    BY <1>5, <1>7, <1>8, <2>1 DEF Word
  <2> QED
    BY <2>1, <2>2
<1>9. CASE row[n][r] = {}
  <2>1. PICK o \in OpsOf(n, r) : o.kind = "delete" /\ tomb[n][r] = {o.hlc}
    BY <1>5, <1>9 DEF RowAgrees, Worded, Word
  <2>2. o = w
    BY <1>5, <1>7, <1>9, <2>1 DEF Word
  <2> QED
    BY <1>9, <2>1, <2>2
<1> QED
  BY <1>8, <1>9

\* Rows follow their logs: whatever order operations arrive in, through
\* whichever relay and however often, and whatever sessions break and brains
\* restart in between, a row nobody is working on is what the newest operation
\* of its log says, unless a write of it failed halfway, two writers overlapped
\* on it, or a delete of it was stamped by a clock that had been set back.
THEOREM RowsFollowTheirLogs == Spec => []LastWriterWinsUndisturbed
<1>1. Init => RowsAgree
  <2> SUFFICES ASSUME Init, NEW n \in Node, NEW r \in Row
               PROVE  RowAgrees(n, r)
    BY DEF RowsAgree
  <2>1. OpsOf(n, r) = {} /\ task[n][r] = NoTask
    BY DEF Init, OpsOf
  <2>2. row[n][r] = {} /\ tomb[n][r] = {}
    BY DEF Init
  <2>3. \A k \in JobKey : Hand(n, k, r) = {}
    BY DEF Init, Hand, NoJob
  <2> QED
    BY <2>1, <2>2, <2>3
    DEF RowAgrees, Worded, Blanked, Heard, Prevails, NoTask
<1>2. Book /\ RowsAgree /\ [Next]_vars => RowsAgree'
  BY RowsAgreeStep
<1>3. Book /\ RowsAgree => LastWriterWinsUndisturbed
  BY AgreedIsSettled DEF RowsAgree, LastWriterWinsUndisturbed
<1> QED
  BY <1>1, <1>2, <1>3, BookInvariant, PTL DEF Spec

------------------------------------------------------------------------------
(* Watermarks. *)

\* An operation is in the log of the brain that wrote it, wherever else.
Rooted == \A n \in Node : \A op \in wal[n] : op \in wal[op.origin]

\* What a brain wrote is above the mark of a clock that was never read.
Ticked(op) == MarkLess(ClockAtBoot, op.hlc)

AfterBoot ==
    \A n \in Node :
        /\ pt[n] >= 1
        /\ \A op \in wal[n] : Ticked(op)
        /\ \A r \in Row : \A op \in task[n][r].op : Ticked(op)

\* What a brain has of others, or was passed over with.
Accounted(n) == wal[n] \cup passed[n]

OwnOps(o) == {op \in wal[o] : op.origin = o}

\* Two operations of a brain whose marks do not tell them apart were logged out
\* of order, which passed everybody over.
TiesPassed ==
    \A o \in Node : \A p, q \in OwnOps(o) :
        \/ p = q \/ MarkLess(p.hlc, q.hlc) \/ MarkLess(q.hlc, p.hlc)
        \/ \A n \in Node : p \in passed[n] /\ q \in passed[n]

\* The operations of op's brain that a watermark at op covers.
Owed(op) == {p \in OwnOps(op.origin) : ~MarkLess(op.hlc, p.hlc)}

\* A log has no gaps but those it was passed over with.
GapFree ==
    \A n \in Node : \A op \in wal[n] :
        op.origin # n => Owed(op) \subseteq Accounted(n)

\* A watermark is the mark of something in the log.
Backed(n, v) ==
    \A o \in Node :
        \/ v[o] = ClockAtBoot
        \/ \E op \in wal[n] : op.origin = o /\ v[o] = Mark(op.hlc)

ClocksBacked ==
    /\ \A n \in Node : Backed(n, vc[n])
    /\ \A d \in Dial : Backed(d[1], sess[d].cvc) /\ Backed(d[2], sess[d].svc)

\* With S, n has what a watermark at an operation of S covers.
Full(n, S) ==
    \A op \in S : op.origin # n => Owed(op) \subseteq S \cup Accounted(n)

SessionsFull ==
    \A d \in Dial :
        /\ sess[d].pc = "uploading" => Full(d[2], sess[d].ops)
        /\ sess[d].pc = "downloading" => Full(d[1], sess[d].ops)

JobsFull == \A n \in Node, k \in JobKey : Full(n, job[n][k].todo)

Fed ==
    /\ InFlight /\ Rooted /\ AfterBoot /\ TiesPassed
    /\ GapFree /\ ClocksBacked /\ SessionsFull /\ JobsFull

\* The order of marks is strict, and a stamp's mark stands for the stamp.
LEMMA MarkFacts ==
    \A p, q \in Op :
        /\ MarkLess(p.hlc, q.hlc) => ~MarkLess(q.hlc, p.hlc)
        /\ MarkLess(Mark(p.hlc), q.hlc) <=> MarkLess(p.hlc, q.hlc)
        /\ \/ MarkLess(p.hlc, q.hlc) \/ MarkLess(q.hlc, p.hlc)
           \/ Mark(p.hlc) = Mark(q.hlc)
<1>1. \A p \in Op : p.hlc.wall \in Nat /\ p.hlc.counter \in Nat
  BY DEF Op, Stamp
<1> QED
  BY <1>1 DEF MarkLess, Mark

\* What a log holds are operations.
LEMMA LogOps ==
    ASSUME TypeOK, NEW n \in Node, NEW op \in wal[n]
    PROVE  op \in Op /\ op.origin \in Node
  BY DEF TypeOK, Op

\* A clock that is backed covers only what is accounted for.
LEMMA Covered ==
    ASSUME Fed, NEW n \in Node, NEW o \in Node, NEW v, Backed(n, v),
           NEW p \in OwnOps(o), o # n, ~MarkLess(v[o], p.hlc)
    PROVE  p \in Accounted(n)
<1>1. TypeOK /\ GapFree /\ Ticked(p) /\ p \in wal[o]
  BY DEF Fed, InFlight, AfterBoot, OwnOps
<1>2. v[o] # ClockAtBoot
  BY <1>1 DEF Ticked
<1>3. PICK h \in wal[n] : h.origin = o /\ v[o] = Mark(h.hlc)
  BY <1>2 DEF Backed
<1>4. ~MarkLess(h.hlc, p.hlc)
  BY <1>1, <1>3, LogOps, MarkFacts
<1>5. p \in Owed(h)
  BY <1>3, <1>4 DEF Owed
<1> QED
  BY <1>1, <1>3, <1>5 DEF GapFree

------------------------------------------------------------------------------
(* Who is passed over. *)

\* n is passed over with what it does not hold and a later operation passes.
LEMMA Overtaken ==
    ASSUME TypeOK, NEW n \in Node, NEW S, NEW T, PassOver(n, S, T),
           NEW q \in T, NEW p \in S, q.origin = p.origin,
           ~MarkLess(q.hlc, p.hlc)
    PROVE  p \in wal[n] \cup passed'[n]
<1>1. p \in Below(S, T)
  BY DEF Below
<1> QED
  BY <1>1 DEF PassOver, TypeOK

\* Nobody is forgotten.
LEMMA PassedGrows ==
    ASSUME TypeOK, [Next]_vars, NEW n \in Node
    PROVE  passed[n] \subseteq passed'[n]
<1>0. passed \in [Node -> SUBSET Op]
  BY DEF TypeOK
<1>1. CASE passed' = passed
  BY <1>1
<1>2. ASSUME NEW m, NEW S, NEW T, PassOver(m, S, T)
      PROVE  passed[n] \subseteq passed'[n]
  BY <1>0, <1>2 DEF PassOver
<1>3. ASSUME NEW op, PassLate(op) PROVE passed[n] \subseteq passed'[n]
  BY <1>0, <1>3 DEF PassLate
<1>4. ASSUME NEW m \in Node, LocalStep(m)
      PROVE  passed' = passed \/ \E op : PassLate(op)
  <2>1. CASE PhysicalTick(m)
    BY <2>1 DEF PhysicalTick, history
  <2>2. ASSUME NEW r \in Row, NEW scope \in AnyScope,
               SaveNote(m, r, scope) \/ SaveEpisode(m, r, scope)
        PROVE  passed' = passed \/ \E op : PassLate(op)
    BY <2>2 DEF SaveNote, SaveEpisode, history
  <2>3. ASSUME NEW r \in Row, AppendLocal(m, r) \/ AppendLocalFails(m, r)
        PROVE  passed' = passed \/ \E op : PassLate(op)
    BY <2>3 DEF AppendLocal, AppendLocalFails
  <2>4. ASSUME NEW r \in Row, WriteRow(m, r) \/ DeleteRow(m, r)
                              \/ LogDelete(m, r) \/ RecordTombstone(m, r)
        PROVE  passed' = passed
    BY <2>4 DEF WriteRow, DeleteRow, LogDelete, RecordTombstone, history
  <2> QED
    BY <1>4, <2>1, <2>2, <2>3, <2>4 DEF LocalStep
<1>5. ASSUME NEW m \in Node, ApplyStep(m)
      PROVE  passed' = passed \/ \E S, T : PassOver(m, S, T)
  <2>1. ASSUME NEW k \in JobKey, RejectDrift(m, k) \/ AppendRemoteFails(m, k)
        PROVE  \E S, T : PassOver(m, S, T)
    BY <2>1 DEF RejectDrift, AppendRemoteFails
  <2>2. ASSUME NEW k \in JobKey,
               \/ TakeRemote(m, k) \/ LookUp(m, k) \/ ReadTombstone(m, k)
               \/ Materialize(m, k) \/ MaterializeFails(m, k)
        PROVE  passed' = passed
    BY <2>2 DEF TakeRemote, LookUp, ReadTombstone, Materialize,
                MaterializeFails, history
  <2> QED
    BY <1>5, <2>1, <2>2 DEF ApplyStep
<1>6. ASSUME NEW m \in Node, OperatorStep(m)
      PROVE  passed' = passed \/ \E S, T : PassOver(m, S, T)
  BY <1>6 DEF OperatorStep, GrantScope, RevokeScope, ImportBundle, Resume,
              Crash, history
<1>7. ASSUME NEW c, NEW s, SessionStep(c, s)
      PROVE  passed' = passed \/ \E m, S, T : PassOver(m, S, T)
  <2>1. CASE \/ Request(c, s) \/ Respond(c, s) \/ Finish(c, s) \/ Drop(c, s)
    BY <2>1 DEF Request, Respond, Finish, Drop, history
  <2>2. CASE Upload(c, s) \/ Reply(c, s)
    BY <2>2 DEF Upload, Reply
  <2>3. CASE ServerApply(c, s) \/ ClientApply(c, s)
    BY <2>3 DEF ServerApply, ClientApply
  <2> QED
    BY <1>7, <2>1, <2>2, <2>3 DEF SessionStep
<1>8. CASE UNCHANGED vars
  BY <1>8 DEF vars, history
<1> QED
  BY <1>1, <1>2, <1>3, <1>4, <1>5, <1>6, <1>7, <1>8 DEF Next

\* What is accounted for stays so.
LEMMA AccountGrows ==
    ASSUME TypeOK, [Next]_vars, NEW n \in Node
    PROVE  wal[n] \subseteq wal'[n] /\ Accounted(n) \subseteq Accounted(n)'
  BY LinksGrow, PassedGrows DEF Accounted

\* What a brain wrote stays in its log, wherever it went.
LEMMA RootedStep ==
    ASSUME InFlight, Rooted, [Next]_vars
    PROVE  Rooted'
<1> SUFFICES ASSUME NEW n \in Node, NEW op \in wal'[n]
             PROVE  op \in wal'[op.origin]
  BY DEF Rooted
<1>0. TypeOK
  BY DEF InFlight
<1>1. CASE op \in wal[n]
  BY <1>0, <1>1, LogOps, LinksGrow DEF Rooted
<1>2. CASE op \notin wal[n]
  <2>1. \A r \in Row, scope \in AnyScope : Mint(n, "insert", r, scope).origin = n
    BY DEF Mint
  <2>2. \A r \in Row : \A p \in task[n][r].op : p.origin = n
    BY DEF InFlight, TasksAreOwn
  <2>3. ASSUME NEW k \in JobKey, op \in Oldest(job[n][k].todo)
        PROVE  op \in wal'[op.origin]
    <3>1. k[2] \in Node /\ op \in wal[k[2]]
      BY <2>3 DEF InFlight, JobsAreLinked, JobKey, Oldest
    <3> QED
      BY <1>0, <3>1, LogOps, LinksGrow DEF Rooted
  <2> QED
    BY <1>0, <1>2, <2>1, <2>2, <2>3, LogGains
<1> QED
  BY <1>1, <1>2

\* A brain's own operation that is new to its log comes from a local write,
\* which passes everybody over if it is late.
LEMMA OwnGains ==
    ASSUME InFlight, Rooted, [Next]_vars, NEW o \in Node, NEW p \in OwnOps(o)',
           p \notin OwnOps(o)
    PROVE  /\ p \in Op /\ PassLate(p)
           /\ \A q \in OwnOps(o)' : q = p \/ q \in OwnOps(o)
<1>0. /\ TypeOK /\ TypeOK' /\ wal \in [Node -> SUBSET Op]
      /\ p \in wal'[o] /\ p \notin wal[o] /\ p.origin = o
  BY TypeStep DEF InFlight, TypeOK, OwnOps
<1>1. p \in Op
  BY <1>0 DEF TypeOK
<1>2. wal' # wal
  BY <1>0
<1>3. \A m \in Node : \A x : Append(m, x) =>
         m = o /\ x = p /\ \A q \in wal'[o] : q = p \/ q \in wal[o]
  BY <1>0 DEF Append
<1>4. ASSUME NEW m \in Node, LocalStep(m)
      PROVE  \E x : Append(m, x) /\ PassLate(x)
  <2>1. ~PhysicalTick(m)
    BY <1>2 DEF PhysicalTick
  <2>2. ASSUME NEW r \in Row, NEW scope \in AnyScope,
               SaveNote(m, r, scope) \/ SaveEpisode(m, r, scope)
        PROVE  \E x : Append(m, x) /\ PassLate(x)
    BY <1>2, <2>2 DEF SaveNote, SaveEpisode, LocalAppendFails
  <2>3. ASSUME NEW r \in Row, AppendLocal(m, r) \/ AppendLocalFails(m, r)
        PROVE  \E x : Append(m, x) /\ PassLate(x)
    BY <1>2, <2>3 DEF AppendLocal, AppendLocalFails, LocalAppendFails
  <2>4. ASSUME NEW r \in Row
        PROVE  /\ ~WriteRow(m, r) /\ ~DeleteRow(m, r) /\ ~LogDelete(m, r)
               /\ ~RecordTombstone(m, r)
    BY <1>2 DEF WriteRow, DeleteRow, LogDelete, RecordTombstone
  <2> QED
    BY <1>4, <2>1, <2>2, <2>3, <2>4 DEF LocalStep
<1>5. ASSUME NEW m \in Node, ApplyStep(m) PROVE FALSE
  <2>1. PICK k \in JobKey : TakeRemote(m, k)
    BY <1>2, <1>5, ApplyFrame
  <2>2. PICK x \in Oldest(job[m][k].todo) : Append(m, x)
    BY <2>1 DEF TakeRemote
  <2>3. m = o /\ x = p
    BY <1>3, <2>2
  <2>4. k[2] \in Node /\ p \in wal[k[2]]
    BY <2>2, <2>3 DEF InFlight, JobsAreLinked, JobKey, Oldest
  <2> QED
    BY <1>0, <2>4 DEF Rooted
<1>6. ~UNCHANGED vars /\ \A d \in Dial : ~SessionStep(d[1], d[2])
  BY <1>2, SessionFrame DEF vars
<1>7. \A m \in Node : ~OperatorStep(m)
  BY <1>2, OperatorFrame
<1>8. \E m \in Node : \E x : Append(m, x) /\ PassLate(x)
  BY <1>4, <1>5, <1>6, <1>7 DEF Next
<1> QED
  BY <1>1, <1>3, <1>8 DEF OwnOps

\* One that is not above another is late: everybody is passed over with it,
\* and with the other if their marks do not tell them apart.
LEMMA LateIsPassed ==
    ASSUME TypeOK, NEW o \in Node, NEW q \in OwnOps(o), NEW p \in Op,
           p.origin = o, PassLate(p), ~MarkLess(q.hlc, p.hlc), NEW n \in Node
    PROVE  p \in passed'[n] /\ (Mark(q.hlc) = Mark(p.hlc) => q \in passed'[n])
<1> DEFINE tied == {x \in OwnOps(o) : Mark(x.hlc) = Mark(p.hlc)}
<1>1. passed' = [m \in Node |-> passed[m] \cup {p} \cup tied]
  BY DEF PassLate, OwnOps
<1> QED
  BY <1>1

LEMMA TiesPassedStep ==
    ASSUME InFlight, Rooted, TiesPassed, [Next]_vars
    PROVE  TiesPassed'
<1>0. TypeOK
  BY DEF InFlight
<1>1. \A o \in Node : OwnOps(o) \subseteq Op
  BY <1>0, LogOps DEF OwnOps
<1>2. ASSUME NEW o \in Node, NEW p \in OwnOps(o)', NEW q \in OwnOps(o),
             p \notin OwnOps(o)
      PROVE  \/ MarkLess(p.hlc, q.hlc) \/ MarkLess(q.hlc, p.hlc)
             \/ \A n \in Node : p \in passed'[n] /\ q \in passed'[n]
  <2>1. p \in Op /\ PassLate(p) /\ p.origin = o /\ q \in Op
    BY <1>1, <1>2, OwnGains DEF OwnOps
  <2>2. CASE Mark(p.hlc) = Mark(q.hlc) /\ ~MarkLess(q.hlc, p.hlc)
    BY <1>0, <2>1, <2>2, LateIsPassed
  <2> QED
    BY <2>1, <2>2, MarkFacts
<1> SUFFICES ASSUME NEW o \in Node, NEW p \in OwnOps(o)', NEW q \in OwnOps(o)'
             PROVE  \/ p = q
                    \/ MarkLess(p.hlc, q.hlc) \/ MarkLess(q.hlc, p.hlc)
                    \/ \A n \in Node : p \in passed'[n] /\ q \in passed'[n]
  BY DEF TiesPassed
<1>3. CASE p \in OwnOps(o) /\ q \in OwnOps(o)
  BY <1>0, <1>3, PassedGrows DEF TiesPassed
<1>4. CASE p \notin OwnOps(o)
  <2>1. q = p \/ q \in OwnOps(o)
    BY <1>4, OwnGains
  <2> QED
    BY <1>2, <1>4, <2>1
<1>5. CASE q \notin OwnOps(o)
  <2>1. q = p \/ p \in OwnOps(o)
    BY <1>5, OwnGains
  <2> QED
    BY <1>2, <1>5, <2>1
<1> QED
  BY <1>3, <1>4, <1>5

\* A watermark at an operation that somebody holds covers no more after a step
\* than before, but for what everybody is passed over with.
LEMMA OwedStays ==
    ASSUME InFlight, Rooted, [Next]_vars, NEW n \in Node, NEW m \in Node,
           NEW op \in wal[m]
    PROVE  Owed(op)' \subseteq Owed(op) \cup passed'[n]
<1> DEFINE o == op.origin
<1> SUFFICES ASSUME NEW p \in Owed(op)', p \notin Owed(op)
             PROVE  p \in passed'[n]
  OBVIOUS
<1>1. TypeOK /\ o \in Node /\ op \in OwnOps(o)
  BY LogOps DEF InFlight, Rooted, OwnOps
<1>2. p \in OwnOps(o)' /\ ~MarkLess(op.hlc, p.hlc)
  BY DEF Owed, OwnOps
<1>3. p \notin OwnOps(o)
  BY <1>2 DEF Owed
<1>4. p \in Op /\ PassLate(p) /\ p.origin = o
  BY <1>1, <1>2, <1>3, OwnGains DEF OwnOps
<1> QED
  BY <1>1, <1>2, <1>4, LateIsPassed

\* What covers it before the step therefore covers it after.
LEMMA CoverStays ==
    ASSUME InFlight, Rooted, [Next]_vars, NEW n \in Node, NEW m \in Node,
           NEW op \in wal[m], NEW S, Owed(op) \subseteq S \cup Accounted(n)'
    PROVE  Owed(op)' \subseteq S \cup Accounted(n)'
  BY OwedStays DEF Accounted

------------------------------------------------------------------------------
(* The watermarks after a step. *)

\* A clock that was read is above a clock at boot.
LEMMA MintTicked ==
    ASSUME TypeOK, AfterBoot, NEW n \in Node, NEW kind, NEW r, NEW scope
    PROVE  Ticked(Mint(n, kind, r, scope))
<1>1. clock[n] \in Clock /\ pt[n] \in Nat /\ pt[n] >= 1
  BY DEF TypeOK, AfterBoot
<1>2. \A c \in Clock : LET d == TickLocal(c, pt[n]) IN d.wall >= 1
  BY <1>1 DEF TickLocal, Clock
<1>3. Stabilize(clock[n], pt[n]) \in Clock
  BY <1>1 DEF Stabilize, Clock
<1>4. Now(clock[n], pt[n]).wall >= 1 /\ Now(clock[n], pt[n]) \in Clock
  BY <1>2, <1>3, ClockSteps DEF Now
<1> QED
  BY <1>4 DEF Ticked, MarkLess, ClockAtBoot, Mint, StampOf, Clock

\* So every stamp, in a log or in hand, is above a clock at boot.
LEMMA AfterBootStep ==
    ASSUME InFlight, AfterBoot, [Next]_vars
    PROVE  AfterBoot'
<1> SUFFICES ASSUME NEW n \in Node
             PROVE  /\ pt'[n] >= 1
                    /\ \A op \in wal'[n] : Ticked(op)
                    /\ \A r \in Row : \A op \in task'[n][r].op : Ticked(op)
  BY DEF AfterBoot, Ticked
<1>0. TypeOK
  BY DEF InFlight
<1>1. pt'[n] >= 1
  BY <1>0, TimeAdvances DEF AfterBoot
<1>2. ASSUME NEW op \in wal'[n], op \notin wal[n] PROVE Ticked(op)
  <2>1. ASSUME NEW k \in JobKey, op \in Oldest(job[n][k].todo)
        PROVE  Ticked(op)
    BY <2>1 DEF InFlight, JobsAreLinked, JobKey, Oldest, AfterBoot
  <2>2. \A r \in Row : \A p \in task[n][r].op : Ticked(p)
    BY DEF AfterBoot
  <2> QED
    BY <1>0, <1>2, <2>1, <2>2, LogGains, MintTicked
<1>3. ASSUME NEW r \in Row, NEW op \in task'[n][r].op, op \notin task[n][r].op
      PROVE  Ticked(op)
  BY <1>0, <1>3, TaskGains, MintTicked
<1> QED
  BY <1>1, <1>2, <1>3 DEF AfterBoot

\* A log gains no gap: what comes in from a batch is its oldest.
LEMMA GapFreeStep ==
    ASSUME Fed, [Next]_vars
    PROVE  GapFree'
<1> SUFFICES ASSUME NEW n \in Node, NEW op \in wal'[n], op.origin # n
             PROVE  Owed(op)' \subseteq Accounted(n)'
  BY DEF GapFree
<1>0. InFlight /\ TypeOK /\ Rooted
  BY DEF Fed, InFlight
<1>1. CASE op \in wal[n]
  <2>1. Owed(op) \subseteq {} \cup Accounted(n)'
    BY <1>0, <1>1, AccountGrows DEF Fed, GapFree
  <2> QED
    BY <1>0, <1>1, <2>1, CoverStays
<1>2. CASE op \notin wal[n]
  <2>1. PICK k \in JobKey : op \in Oldest(job[n][k].todo)
    <3>1. \A r \in Row, s \in AnyScope : Mint(n, "insert", r, s).origin = n
      BY DEF Mint
    <3>2. \A r \in Row : \A x \in task[n][r].op : x.origin = n
      BY <1>0 DEF InFlight, TasksAreOwn
    <3> QED
      BY <1>0, <1>2, <3>1, <3>2, LogGains
  <2>2. op \in wal[k[2]] /\ k[2] \in Node
    BY <1>0, <2>1 DEF InFlight, JobsAreLinked, JobKey, Oldest
  <2>3. op.origin \in Node /\ op \in OwnOps(op.origin)
    BY <1>0, <2>2, LogOps DEF Rooted, OwnOps
  <2>4. ASSUME NEW p \in Owed(op) PROVE p \in Accounted(n)'
    <3>1. p \in job[n][k].todo \cup Accounted(n)
      BY <2>1 DEF Fed, JobsFull, Full, Oldest
    <3>2. CASE p \in job[n][k].todo
      <4>1. p \in OwnOps(op.origin)
            /\ ~MarkLess(op.hlc, p.hlc) /\ ~MarkLess(p.hlc, op.hlc)
        BY <2>1, <3>2 DEF Owed, Oldest
      <4>2. p = op \/ p \in passed[n]
        BY <2>3, <4>1 DEF Fed, TiesPassed
      <4> QED
        BY <1>0, <4>2, AccountGrows DEF Accounted
    <3> QED
      BY <1>0, <3>1, <3>2, AccountGrows
  <2>5. Owed(op) \subseteq {} \cup Accounted(n)'
    BY <2>4
  <2> QED
    BY <1>0, <2>2, <2>5, CoverStays
<1> QED
  BY <1>1, <1>2

\* A clock that is backed stays backed.
LEMMA BackedStays ==
    ASSUME TypeOK, [Next]_vars, NEW n \in Node, NEW v, Backed(n, v)
    PROVE  \A o \in Node :
              \/ v[o] = ClockAtBoot
              \/ \E op \in wal'[n] : op.origin = o /\ v[o] = Mark(op.hlc)
  BY LinksGrow DEF Backed

\* How a step changes a vector clock: a restart forgets it, an append takes
\* its operation into account.
LEMMA ClockGains ==
    ASSUME TypeOK, [Next]_vars, NEW n \in Node
    PROVE  \/ vc'[n] = vc[n]
           \/ vc'[n] = EmptyVC
           \/ \E op \in wal'[n] :
                 vc'[n] = [vc[n] EXCEPT ![op.origin] = Later(@, Mark(op.hlc))]
<1> DEFINE Goal == \/ vc'[n] = vc[n]
                   \/ vc'[n] = EmptyVC
                   \/ \E op \in wal'[n] :
                         vc'[n] = [vc[n] EXCEPT ![op.origin] =
                                     Later(@, Mark(op.hlc))]
<1>0. vc \in [Node -> VectorClock] /\ wal \in [Node -> SUBSET Op]
  BY DEF TypeOK
<1>1. CASE vc' = vc
  BY <1>1
<1>2. ASSUME NEW m \in Node, NEW op, Append(m, op) PROVE Goal
  <2> DEFINE v == [vc[m] EXCEPT ![op.origin] = Later(@, Mark(op.hlc))]
  <2>1. vc' = [vc EXCEPT ![m] = v] /\ wal' = [wal EXCEPT ![m] = @ \cup {op}]
    BY <1>2 DEF Append
  <2>2. CASE m = n
    <3>1. op \in wal'[n]
      BY <1>0, <2>1, <2>2
    <3>2. vc'[n] = v
      <4> HIDE DEF v
      <4> QED
        BY <1>0, <2>1, <2>2
    <3> QED
      BY <2>2, <3>1, <3>2
  <2>3. CASE m # n
    <3> HIDE DEF v
    <3>1. vc'[n] = vc[n]
      BY <1>0, <2>1, <2>3
    <3> QED
      BY <3>1
  <2> QED
    BY <2>2, <2>3
<1>3. ASSUME NEW m \in Node, Crash(m) PROVE Goal
  BY <1>0, <1>3 DEF Crash
<1>4. ASSUME NEW m \in Node, LocalStep(m)
      PROVE  vc' = vc \/ \E op : Append(m, op)
  BY <1>4 DEF LocalStep, PhysicalTick, SaveNote, SaveEpisode, AppendLocal,
              AppendLocalFails, LocalAppendFails, WriteRow, DeleteRow,
              LogDelete, RecordTombstone
<1>5. ASSUME NEW m \in Node, ApplyStep(m)
      PROVE  vc' = vc \/ \E op : Append(m, op)
  BY <1>5, ApplyFrame DEF TakeRemote
<1>6. ASSUME NEW m \in Node, OperatorStep(m)
      PROVE  vc' = vc \/ Crash(m)
  BY <1>6 DEF OperatorStep, GrantScope, RevokeScope, ImportBundle, Resume
<1>7. ASSUME NEW d \in Dial, SessionStep(d[1], d[2])
      PROVE  vc' = vc
  BY <1>7, SessionFrame
<1> HIDE DEF Goal
<1>8. vc' = vc => Goal
  BY <1>1 DEF Goal
<1>9. Goal
  BY <1>2, <1>3, <1>4, <1>5, <1>6, <1>7, <1>8 DEF Next, vars
<1> QED
  BY <1>9 DEF Goal

\* What an exchange remembers of the vector clocks is read from them.
LEMMA SessionClocks ==
    ASSUME TypeOK, [Next]_vars, NEW d \in Dial
    PROVE  /\ sess'[d].cvc \in {sess[d].cvc, vc[d[1]], EmptyVC}
           /\ sess'[d].svc \in {sess[d].svc, vc[d[2]], EmptyVC}
<1> DEFINE Goal == /\ sess'[d].cvc \in {sess[d].cvc, vc[d[1]], EmptyVC}
                   /\ sess'[d].svc \in {sess[d].svc, vc[d[2]], EmptyVC}
<1>0. sess \in [Dial -> Session]
  BY DEF TypeOK
<1>e. /\ NoSession.cvc = EmptyVC /\ NoSession.svc = EmptyVC
      /\ Broken.cvc = EmptyVC /\ Broken.svc = EmptyVC
  BY DEF NoSession, Broken
<1>1. CASE sess'[d] = sess[d]
  BY <1>1
<1>2. ASSUME NEW m \in Node, LocalStep(m) \/ ApplyStep(m)
      PROVE  sess' = sess
  BY <1>2, LocalFrame, ApplyFrame
<1>3. ASSUME NEW m \in Node, OperatorStep(m) PROVE Goal
  <2>1. CASE Crash(m)
    <3>1. sess'[d] = sess[d] \/ sess'[d] = NoSession \/ sess'[d] = Broken
      BY <1>0, <2>1 DEF Crash
    <3>2. sess'[d] = NoSession \/ sess'[d] = Broken => Goal
      BY <1>e
    <3>3. sess'[d] = sess[d] => Goal
      BY <1>1
    <3> HIDE DEF Goal
    <3> QED
      BY <3>1, <3>2, <3>3
  <2>2. sess' = sess \/ Crash(m)
    BY <1>3 DEF OperatorStep, GrantScope, RevokeScope, ImportBundle, Resume,
                exchange
  <2> QED
    BY <1>1, <2>1, <2>2
<1>4. ASSUME NEW e \in Dial, SessionStep(e[1], e[2]) PROVE Goal
  <2>0. e = <<e[1], e[2]>> /\ sess[e] \in Session
    BY <1>0, DialAssumption
  <2>1. CASE e # d
    <3>1. CASE Request(e[1], e[2]) \/ Finish(e[1], e[2]) \/ Drop(e[1], e[2])
      BY <1>0, <2>0, <2>1, <3>1 DEF Request, Finish, Drop
    <3>2. CASE Respond(e[1], e[2]) \/ Upload(e[1], e[2]) \/ Reply(e[1], e[2])
      BY <1>0, <2>0, <2>1, <3>2 DEF Respond, Upload, Reply
    <3>3. CASE ServerApply(e[1], e[2]) \/ ClientApply(e[1], e[2])
      BY <1>0, <2>0, <2>1, <3>3 DEF ServerApply, ClientApply
    <3> QED
      BY <1>4, <3>1, <3>2, <3>3 DEF SessionStep
  <2>3. CASE e = d
    <3>1. \/ sess'[d] = [NoSession EXCEPT !.pc = "requested", !.cvc = vc[d[1]]]
          \/ sess'[d] = [sess[d] EXCEPT !.pc = "responded", !.svc = vc[d[2]]]
          \/ \E S : sess'[d] = [sess[d] EXCEPT !.pc = "uploading",
                                               !.svc = EmptyVC, !.ops = S]
          \/ \E S : sess'[d] = [sess[d] EXCEPT !.pc = "downloading",
                                               !.cvc = EmptyVC, !.ops = S]
          \/ \E p : sess'[d] = [sess[d] EXCEPT !.pc = p, !.ops = {}]
          \/ sess'[d] = NoSession \/ sess'[d] = Broken
      <4>1. CASE Request(d[1], d[2])
        BY <1>0, <2>0, <2>3, <4>1 DEF Request
      <4>2. CASE Respond(d[1], d[2])
        <5>1. sess' = [sess EXCEPT ![d] = [sess[d] EXCEPT !.pc = "responded",
                                                      !.svc = vc[d[2]]]]
          BY <2>0, <2>3, <4>2 DEF Respond
        <5> QED
          BY <1>0, <5>1
      <4>3. CASE Upload(d[1], d[2])
        <5>1. \E S : sess' = [sess EXCEPT ![d] =
                 [sess[d] EXCEPT !.pc = "uploading", !.svc = EmptyVC, !.ops = S]]
          BY <2>0, <2>3, <4>3 DEF Upload
        <5> QED
          BY <1>0, <5>1
      <4>4. CASE Reply(d[1], d[2])
        <5>1. \E S : sess' = [sess EXCEPT ![d] =
                 [sess[d] EXCEPT !.pc = "downloading", !.cvc = EmptyVC, !.ops = S]]
          BY <2>0, <2>3, <4>4 DEF Reply
        <5> QED
          BY <1>0, <5>1
      <4>5. CASE ServerApply(d[1], d[2]) \/ ClientApply(d[1], d[2])
        <5>1. \E p \in {"applying", "finishing"} :
                 sess' = [sess EXCEPT ![d] = [sess[d] EXCEPT !.pc = p, !.ops = {}]]
          <6>1. CASE ServerApply(d[1], d[2])
            <7>1. sess' = [sess EXCEPT ![d] =
                             [sess[d] EXCEPT !.pc = "applying", !.ops = {}]]
              BY <2>0, <2>3, <6>1 DEF ServerApply
            <7> QED
              BY <7>1
          <6>2. CASE ClientApply(d[1], d[2])
            <7>1. sess' = [sess EXCEPT ![d] =
                             [sess[d] EXCEPT !.pc = "finishing", !.ops = {}]]
              BY <2>0, <2>3, <6>2 DEF ClientApply
            <7> QED
              BY <7>1
          <6> QED
            BY <4>5, <6>1, <6>2
        <5> QED
          BY <1>0, <5>1
      <4>6. CASE Finish(d[1], d[2]) \/ Drop(d[1], d[2])
        BY <1>0, <2>0, <2>3, <4>6 DEF Finish, Drop
      <4> QED
        BY <1>4, <2>3, <4>1, <4>2, <4>3, <4>4, <4>5, <4>6 DEF SessionStep
    <3>2. sess[d] \in Session
      BY <1>0
    <3>3. CASE sess'[d] = [NoSession EXCEPT !.pc = "requested", !.cvc = vc[d[1]]]
      BY <3>3 DEF NoSession
    <3>4. CASE sess'[d] = [sess[d] EXCEPT !.pc = "responded", !.svc = vc[d[2]]]
      BY <3>2, <3>4 DEF Session
    <3>5. ASSUME NEW S, sess'[d] = [sess[d] EXCEPT !.pc = "uploading",
                                                   !.svc = EmptyVC, !.ops = S]
          PROVE  Goal
      BY <3>2, <3>5 DEF Session
    <3>6. ASSUME NEW S, sess'[d] = [sess[d] EXCEPT !.pc = "downloading",
                                                   !.cvc = EmptyVC, !.ops = S]
          PROVE  Goal
      BY <3>2, <3>6 DEF Session
    <3>7. ASSUME NEW p, sess'[d] = [sess[d] EXCEPT !.pc = p, !.ops = {}]
          PROVE  Goal
      BY <3>2, <3>7 DEF Session
    <3>8. sess'[d] = NoSession \/ sess'[d] = Broken => Goal
      BY <1>e
    <3> HIDE DEF Goal
    <3> QED
      BY <3>1, <3>3, <3>4, <3>5, <3>6, <3>7, <3>8
  <2> QED
    BY <2>1, <2>3
<1> HIDE DEF Goal
<1>5. sess' = sess => Goal
  BY <1>1 DEF Goal
<1>6. Goal
  BY <1>2, <1>3, <1>4, <1>5 DEF Next, vars, exchange
<1> QED
  BY <1>6 DEF Goal

\* Vector clocks, and the copies that sessions carry, stay backed by logs.
LEMMA ClocksBackedStep ==
    ASSUME TypeOK, ClocksBacked, [Next]_vars
    PROVE  ClocksBacked'
<1>1. \A n \in Node : Backed(n, EmptyVC)
  BY DEF Backed, EmptyVC
<1>2. ASSUME NEW n \in Node PROVE Backed(n, vc[n])'
  <2>1. Backed(n, vc[n])
    BY DEF ClocksBacked
  <2>2. CASE vc'[n] = vc[n] \/ vc'[n] = EmptyVC
    BY <1>1, <2>1, <2>2, BackedStays DEF Backed
  <2>3. ASSUME NEW op \in wal'[n],
               vc'[n] = [vc[n] EXCEPT ![op.origin] = Later(@, Mark(op.hlc))]
        PROVE  Backed(n, vc[n])'
    <3>1. vc[n] \in VectorClock
      BY DEF TypeOK
    <3>2. \A o \in Node :
             \/ vc'[n][o] = vc[n][o]
             \/ o = op.origin /\ vc'[n][o] = Mark(op.hlc)
      BY <2>3, <3>1 DEF VectorClock, Later
    <3>3. \A o \in Node :
             \/ vc[n][o] = ClockAtBoot
             \/ \E p \in wal'[n] : p.origin = o /\ vc[n][o] = Mark(p.hlc)
      BY <2>1, BackedStays
    <3> QED
      BY <3>2, <3>3 DEF Backed
  <2> QED
    BY <2>2, <2>3, ClockGains
<1>3. ASSUME NEW d \in Dial
      PROVE  Backed(d[1], sess[d].cvc)' /\ Backed(d[2], sess[d].svc)'
  <2>0. d[1] \in Node /\ d[2] \in Node
    BY DialAssumption
  <2>1. /\ Backed(d[1], sess[d].cvc) /\ Backed(d[1], vc[d[1]])
        /\ Backed(d[2], sess[d].svc) /\ Backed(d[2], vc[d[2]])
    BY <2>0 DEF ClocksBacked
  <2>2. Backed(d[1], sess'[d].cvc) /\ Backed(d[2], sess'[d].svc)
    BY <1>1, <2>0, <2>1, SessionClocks
  <2> DEFINE x == sess'[d].cvc
             y == sess'[d].svc
  <2>3. /\ \A o \in Node :
              \/ x[o] = ClockAtBoot
              \/ \E op \in wal'[d[1]] : op.origin = o /\ x[o] = Mark(op.hlc)
        /\ \A o \in Node :
              \/ y[o] = ClockAtBoot
              \/ \E op \in wal'[d[2]] : op.origin = o /\ y[o] = Mark(op.hlc)
    <3>1. Backed(d[1], x) /\ Backed(d[2], y)
      BY <2>2
    <3> HIDE DEF x, y
    <3> QED
      BY <2>0, <3>1, BackedStays
  <2> QED
    BY <2>3 DEF Backed
<1> QED
  BY <1>2, <1>3 DEF ClocksBacked

------------------------------------------------------------------------------
(* What is on its way after a step. *)

\* A set of operations that somebody holds stays full.
LEMMA FullStays ==
    ASSUME InFlight, Rooted, [Next]_vars, NEW n \in Node, NEW m \in Node,
           NEW S \in SUBSET wal[m],
           \A op \in S : op.origin # n => Owed(op) \subseteq S \cup Accounted(n)'
    PROVE  \A op \in S : op.origin # n => Owed(op)' \subseteq S \cup Accounted(n)'
  BY CoverStays

\* A change set cut at a backed clock leaves out only what its receiver has,
\* or is passed over with.
LEMMA SelectIsFull ==
    ASSUME Fed, [Next]_vars, NEW a \in Node, NEW b \in Node, NEW v,
           Backed(b, v), PassOver(b, Withheld(a, b, v), SelectFor(a, b, v)),
           NEW op \in SelectFor(a, b, v)
    PROVE  Owed(op) \subseteq SelectFor(a, b, v) \cup Accounted(b)'
<1> DEFINE o == op.origin
<1> SUFFICES ASSUME NEW p \in Owed(op)
             PROVE  p \in SelectFor(a, b, v) \cup Accounted(b)'
  OBVIOUS
<1>0. TypeOK /\ op \in wal[a] /\ o # b /\ o \in Node
  BY LogOps DEF Fed, InFlight, SelectFor, MissingAt
<1>1. p \in OwnOps(o) /\ p.origin = o /\ ~MarkLess(op.hlc, p.hlc)
  BY DEF Owed, OwnOps
<1>2. p \in wal[a] \cup passed[a]
  BY <1>0, <1>1 DEF Fed, GapFree, Accounted, OwnOps
<1>3. CASE p \in Withheld(a, b, v)
  BY <1>0, <1>1, <1>3, Overtaken, AccountGrows DEF Accounted
<1>4. CASE ~MarkLess(v[o], p.hlc)
  <2>1. p \in Accounted(b)
    BY <1>0, <1>1, <1>4, Covered
  <2> QED
    BY <1>0, <2>1, AccountGrows
<1>5. CASE p \notin Withheld(a, b, v) /\ MarkLess(v[o], p.hlc)
  <2>1. p \in wal[a] /\ p.scope \in grant[a][b] /\ p \notin Prefiltered(a, v)
    BY <1>2, <1>5 DEF Withheld, Ungranted
  <2> QED
    BY <1>0, <1>1, <1>5, <2>1 DEF SelectFor, MissingAt
<1> QED
  BY <1>3, <1>4, <1>5

\* The receiving gate leaves out only what it passes the brain over with.
LEMMA AdmitIsFull ==
    ASSUME Fed, [Next]_vars, NEW a \in Node, NEW b \in Node, NEW S,
           Full(b, S), PassOver(b, Ungranted(b, a, S), Admit(b, a, S)),
           NEW op \in Admit(b, a, S), op.origin # b
    PROVE  Owed(op) \subseteq Admit(b, a, S) \cup Accounted(b)'
<1> SUFFICES ASSUME NEW p \in Owed(op)
             PROVE  p \in Admit(b, a, S) \cup Accounted(b)'
  OBVIOUS
<1>0. TypeOK /\ p.origin = op.origin /\ ~MarkLess(op.hlc, p.hlc)
  BY DEF Fed, InFlight, Owed, OwnOps
<1>1. p \in S \cup Accounted(b)
  BY DEF Full, Admit
<1>2. CASE p \in Ungranted(b, a, S)
  BY <1>0, <1>2, Overtaken, AccountGrows DEF Accounted
<1> QED
  BY <1>0, <1>1, <1>2, AccountGrows DEF Admit, Ungranted

\* A bundle leaves out what its writer was passed over with.
LEMMA BundleIsFull ==
    ASSUME Fed, [Next]_vars, NEW a \in Node, NEW b \in Node,
           PassOver(b, passed[a] \ wal[a], wal[a]),
           NEW op \in wal[a], op.origin # b
    PROVE  Owed(op) \subseteq wal[a] \cup Accounted(b)'
<1> SUFFICES ASSUME NEW p \in Owed(op), p \notin wal[a]
             PROVE  p \in Accounted(b)'
  OBVIOUS
<1>0. TypeOK /\ p.origin = op.origin /\ ~MarkLess(op.hlc, p.hlc)
  BY DEF Fed, InFlight, Owed, OwnOps
<1>1. op.origin # a
  BY DEF Owed, OwnOps
<1>2. p \in passed[a]
  BY <1>1 DEF Fed, GapFree, Accounted
<1> QED
  BY <1>0, <1>2, Overtaken, AccountGrows DEF Accounted

\* A batch that gives up an operation passes the brain over with it.
LEMMA GivenUp ==
    ASSUME TypeOK, NEW n \in Node, NEW k \in JobKey,
           RejectDrift(n, k) \/ AppendRemoteFails(n, k)
    PROVE  \E op \in job[n][k].todo :
              /\ PassOver(n, {op}, job[n][k].todo \ {op})
              /\ job'[n][k].todo = job[n][k].todo \ {op}
<1>1. PICK op \in job[n][k].todo :
         /\ PassOver(n, {op}, job[n][k].todo \ {op})
         /\ job' = [job EXCEPT ![n][k] =
                      [job[n][k] EXCEPT !.todo = job[n][k].todo \ {op}]]
  BY DEF RejectDrift, AppendRemoteFails, Oldest
<1>2. job \in [Node -> [JobKey -> Job]] /\ job[n][k] \in Job
  BY DEF TypeOK
<1>3. job'[n][k].todo = job[n][k].todo \ {op}
  BY <1>1, <1>2 DEF Job
<1> QED
  BY <1>1, <1>3

\* How a step changes what a batch has to do: it loses an operation to the log
\* (or gives it up), or is begun.
LEMMA TodoSteps ==
    ASSUME TypeOK, [Next]_vars, NEW n \in Node, NEW k \in JobKey
    PROVE  \/ job'[n][k].todo = job[n][k].todo
           \/ job'[n][k].todo = {}
           \/ \E op \in wal'[n] : job'[n][k].todo = job[n][k].todo \ {op}
           \/ RejectDrift(n, k) \/ AppendRemoteFails(n, k)
           \/ \E d \in Dial :
                 \/ /\ n = d[2] /\ ServerApply(d[1], d[2])
                    /\ job'[n][k].todo = Admit(n, d[1], sess[d].ops)
                 \/ /\ n = d[1] /\ ClientApply(d[1], d[2])
                    /\ job'[n][k].todo = Admit(n, d[2], sess[d].ops)
           \/ \E m \in Node :
                 ImportBundle(m, n) /\ job'[n][k].todo = wal[m]
<1> DEFINE Goal == \/ job'[n][k].todo = job[n][k].todo
                   \/ job'[n][k].todo = {}
                   \/ \E op \in wal'[n] : job'[n][k].todo = job[n][k].todo \ {op}
                   \/ RejectDrift(n, k) \/ AppendRemoteFails(n, k)
                   \/ \E d \in Dial :
                         \/ /\ n = d[2] /\ ServerApply(d[1], d[2])
                            /\ job'[n][k].todo = Admit(n, d[1], sess[d].ops)
                         \/ /\ n = d[1] /\ ClientApply(d[1], d[2])
                            /\ job'[n][k].todo = Admit(n, d[2], sess[d].ops)
                   \/ \E m \in Node :
                         ImportBundle(m, n) /\ job'[n][k].todo = wal[m]
<1>0. /\ job \in [Node -> [JobKey -> Job]] /\ wal \in [Node -> SUBSET Op]
      /\ \A m \in Node, j \in JobKey : job[m][j] \in Job
  BY DEF TypeOK
<1>1. CASE job'[n][k] = job[n][k]
  BY <1>1
<1>2. ASSUME NEW m \in Node, NEW p \in Node, NEW role, NEW S,
             <<role, p>> \in JobKey,
             job' = [job EXCEPT ![m][<<role, p>>].todo = S]
      PROVE  \/ job'[n][k] = job[n][k]
             \/ m = n /\ k = <<role, p>> /\ job'[n][k].todo = S
  BY <1>0, <1>2 DEF Job
<1>3. ASSUME NEW m \in Node, LocalStep(m) PROVE job' = job
  BY <1>3, LocalFrame
<1>4. ASSUME NEW m \in Node, ApplyStep(m) PROVE Goal
  <2>1. PICK q \in JobKey :
           \/ RejectDrift(m, q) \/ TakeRemote(m, q) \/ AppendRemoteFails(m, q)
           \/ LookUp(m, q) \/ ReadTombstone(m, q)
           \/ Materialize(m, q) \/ MaterializeFails(m, q)
    BY <1>4 DEF ApplyStep
  <2>2. \E v : job' = [job EXCEPT ![m][q] = v]
    <3>1. CASE RejectDrift(m, q) \/ AppendRemoteFails(m, q)
      BY <3>1 DEF RejectDrift, AppendRemoteFails
    <3>2. CASE TakeRemote(m, q)
      BY <3>2 DEF TakeRemote
    <3>3. CASE LookUp(m, q)
      BY <3>3 DEF LookUp
    <3>4. CASE ReadTombstone(m, q)
      BY <3>4 DEF ReadTombstone
    <3>5. CASE Materialize(m, q) \/ MaterializeFails(m, q)
      BY <3>5 DEF Materialize, MaterializeFails
    <3> QED
      BY <2>1, <3>1, <3>2, <3>3, <3>4, <3>5
  <2>3. CASE m # n \/ q # k
    <3>1. job'[n][k] = job[n][k]
      BY <1>0, <2>2, <2>3
    <3> QED
      BY <3>1
  <2>4. CASE m = n /\ q = k
    <3>1. CASE TakeRemote(n, k)
      <4>1. PICK op :
               /\ wal' = [wal EXCEPT ![n] = @ \cup {op}]
               /\ job' = [job EXCEPT ![n][k] =
                            [todo |-> job[n][k].todo \ {op},
                             cur |-> {[op |-> op, pc |-> "recorded"]}]]
        BY <3>1 DEF TakeRemote, Append
      <4> DEFINE v == [todo |-> job[n][k].todo \ {op},
                       cur |-> {[op |-> op, pc |-> "recorded"]}]
      <4>2. job' = [job EXCEPT ![n][k] = v] /\ v.todo = job[n][k].todo \ {op}
        BY <4>1
      <4>3. job'[n][k].todo = job[n][k].todo \ {op}
        <5> HIDE DEF v
        <5> QED
          BY <1>0, <4>2
      <4>4. op \in wal'[n]
        BY <1>0, <4>1
      <4> QED
        BY <4>3, <4>4
    <3>2. CASE LookUp(n, k) \/ ReadTombstone(n, k)
               \/ Materialize(n, k) \/ MaterializeFails(n, k)
      <4>1. PICK v : job' = [job EXCEPT ![n][k] = [job[n][k] EXCEPT !.cur = v]]
        BY <3>2 DEF LookUp, ReadTombstone, Materialize, MaterializeFails
      <4>2. [job[n][k] EXCEPT !.cur = v].todo = job[n][k].todo
        BY <1>0 DEF Job
      <4> QED
        BY <1>0, <4>1, <4>2
    <3> QED
      BY <2>1, <2>4, <3>1, <3>2
  <2> QED
    BY <2>3, <2>4
<1>5. ASSUME NEW m \in Node, OperatorStep(m) PROVE Goal
  <2>1. CASE Crash(m)
    <3>1. job' = [job EXCEPT ![m] = [j \in JobKey |-> NoJob]]
      BY <2>1 DEF Crash
    <3>2. job'[n][k] = job[n][k] \/ job'[n][k] = NoJob
      BY <1>0, <3>1
    <3> QED
      BY <3>2 DEF NoJob
  <2>2. ASSUME NEW p \in Node, ImportBundle(p, m) PROVE Goal
    <3>1. \/ job'[n][k] = job[n][k]
          \/ m = n /\ job'[n][k].todo = wal[p]
      BY <1>2, <2>2, JobKeys DEF ImportBundle
    <3> QED
      BY <2>2, <3>1
  <2>3. job' = job \/ Crash(m) \/ \E p \in Node : ImportBundle(p, m)
    BY <1>5 DEF OperatorStep, GrantScope, RevokeScope, Resume, exchange
  <2> QED
    BY <1>1, <2>1, <2>2, <2>3
<1>6. ASSUME NEW d \in Dial, SessionStep(d[1], d[2]) PROVE Goal
  <2>1. d[1] \in Node /\ d[2] \in Node /\ d = <<d[1], d[2]>>
    BY DialAssumption
  <2>2. job' = job \/ ServerApply(d[1], d[2]) \/ ClientApply(d[1], d[2])
    BY <1>6 DEF SessionStep, Request, Respond, Upload, Reply, Finish, Drop
  <2>3. CASE ServerApply(d[1], d[2])
    <3>1. job' = [job EXCEPT ![d[2]][<<"server", d[1]>>].todo =
                    Admit(d[2], d[1], sess[d].ops)]
          /\ sess[d].pc = "uploading"
      BY <2>1, <2>3 DEF ServerApply
    <3>2. <<"server", d[1]>> \in JobKey
      BY <2>1, JobKeys
    <3>3. \/ job'[n][k] = job[n][k]
          \/ d[2] = n /\ job'[n][k].todo = Admit(d[2], d[1], sess[d].ops)
      BY <1>2, <2>1, <3>1, <3>2
    <3> QED
      BY <2>3, <3>1, <3>3
  <2>4. CASE ClientApply(d[1], d[2])
    <3>1. job' = [job EXCEPT ![d[1]][<<"client", d[2]>>].todo =
                    Admit(d[1], d[2], sess[d].ops)]
          /\ sess[d].pc = "downloading"
      BY <2>1, <2>4 DEF ClientApply
    <3>2. <<"client", d[2]>> \in JobKey
      BY <2>1, JobKeys
    <3>3. \/ job'[n][k] = job[n][k]
          \/ d[1] = n /\ job'[n][k].todo = Admit(d[1], d[2], sess[d].ops)
      BY <1>2, <2>1, <3>1, <3>2
    <3> QED
      BY <2>4, <3>1, <3>3
  <2> QED
    BY <1>1, <2>2, <2>3, <2>4
<1> HIDE DEF Goal
<1>7. job' = job => Goal
  BY <1>1 DEF Goal
<1>8. Goal
  BY <1>3, <1>4, <1>5, <1>6, <1>7 DEF Next, vars, exchange
<1> QED
  BY <1>8 DEF Goal

\* Every change set on its way leaves out only what its receiver has, or is
\* passed over with.
LEMMA SessionsFullStep ==
    ASSUME Fed, [Next]_vars
    PROVE  SessionsFull'
<1> SUFFICES ASSUME NEW d \in Dial
             PROVE  /\ sess'[d].pc = "uploading" => Full(d[2], sess[d].ops)'
                    /\ sess'[d].pc = "downloading" => Full(d[1], sess[d].ops)'
  BY DEF SessionsFull
<1>0. d[1] \in Node /\ d[2] \in Node /\ InFlight /\ TypeOK /\ Rooted
  BY DialAssumption DEF Fed, InFlight
<1>1. ASSUME NEW a \in Node, NEW b \in Node, NEW S \in SUBSET wal[a],
             sess'[d].ops = S,
             \A op \in S : op.origin # b =>
                Owed(op) \subseteq S \cup Accounted(b)'
      PROVE  Full(b, sess[d].ops)'
  BY <1>0, <1>1, FullStays DEF Full
<1>2. Backed(d[1], sess[d].cvc) /\ Backed(d[2], sess[d].svc)
  BY DEF Fed, ClocksBacked
<1>3. \A a, b \in Node : \A v : SelectFor(a, b, v) \in SUBSET wal[a]
  BY DEF SelectFor, MissingAt
<1>4. CASE sess'[d] = sess[d]
  <2>1. \A op \in sess[d].ops :
           \/ sess[d].pc = "uploading" /\ op \in wal[d[1]]
           \/ sess[d].pc = "downloading" /\ op \in wal[d[2]]
    BY <1>0 DEF InFlight, SessionsSend, SentBy
  <2>2. /\ Accounted(d[1]) \subseteq Accounted(d[1])'
        /\ Accounted(d[2]) \subseteq Accounted(d[2])'
    BY <1>0, AccountGrows
  <2>3. CASE sess[d].pc = "uploading"
    <3>1. \A op \in sess[d].ops : op.origin # d[2] =>
             Owed(op) \subseteq sess[d].ops \cup Accounted(d[2])'
      BY <2>2, <2>3 DEF Fed, SessionsFull, Full
    <3> QED
      BY <1>0, <1>1, <1>4, <2>1, <2>3, <3>1
  <2>4. CASE sess[d].pc = "downloading"
    <3>1. \A op \in sess[d].ops : op.origin # d[1] =>
             Owed(op) \subseteq sess[d].ops \cup Accounted(d[1])'
      BY <2>2, <2>4 DEF Fed, SessionsFull, Full
    <3> QED
      BY <1>0, <1>1, <1>4, <2>1, <2>4, <3>1
  <2> QED
    BY <1>4, <2>3, <2>4
<1>5. CASE sess'[d].ops = {}
  BY <1>5 DEF Full
<1>6. CASE sess'[d].pc = "responded"
  BY <1>6
<1>7. CASE /\ Upload(d[1], d[2]) /\ sess'[d].pc = "uploading"
           /\ sess'[d].ops = SelectFor(d[1], d[2], sess[d].svc)
  <2>1. PassOver(d[2], Withheld(d[1], d[2], sess[d].svc),
                 SelectFor(d[1], d[2], sess[d].svc))
    BY <1>7, DialAssumption DEF Upload
  <2>2. \A op \in sess'[d].ops : Owed(op) \subseteq sess'[d].ops \cup Accounted(d[2])'
    BY <1>0, <1>2, <1>7, <2>1, SelectIsFull
  <2> QED
    BY <1>0, <1>1, <1>3, <1>7, <2>2
<1>8. CASE /\ Reply(d[1], d[2]) /\ sess'[d].pc = "downloading"
           /\ sess'[d].ops = SelectFor(d[2], d[1], sess[d].cvc)
  <2>1. PassOver(d[1], Withheld(d[2], d[1], sess[d].cvc),
                 SelectFor(d[2], d[1], sess[d].cvc))
    BY <1>8, DialAssumption DEF Reply
  <2>2. \A op \in sess'[d].ops : Owed(op) \subseteq sess'[d].ops \cup Accounted(d[1])'
    BY <1>0, <1>2, <1>8, <2>1, SelectIsFull
  <2> QED
    BY <1>0, <1>1, <1>3, <1>8, <2>2
<1> QED
  BY <1>0, <1>4, <1>5, <1>6, <1>7, <1>8, SessionChanges

\* No batch leaves out anything else either.
LEMMA JobsFullStep ==
    ASSUME Fed, [Next]_vars
    PROVE  JobsFull'
<1> SUFFICES ASSUME NEW n \in Node, NEW k \in JobKey
             PROVE  Full(n, job[n][k].todo)'
  BY DEF JobsFull
<1> DEFINE todo == job[n][k].todo
<1>0. /\ k[2] \in Node /\ InFlight /\ TypeOK /\ Rooted
      /\ Full(n, todo) /\ todo \subseteq wal[k[2]]
  BY DEF Fed, JobsFull, InFlight, JobsAreLinked, JobKey
<1>1. ASSUME NEW m \in Node, NEW S \in SUBSET wal[m], job'[n][k].todo = S,
             \A op \in S : op.origin # n =>
                Owed(op) \subseteq S \cup Accounted(n)'
      PROVE  Full(n, job[n][k].todo)'
  BY <1>0, <1>1, FullStays DEF Full
<1>2. \A op \in todo : op.origin # n => Owed(op) \subseteq todo \cup Accounted(n)'
  BY <1>0, AccountGrows DEF Full
<1>3. CASE job'[n][k].todo = todo
  BY <1>0, <1>1, <1>2, <1>3
<1>4. CASE job'[n][k].todo = {}
  BY <1>4 DEF Full
<1>5. ASSUME NEW op \in wal'[n], job'[n][k].todo = todo \ {op}
      PROVE  Full(n, job[n][k].todo)'
  <2>1. todo \ {op} \in SUBSET wal[k[2]]
    BY <1>0
  <2>2. op \in Accounted(n)'
    BY DEF Accounted
  <2>3. \A x \in todo \ {op} : x.origin # n =>
           Owed(x) \subseteq (todo \ {op}) \cup Accounted(n)'
    BY <1>2, <2>2
  <2> QED
    BY <1>0, <1>1, <1>5, <2>1, <2>3
<1>6. CASE RejectDrift(n, k) \/ AppendRemoteFails(n, k)
  <2>1. PICK x \in todo : /\ PassOver(n, {x}, todo \ {x})
                          /\ job'[n][k].todo = todo \ {x}
    BY <1>0, <1>6, GivenUp
  <2>2. ASSUME NEW op \in todo \ {x}, op.origin # n, x \in Owed(op)
        PROVE  x \in Accounted(n)'
    <3>1. x.origin = op.origin /\ ~MarkLess(op.hlc, x.hlc)
      BY <2>2 DEF Owed, OwnOps
    <3> QED
      BY <1>0, <2>1, <2>2, <3>1, Overtaken, AccountGrows DEF Accounted
  <2>3. \A op \in todo \ {x} : op.origin # n =>
           Owed(op) \subseteq (todo \ {x}) \cup Accounted(n)'
    BY <1>2, <2>2
  <2>4. todo \ {x} \in SUBSET wal[k[2]]
    BY <1>0
  <2> QED
    BY <1>0, <1>1, <2>1, <2>3, <2>4
<1>7. ASSUME NEW d \in Dial,
             \/ /\ n = d[2] /\ ServerApply(d[1], d[2])
                /\ job'[n][k].todo = Admit(n, d[1], sess[d].ops)
             \/ /\ n = d[1] /\ ClientApply(d[1], d[2])
                /\ job'[n][k].todo = Admit(n, d[2], sess[d].ops)
      PROVE  Full(n, job[n][k].todo)'
  <2>0. d = <<d[1], d[2]>> /\ d[1] \in Node /\ d[2] \in Node
    BY DialAssumption
  <2>1. PICK a \in Node :
           /\ \/ a = d[1] /\ n = d[2] /\ sess[d].pc = "uploading"
              \/ a = d[2] /\ n = d[1] /\ sess[d].pc = "downloading"
           /\ PassOver(n, Ungranted(n, a, sess[d].ops),
                       Admit(n, a, sess[d].ops))
           /\ job'[n][k].todo = Admit(n, a, sess[d].ops)
    BY <1>7, <2>0 DEF ServerApply, ClientApply
  <2>2. Full(n, sess[d].ops)
    BY <2>1 DEF Fed, SessionsFull
  <2>3. \A op \in Admit(n, a, sess[d].ops) : op.origin # n =>
           Owed(op) \subseteq Admit(n, a, sess[d].ops) \cup Accounted(n)'
    BY <2>1, <2>2, AdmitIsFull
  <2>4. Admit(n, a, sess[d].ops) \in SUBSET wal[a]
    BY <1>0, <2>1 DEF InFlight, SessionsSend, SentBy, Admit
  <2> QED
    BY <1>1, <2>1, <2>3, <2>4
<1>8. ASSUME NEW m \in Node, ImportBundle(m, n), job'[n][k].todo = wal[m]
      PROVE  Full(n, job[n][k].todo)'
  <2>1. PassOver(n, passed[m] \ wal[m], wal[m])
    BY <1>8 DEF ImportBundle
  <2>2. \A op \in wal[m] : op.origin # n =>
           Owed(op) \subseteq wal[m] \cup Accounted(n)'
    BY <2>1, BundleIsFull
  <2> QED
    BY <1>1, <1>8, <2>2
<1> HIDE DEF todo
<1> QED
  BY <1>0, <1>3, <1>4, <1>5, <1>6, <1>7, <1>8, TodoSteps DEF todo

\* What a brain advertises covers only what it holds, or what it was passed
\* over with by an event that WatermarkAccounted names: for any number of
\* brains, any grants and relays among them, and whatever fails, is revoked,
\* breaks or restarts.
THEOREM WatermarksAreAccounted == Spec => []WatermarkAccounted
<1>1. Init => Fed
  <2> SUFFICES ASSUME Init PROVE Fed
    OBVIOUS
  <2>1. InFlight
    BY TypeInit DEF Init, InFlight, GrantsAreShared, TasksAreOwn, SessionsSend,
       JobsAreLinked, NoTask, NoSession, NoJob
  <2>2. Rooted /\ TiesPassed /\ GapFree
    BY DEF Init, Rooted, TiesPassed, OwnOps, GapFree
  <2>3. AfterBoot
    BY DEF Init, AfterBoot, NoTask
  <2>4. ClocksBacked
    <3>1. \A n \in Node : Backed(n, EmptyVC)
      BY DEF Backed, EmptyVC
    <3>2. \A d \in Dial : d[1] \in Node /\ d[2] \in Node
      BY DialAssumption
    <3> QED
      BY <3>1, <3>2 DEF Init, ClocksBacked, NoSession
  <2>5. SessionsFull /\ JobsFull
    BY DEF Init, SessionsFull, JobsFull, Full, NoSession, NoJob
  <2> QED
    BY <2>1, <2>2, <2>3, <2>4, <2>5 DEF Fed
<1>2. ASSUME Fed, [Next]_vars PROVE Fed'
  <2>1. InFlight'
    BY <1>2, TypeStep, GrantsStep, TasksStep, SessionsStep, JobsStep
    DEF Fed, InFlight
  <2>2. Rooted' /\ AfterBoot' /\ TiesPassed' /\ ClocksBacked'
    BY <1>2, RootedStep, AfterBootStep, TiesPassedStep, ClocksBackedStep
    DEF Fed, InFlight
  <2> QED
    BY <1>2, <2>1, <2>2, GapFreeStep, SessionsFullStep, JobsFullStep DEF Fed
<1>3. Fed => WatermarkAccounted
  <2> SUFFICES ASSUME Fed, NEW n \in Node, NEW o \in Node, NEW op \in wal[o],
                      op.origin = o, o # n, ~MarkLess(vc[n][o], op.hlc)
               PROVE  op \in wal[n] \cup passed[n]
    BY DEF WatermarkAccounted
  <2>1. Backed(n, vc[n]) /\ op \in OwnOps(o)
    BY DEF Fed, ClocksBacked, OwnOps
  <2> QED
    BY <2>1, Covered DEF Accounted
<1> QED
  BY <1>1, <1>2, <1>3, PTL DEF Spec
==============================================================================
