--------------------------- MODULE TaskFlow_proofs ---------------------------
(* Proofs about TaskFlow.tla, for every set of flows, every set of programs, *)
(* every duration of a sleep and any number of calls and restarts.           *)
EXTENDS TaskFlow, TLAPS

\* The runner's local variables agree with the row of its flow.
RunnerAgrees ==
    /\ runner.pc \in {"begin", "exec"} =>
          /\ runner.flow \in Flow
          /\ runner.at = current[runner.flow]
    /\ runner.pc = "begin" => status[runner.flow] = "running"
    /\ runner.pc = "exec" =>
          /\ runner.at \in DOMAIN program[runner.flow]
          /\ status[runner.flow] \in {"running", "queued", "cancelled"}

\* A flow that was not created has the rows of Init.
AbsentIsBlank ==
    \A f \in Flow : status[f] = "absent" => program[f] = <<>> /\ current[f] = 1

\* A wait that is under way and the ticks already slept make up the sleep.
WaitsAddUp ==
    \A f \in Flow : wait[f] # NoWait => wait[f] + slept[f] >= Seconds

\* The inductive invariant.
Inv == TypeOK /\ RowsAgree /\ RunnerAgrees /\ AbsentIsBlank /\ WaitsAddUp

------------------------------------------------------------------------------
(* Type correctness. *)

\* The steps of a program, and the steps that follow them.
LEMMA ProgramSteps ==
    ASSUME TypeOK, NEW f \in Flow
    PROVE  /\ program[f] \in Seq(Step)
           /\ DOMAIN program[f] = 1..Len(program[f])
           /\ \A i \in DOMAIN program[f] : program[f][i].next \subseteq Nat \ {0}
<1>1. program[f] \in Programs \cup {<<>>}
  BY DEF TypeOK
<1>2. CASE program[f] = <<>>
  <2>1. <<>> \in Seq(Step) /\ Len(<<>>) = 0
    OBVIOUS
  <2> QED
    BY <1>2, <2>1
<1>3. CASE program[f] \in Programs
  <2>1. program[f] \in Seq(Step)
    BY <1>3, ProgramsAssumption
  <2>2. ASSUME NEW i \in DOMAIN program[f]
        PROVE  program[f][i].next \subseteq Nat \ {0}
    <3>1. program[f][i] \in Step
      BY <2>1
    <3>2. 0 \notin program[f][i].next
      BY <1>3, ProgramsAssumption
    <3> QED
      BY <3>1, <3>2 DEF Step
  <2> QED
    BY <2>1, <2>2
<1> QED
  BY <1>1, <1>2, <1>3

\* Every step keeps TypeOK.
LEMMA TypeStep == TypeOK /\ RunnerAgrees /\ [Next]_vars => TypeOK'
<1> SUFFICES ASSUME TypeOK, RunnerAgrees, [Next]_vars PROVE TypeOK'
  OBVIOUS
<1> USE FlowAssumption, SecondsAssumption
    DEF TypeOK, FlowStatus, StepStatus, Settled, RunnerState, Free, Touch, NoWait, rows
<1>1. CASE UNCHANGED vars
  BY <1>1 DEF vars
<1>2. ASSUME NEW f \in Flow, Create(f) PROVE TypeOK'
  <2>1. PICK p \in Programs :
           /\ program' = [program EXCEPT ![f] = p]
           /\ step' = [step EXCEPT ![f] = [i \in DOMAIN p |-> "pending"]]
    BY <1>2 DEF Create
  <2>2. \A g \in Flow : step'[g] \in [DOMAIN program'[g] -> StepStatus]
    BY <2>1
  <2>3. step' = [g \in Flow |-> step'[g]]
    BY <2>1
  <2>4. older' \subseteq Flow \X Flow
    BY <1>2 DEF Create
  <2> QED
    BY <1>2, <2>1, <2>2, <2>3, <2>4 DEF Create
<1>3. ASSUME NEW f \in Flow, Cancel(f) PROVE TypeOK'
  BY <1>3 DEF Cancel, Called
<1>4. ASSUME NEW f \in Flow, Resume(f) PROVE TypeOK'
  <2>1. step'[f] = [i \in DOMAIN step[f] |->
                      IF step[f][i] \in {"failed", "waiting"}
                      THEN "pending" ELSE step[f][i]]
    BY <1>4 DEF Resume
  <2>2. \A g \in Flow : step'[g] \in [DOMAIN program'[g] -> StepStatus]
    BY <1>4, <2>1 DEF Resume
  <2>3. step' = [g \in Flow |-> step'[g]]
    BY <1>4 DEF Resume
  <2>4. older' \subseteq Flow \X Flow
    BY <1>4 DEF Resume
  <2> QED
    BY <1>4, <2>2, <2>3, <2>4 DEF Resume, Called
<1>5. ASSUME NEW f \in Flow, ResumeOfSettledFlow(f) PROVE TypeOK'
  BY <1>5 DEF ResumeOfSettledFlow, Called
<1>6. ASSUME NEW f \in Flow, PickFlow(f) PROVE TypeOK'
  BY <1>6 DEF PickFlow
<1>7. ASSUME NEW f \in Flow, BeginStep(f) PROVE TypeOK'
  BY <1>7 DEF BeginStep, Running
<1>8. ASSUME NEW f \in Flow, StepWaits(f) PROVE TypeOK'
  <2>1. \A g \in Flow : step'[g] \in [DOMAIN program'[g] -> StepStatus]
    BY <1>8 DEF StepWaits
  <2>2. step' = [g \in Flow |-> step'[g]]
    BY <1>8 DEF StepWaits
  <2>3. wait' \in [Flow -> 0..Seconds \cup {NoWait}]
    BY <1>8 DEF StepWaits, WaitUntil
  <2>4. current' \in [Flow -> Nat \ {0}]
    BY <1>8 DEF StepWaits, Executing, Running, RunnerAgrees
  <2>5. older' \subseteq Flow \X Flow
    BY <1>8 DEF StepWaits
  <2> QED
    BY <1>8, <2>1, <2>2, <2>3, <2>4, <2>5 DEF StepWaits
<1>9. ASSUME NEW f \in Flow, StepFails(f) PROVE TypeOK'
  BY <1>9 DEF StepFails, Executing, Running
<1>10. ASSUME NEW f \in Flow, StepCompletes(f) PROVE TypeOK'
  <2>1. PICK n \in program[f][runner.at].next :
           /\ Advance(f, n)
           /\ runner' = [pc |-> "begin", flow |-> f, at |-> n]
    BY <1>10 DEF StepCompletes
  <2>2. n \in Nat \ {0}
    BY <1>10, ProgramSteps DEF StepCompletes, Executing, Running, RunnerAgrees
  <2>3. \A g \in Flow : step'[g] \in [DOMAIN program'[g] -> StepStatus]
    BY <1>10 DEF StepCompletes
  <2>4. step' = [g \in Flow |-> step'[g]]
    BY <1>10 DEF StepCompletes
  <2>5. current' \in [Flow -> Nat \ {0}] /\ wait' \in [Flow -> 0..Seconds \cup {NoWait}]
    BY <2>1, <2>2 DEF Advance
  <2>6. older' \subseteq Flow \X Flow
    BY <1>10 DEF StepCompletes
  <2> QED
    BY <1>10, <2>1, <2>2, <2>3, <2>4, <2>5, <2>6 DEF StepCompletes
<1>11. ASSUME NEW f \in Flow, StepRaises(f) PROVE TypeOK'
  BY <1>11 DEF StepRaises
<1>12. ASSUME NEW f \in Flow, FinishFlow(f) PROVE TypeOK'
  BY <1>12 DEF FinishFlow
<1>13. CASE NothingReady
  BY <1>13 DEF NothingReady
<1>16. CASE WakeUp
  BY <1>16 DEF WakeUp
<1>17. CASE ProcessEnds
  <2>1. restarts' \in Nat /\ runner' \in RunnerState
    BY <1>17 DEF ProcessEnds
  <2>2. hung' \in BOOLEAN
    BY <1>17 DEF ProcessEnds
  <2>3. UNCHANGED <<status, program, current, step, wait, older, slept, calls>>
    BY <1>17 DEF ProcessEnds
  <2> QED
    BY <2>1, <2>2, <2>3
<1>14. CASE Start
  <2>0. Recovered \subseteq Flow
    BY DEF Recovered
  <2>1. older' \subseteq Flow \X Flow
    BY <1>14, <2>0 DEF Start
  <2> QED
    BY <1>14, <2>1 DEF Start
<1>15. CASE Tick
  BY <1>15 DEF Tick, Elapse
<1> QED
  BY <1>1, <1>2, <1>3, <1>4, <1>5, <1>6, <1>7, <1>8, <1>9, <1>10, <1>11, <1>12,
     <1>13, <1>14, <1>15, <1>16, <1>17 DEF Next, Interface, Runner, RunnerStep

------------------------------------------------------------------------------
(* The rows, the runner and the waits. *)

\* The row of a flow that a step leaves alone goes on agreeing.
LEMMA RowUntouched ==
    ASSUME NEW g \in Flow, RowAgrees(g),
           program'[g] = program[g], current'[g] = current[g],
           step'[g] = step[g], wait'[g] = wait[g], status'[g] = status[g]
    PROVE  RowAgrees(g)'
  BY DEF RowAgrees, Forward

\* The step that the runner takes up or executes has not completed, and the
\* flow of the runner is neither waiting nor over.
LEMMA RunnerRow ==
    ASSUME Inv, NEW f \in Flow, Running(f, "begin") \/ Running(f, "exec")
    PROVE  /\ runner.at = current[f] /\ runner.at \in Nat \ {0}
           /\ status[f] \in {"running", "queued", "cancelled"}
           /\ DOMAIN step[f] = DOMAIN program[f]
           /\ DOMAIN program[f] = 1..Len(program[f])
           /\ Running(f, "exec") => runner.at \in DOMAIN program[f]
  BY ProgramSteps DEF Inv, TypeOK, RunnerAgrees, Running

\* Every step keeps RowsAgree.
LEMMA RowsStep == Inv /\ [Next]_vars => RowsAgree'
<1> SUFFICES ASSUME Inv, [Next]_vars, NEW g \in Flow PROVE RowAgrees(g)'
  BY DEF RowsAgree
<1> USE DEF NoWait, rows
<1>0. RowAgrees(g) /\ TypeOK /\ RunnerAgrees /\ AbsentIsBlank
  BY DEF Inv, RowsAgree
<1>00. DOMAIN step[g] = DOMAIN program[g]
  BY <1>0 DEF TypeOK
<1>1. CASE UNCHANGED vars
  BY <1>0, <1>1, RowUntouched DEF vars
<1>2. ASSUME NEW f \in Flow, Create(f) PROVE RowAgrees(g)'
  <2>1. CASE f # g
    BY <1>0, <1>2, <2>1, RowUntouched DEF Create, TypeOK
  <2>2. CASE f = g
    <3>1. PICK p \in Programs :
             /\ program' = [program EXCEPT ![f] = p]
             /\ step' = [step EXCEPT ![f] = [i \in DOMAIN p |-> "pending"]]
      BY <1>2 DEF Create
    <3>2. program[g] = <<>> /\ current[g] = 1
      BY <1>0, <1>2, <2>2 DEF AbsentIsBlank, Create
    <3>3. wait[g] = NoWait
      <4>1. Len(program[g]) = 0
        BY <3>2
      <4> QED
        BY <1>0, <3>2, <4>1 DEF RowAgrees
    <3>4. status'[g] = "queued" /\ current'[g] = 1 /\ wait'[g] = NoWait
      BY <1>0, <1>2, <2>2, <3>2, <3>3 DEF Create, TypeOK
    <3>5. step'[g] = [i \in DOMAIN p |-> "pending"]
      BY <1>0, <2>2, <3>1 DEF TypeOK
    <3> QED
      BY <3>4, <3>5 DEF RowAgrees
  <2> QED
    BY <2>1, <2>2
<1>3. ASSUME NEW f \in Flow, Cancel(f) PROVE RowAgrees(g)'
  BY <1>0, <1>3 DEF Cancel, TypeOK, RowAgrees, Forward
<1>4. ASSUME NEW f \in Flow, Resume(f) PROVE RowAgrees(g)'
  <2>1. CASE f # g
    BY <1>0, <1>4, <2>1, RowUntouched DEF Resume, TypeOK
  <2>2. CASE f = g
    <3>1. step'[g] = [i \in DOMAIN step[g] |->
                        IF step[g][i] \in {"failed", "waiting"}
                        THEN "pending" ELSE step[g][i]]
      BY <1>0, <1>4, <2>2 DEF Resume, TypeOK
    <3>2. status'[g] = "queued" /\ wait'[g] = NoWait
      BY <1>0, <1>4, <2>2 DEF Resume, TypeOK
    <3>3. program' = program /\ current' = current
      BY <1>4 DEF Resume
    <3> QED
      BY <1>0, <3>1, <3>2, <3>3 DEF RowAgrees, Forward
  <2> QED
    BY <2>1, <2>2
<1>5. ASSUME NEW f \in Flow, ResumeOfSettledFlow(f) PROVE RowAgrees(g)'
  BY <1>0, <1>5, RowUntouched DEF ResumeOfSettledFlow
<1>6. ASSUME NEW f \in Flow, PickFlow(f) PROVE RowAgrees(g)'
  BY <1>0, <1>6 DEF PickFlow, TypeOK, RowAgrees, Forward
<1>7. ASSUME NEW f \in Flow, BeginStep(f) PROVE RowAgrees(g)'
  <2>1. CASE f # g
    BY <1>0, <1>7, <2>1, RowUntouched DEF BeginStep, TypeOK
  <2>2. CASE f = g
    <3>1. /\ runner.at = current[g] /\ runner.at \in DOMAIN step[g]
          /\ status[g] = "running"
      BY <1>0, <1>7, <2>2, RunnerRow DEF BeginStep, Running, RunnerAgrees
    <3>2. step'[g] = [step[g] EXCEPT ![current[g]] = "running"]
      BY <1>0, <1>7, <2>2, <3>1 DEF BeginStep, TypeOK
    <3>3. UNCHANGED <<status, program, current, wait>>
      BY <1>7 DEF BeginStep
    <3> QED
      BY <1>0, <3>1, <3>2, <3>3 DEF RowAgrees, Forward, TypeOK
  <2> QED
    BY <2>1, <2>2
<1>8. ASSUME NEW f \in Flow, StepWaits(f) PROVE RowAgrees(g)'
  <2>1. CASE f # g
    BY <1>0, <1>8, <2>1, RowUntouched DEF StepWaits, TypeOK
  <2>2. CASE f = g
    <3>1. /\ runner.at = current[g] /\ runner.at \in DOMAIN step[g]
          /\ runner.at <= Len(program[g])
      BY <1>8, <2>2, <1>00, RunnerRow DEF StepWaits, Executing
    <3>2. step'[g] = [step[g] EXCEPT ![current[g]] = "waiting"]
      BY <1>0, <1>8, <2>2, <3>1 DEF StepWaits, TypeOK
    <3>3. status'[g] = "waiting" /\ current'[g] = current[g] /\ program' = program
      BY <1>0, <1>8, <2>2, <3>1 DEF StepWaits, TypeOK
    <3>4. wait'[g] # NoWait /\ program[g][current[g]].kind = "sleep"
      BY <1>0, <1>8, <2>2, <3>1, SecondsAssumption
         DEF StepWaits, TypeOK, WaitUntil, KindNow
    <3> QED
      BY <1>0, <3>1, <3>2, <3>3, <3>4 DEF RowAgrees, Forward, TypeOK
  <2> QED
    BY <2>1, <2>2
<1>9. ASSUME NEW f \in Flow, StepFails(f) PROVE RowAgrees(g)'
  <2>1. CASE f # g
    BY <1>0, <1>9, <2>1, RowUntouched DEF StepFails, TypeOK
  <2>2. CASE f = g
    <3>1. runner.at = current[g] /\ runner.at \in DOMAIN step[g]
      BY <1>9, <2>2, <1>00, RunnerRow DEF StepFails, Executing
    <3>2. step'[g] = [step[g] EXCEPT ![current[g]] = "failed"]
      BY <1>0, <1>9, <2>2, <3>1 DEF StepFails, TypeOK
    <3>3. status'[g] = "failed" /\ wait'[g] = NoWait
      BY <1>0, <1>9, <2>2 DEF StepFails, TypeOK
    <3>4. UNCHANGED <<current, program>>
      BY <1>9 DEF StepFails
    <3> QED
      BY <1>0, <3>1, <3>2, <3>3, <3>4 DEF RowAgrees, Forward, TypeOK
  <2> QED
    BY <2>1, <2>2
<1>10. ASSUME NEW f \in Flow, StepCompletes(f) PROVE RowAgrees(g)'
  <2>0. PICK n \in program[f][runner.at].next : Advance(f, n)
    BY <1>10 DEF StepCompletes
  <2>1. CASE f # g
    BY <1>0, <1>10, <2>0, <2>1, RowUntouched DEF StepCompletes, Advance, TypeOK
  <2>2. CASE f = g
    <3>1. runner.at = current[g] /\ runner.at \in DOMAIN step[g] /\ runner.at \in Nat
      BY <1>10, <2>2, <1>00, RunnerRow DEF StepCompletes, Executing
    <3>2. n \in Nat \ {0} /\ DOMAIN step[g] \subseteq Nat
      BY <1>0, <1>00, <2>0, <2>2, <3>1, ProgramSteps
    <3>3. step'[g] = [step[g] EXCEPT ![current[g]] = "completed"]
      BY <1>0, <1>10, <2>2, <3>1 DEF StepCompletes, TypeOK
    <3>4. status'[g] = "running" /\ program' = program
      BY <1>0, <1>10, <2>2 DEF StepCompletes, TypeOK
    <3>5. wait'[g] = NoWait /\ current'[g] = n
      BY <1>0, <2>0, <2>2 DEF Advance, TypeOK
    <3>6. Forward(g) => n > current[g]
      BY <1>00, <2>0, <2>2, <3>1 DEF Forward
    <3>7. Forward(g) => \A i \in DOMAIN step'[g] : i >= n => step'[g][i] = "pending"
      BY <1>0, <3>1, <3>2, <3>3, <3>6 DEF RowAgrees
    <3>8. Forward(g)' => Forward(g)
      BY <3>4 DEF Forward
    <3>9. current'[g] \in DOMAIN step'[g] /\ Forward(g) => step'[g][current'[g]] # "completed"
      BY <3>2, <3>5, <3>7
    <3>10. Forward(g) => \A i \in DOMAIN step'[g] : i > current'[g] => step'[g][i] = "pending"
      BY <3>2, <3>3, <3>5, <3>7
    <3> QED
      BY <3>4, <3>5, <3>8, <3>9, <3>10 DEF RowAgrees
  <2> QED
    BY <2>1, <2>2
<1>11. ASSUME NEW f \in Flow, StepRaises(f) PROVE RowAgrees(g)'
  BY <1>0, <1>11, RowUntouched DEF StepRaises
<1>12. ASSUME NEW f \in Flow, FinishFlow(f) PROVE RowAgrees(g)'
  <2>1. runner.at = current[f]
    BY <1>12, RunnerRow DEF FinishFlow
  <2> QED
    BY <1>0, <1>12, <2>1 DEF FinishFlow, TypeOK, RowAgrees, Forward
<1>13. CASE NothingReady \/ WakeUp \/ ProcessEnds
  BY <1>0, <1>13, RowUntouched DEF NothingReady, WakeUp, ProcessEnds
<1>14. CASE Start
  BY <1>0, <1>14 DEF Start, TypeOK, RowAgrees, Forward
<1>15. CASE Tick
  <2>1. wait'[g] # NoWait => wait[g] # NoWait
    BY <1>0, <1>15, SecondsAssumption DEF Tick, Elapse, TypeOK
  <2>2. wait[g] # NoWait => wait'[g] # NoWait
    BY <1>0, <1>15, SecondsAssumption DEF Tick, Elapse, TypeOK
  <2> QED
    BY <1>0, <1>15, <2>1, <2>2 DEF Tick, RowAgrees, Forward
<1> QED
  BY <1>1, <1>2, <1>3, <1>4, <1>5, <1>6, <1>7, <1>8, <1>9, <1>10, <1>11, <1>12,
     <1>13, <1>14, <1>15 DEF Next, Interface, Runner, RunnerStep

\* Every step keeps the runner in agreement with its flow.
LEMMA RunnerStepAgrees == Inv /\ [Next]_vars => RunnerAgrees'
<1> SUFFICES ASSUME Inv, [Next]_vars PROVE RunnerAgrees'
  OBVIOUS
<1> USE DEF RunnerAgrees, Free, rows
<1>0. TypeOK /\ RunnerAgrees
  BY DEF Inv
<1>1. CASE UNCHANGED vars
  BY <1>0, <1>1 DEF vars
<1>2. ASSUME NEW f \in Flow, Create(f) PROVE RunnerAgrees'
  BY <1>0, <1>2 DEF Create, LoopServes, TypeOK
<1>3. ASSUME NEW f \in Flow, Cancel(f) PROVE RunnerAgrees'
  BY <1>0, <1>3 DEF Cancel, Called, LoopServes, TypeOK
<1>4. ASSUME NEW f \in Flow, Resume(f) PROVE RunnerAgrees'
  BY <1>0, <1>4 DEF Resume, Called, LoopServes, TypeOK
<1>5. ASSUME NEW f \in Flow, ResumeOfSettledFlow(f) PROVE RunnerAgrees'
  BY <1>0, <1>5 DEF ResumeOfSettledFlow
<1>6. ASSUME NEW f \in Flow, PickFlow(f) PROVE RunnerAgrees'
  BY <1>0, <1>6 DEF PickFlow, TypeOK
<1>7. ASSUME NEW f \in Flow, BeginStep(f) PROVE RunnerAgrees'
  BY <1>0, <1>7, RunnerRow DEF BeginStep, Running, TypeOK, RunnerState
<1>8. ASSUME NEW f \in Flow, StepWaits(f) PROVE RunnerAgrees'
  BY <1>8 DEF StepWaits
<1>9. ASSUME NEW f \in Flow, StepFails(f) PROVE RunnerAgrees'
  BY <1>9 DEF StepFails
<1>10. ASSUME NEW f \in Flow, StepCompletes(f) PROVE RunnerAgrees'
  BY <1>0, <1>10 DEF StepCompletes, Advance, TypeOK
<1>11. ASSUME NEW f \in Flow, StepRaises(f) PROVE RunnerAgrees'
  BY <1>11 DEF StepRaises
<1>12. ASSUME NEW f \in Flow, FinishFlow(f) PROVE RunnerAgrees'
  BY <1>12 DEF FinishFlow
<1>13. CASE NothingReady \/ WakeUp \/ ProcessEnds \/ Start
  BY <1>13 DEF NothingReady, WakeUp, ProcessEnds, Start
<1>14. CASE Tick
  BY <1>0, <1>14 DEF Tick
<1> QED
  BY <1>1, <1>2, <1>3, <1>4, <1>5, <1>6, <1>7, <1>8, <1>9, <1>10, <1>11, <1>12,
     <1>13, <1>14 DEF Next, Interface, Runner, RunnerStep

\* Every step keeps the rows of a flow that was not created as in Init.
LEMMA BlankStep == Inv /\ [Next]_vars => AbsentIsBlank'
<1> SUFFICES ASSUME Inv, [Next]_vars, NEW g \in Flow, status'[g] = "absent"
             PROVE  program'[g] = <<>> /\ current'[g] = 1
  BY DEF AbsentIsBlank
<1> USE DEF rows
<1>0. TypeOK /\ (status[g] = "absent" => program[g] = <<>> /\ current[g] = 1)
  BY DEF Inv, AbsentIsBlank
<1>1. CASE UNCHANGED vars
  BY <1>0, <1>1 DEF vars
<1>2. ASSUME NEW f \in Flow, Create(f) \/ Cancel(f) \/ Resume(f) \/ ResumeOfSettledFlow(f)
      PROVE  program'[g] = <<>> /\ current'[g] = 1
  BY <1>0, <1>2 DEF Create, Cancel, Resume, ResumeOfSettledFlow, TypeOK
<1>3. ASSUME NEW f \in Flow, RunnerStep(f)
      PROVE  program'[g] = <<>> /\ current'[g] = 1
  BY <1>0, <1>3 DEF RunnerStep, PickFlow, BeginStep, StepWaits, StepFails,
        StepCompletes, Advance, StepRaises, FinishFlow, TypeOK
<1>4. CASE NothingReady \/ WakeUp \/ ProcessEnds \/ Start \/ Tick
  BY <1>0, <1>4 DEF NothingReady, WakeUp, ProcessEnds, Start, Tick, TypeOK
<1> QED
  BY <1>1, <1>2, <1>3, <1>4 DEF Next, Interface, Runner

\* Every step keeps WaitsAddUp.
LEMMA WaitStep == Inv /\ [Next]_vars => WaitsAddUp'
<1> SUFFICES ASSUME Inv, [Next]_vars, NEW g \in Flow, wait'[g] # NoWait
             PROVE  wait'[g] + slept'[g] >= Seconds
  BY DEF WaitsAddUp
<1> USE SecondsAssumption DEF NoWait, rows
<1>0. TypeOK /\ (wait[g] # NoWait => wait[g] + slept[g] >= Seconds)
  BY DEF Inv, WaitsAddUp
<1>00. wait[g] \in 0..Seconds \cup {-1} /\ slept[g] \in 0..Seconds
  BY <1>0 DEF TypeOK
<1>1. CASE UNCHANGED <<wait, slept>>
  BY <1>0, <1>1
<1>2. ASSUME NEW f \in Flow, Resume(f) PROVE wait'[g] + slept'[g] >= Seconds
  BY <1>0, <1>2 DEF Resume, TypeOK
<1>3. ASSUME NEW f \in Flow, StepWaits(f) PROVE wait'[g] + slept'[g] >= Seconds
  BY <1>0, <1>00, <1>3 DEF StepWaits, WaitUntil, TypeOK
<1>4. ASSUME NEW f \in Flow, StepFails(f) \/ FinishFlow(f)
      PROVE  wait'[g] + slept'[g] >= Seconds
  BY <1>0, <1>4 DEF StepFails, FinishFlow, TypeOK
<1>5. ASSUME NEW f \in Flow, StepCompletes(f) PROVE wait'[g] + slept'[g] >= Seconds
  BY <1>0, <1>5 DEF StepCompletes, Advance, TypeOK
<1>6. CASE Tick
  <2>1. /\ wait'[g] = IF wait[g] > 0 THEN wait[g] - 1 ELSE wait[g]
        /\ slept'[g] = IF slept[g] < Seconds THEN slept[g] + 1 ELSE slept[g]
    BY <1>6 DEF Tick, Elapse
  <2> QED
    BY <1>0, <1>00, <2>1
<1> QED
  BY <1>1, <1>2, <1>3, <1>4, <1>5, <1>6
     DEF Next, Interface, Runner, RunnerStep, vars, Create, Cancel, ResumeOfSettledFlow,
         PickFlow, BeginStep, StepRaises, NothingReady, WakeUp, ProcessEnds, Start

------------------------------------------------------------------------------
(* The theorems. *)

\* The invariant holds at first and every step keeps it.
LEMMA Invariant == Spec => []Inv
<1>1. Init => Inv
  <2> SUFFICES ASSUME Init PROVE Inv
    OBVIOUS
  <2> USE DEF Init, NoWait, Free
  <2>0. Len(<<>>) = 0 /\ DOMAIN <<>> = {}
    OBVIOUS
  <2>1. TypeOK
    <3>1. step = [f \in Flow |-> step[f]]
      OBVIOUS
    <3>2. \A f \in Flow : step[f] \in [DOMAIN program[f] -> StepStatus]
      <4>1. <<>> \in [DOMAIN <<>> -> StepStatus]
        BY <2>0
      <4> QED
        BY <4>1
    <3>3. hung \in BOOLEAN /\ runner \in RunnerState
      BY DEF RunnerState
    <3> QED
      BY <3>1, <3>2, <3>3, SecondsAssumption DEF TypeOK, FlowStatus
  <2>2. RowsAgree
    BY <2>0 DEF RowsAgree, RowAgrees
  <2>3. RunnerAgrees /\ AbsentIsBlank /\ WaitsAddUp
    BY DEF RunnerAgrees, AbsentIsBlank, WaitsAddUp
  <2> QED
    BY <2>1, <2>2, <2>3 DEF Inv
<1>2. Inv /\ [Next]_vars => Inv'
  BY TypeStep, RowsStep, RunnerStepAgrees, BlankStep, WaitStep DEF Inv
<1> QED
  BY <1>1, <1>2, PTL DEF Spec

\* The rows, the runner and the counters keep their types.
THEOREM TypeCorrect == Spec => []TypeOK
<1>1. Inv => TypeOK
  BY DEF Inv
<1> QED
  BY <1>1, Invariant, PTL

\* The row of a flow and the rows of its steps agree in every state, for any
\* programs, calls and restarts: a restart always finds rows to go on from.
THEOREM RowsAlwaysAgree == Spec => []RowsAgree
<1>1. Inv => RowsAgree
  BY DEF Inv
<1> QED
  BY <1>1, Invariant, PTL

\* In a program without loops, no step whose completion was committed is
\* executed again.
THEOREM CommittedStepsAreFinal == Spec => CommittedStepsStay
<1>1. ASSUME Inv, [Next]_vars, NEW g \in Flow, NEW i \in DOMAIN step[g],
             Forward(g), step[g][i] = "completed"
      PROVE  step'[g][i] = "completed"
  <2> USE DEF rows
  <2>0. TypeOK /\ RowAgrees(g) /\ AbsentIsBlank
    BY <1>1 DEF Inv, RowsAgree
  <2>1. i # current[g]
    BY <1>1, <2>0 DEF RowAgrees
  <2>2. CASE UNCHANGED step
    BY <1>1, <2>2
  <2>3. ASSUME NEW f \in Flow, Create(f) PROVE step'[g][i] = "completed"
    <3>1. CASE f # g
      BY <1>1, <2>0, <2>3, <3>1 DEF Create, TypeOK
    <3>2. CASE f = g
      <4>1. program[g] = <<>>
        BY <2>0, <2>3, <3>2 DEF Create, AbsentIsBlank
      <4>2. DOMAIN step[g] = DOMAIN program[g]
        BY <2>0 DEF TypeOK
      <4> QED
        BY <1>1, <4>1, <4>2
    <3> QED
      BY <3>1, <3>2
  <2>4. ASSUME NEW f \in Flow, Resume(f) PROVE step'[g][i] = "completed"
    BY <1>1, <2>0, <2>4 DEF Resume, TypeOK
  <2>5. ASSUME NEW f \in Flow, BeginStep(f) PROVE step'[g][i] = "completed"
    <3>1. runner.at = current[f]
      BY <1>1, <2>5, RunnerRow DEF BeginStep
    <3> QED
      BY <1>1, <2>0, <2>1, <2>5, <3>1 DEF BeginStep, TypeOK
  <2>6. ASSUME NEW f \in Flow, StepWaits(f) \/ StepFails(f) \/ StepCompletes(f)
        PROVE  step'[g][i] = "completed"
    <3>1. runner.at = current[f]
      BY <1>1, <2>6, RunnerRow DEF StepWaits, StepFails, StepCompletes, Executing
    <3> QED
      <4>1. CASE StepWaits(f)
        BY <1>1, <2>0, <2>1, <3>1, <4>1 DEF StepWaits, TypeOK
      <4>2. CASE StepFails(f)
        BY <1>1, <2>0, <2>1, <3>1, <4>2 DEF StepFails, TypeOK
      <4>3. CASE StepCompletes(f)
        BY <1>1, <2>0, <2>1, <3>1, <4>3 DEF StepCompletes, TypeOK
      <4> QED
        BY <2>6, <4>1, <4>2, <4>3
  <2> QED
    BY <1>1, <2>2, <2>3, <2>4, <2>5, <2>6
       DEF Next, Interface, Runner, RunnerStep, vars, Cancel, ResumeOfSettledFlow,
           PickFlow, FinishFlow, StepRaises, NothingReady, WakeUp, ProcessEnds, Start, Tick
<1>2. Inv /\ [Next]_vars =>
        [\A f \in Flow : \A i \in DOMAIN step[f] :
            Forward(f) /\ step[f][i] = "completed" => step'[f][i] = "completed"]_vars
  BY <1>1
<1> QED
  BY <1>2, Invariant, PTL DEF Spec, CommittedStepsStay

\* No sleep step completes before its seconds have passed, whatever restarts,
\* resumptions and other flows come in between.
THEOREM SleepsLast == Spec => SleepLasts
<1>1. ASSUME Inv, [Next]_vars, NEW g \in Flow, NEW i \in DOMAIN step[g],
             program[g][i].kind = "sleep",
             step[g][i] # "completed", step'[g][i] = "completed"
      PROVE  slept[g] >= Seconds
  <2> USE DEF rows
  <2>0. TypeOK /\ AbsentIsBlank /\ WaitsAddUp
    BY <1>1 DEF Inv
  <2>1. CASE UNCHANGED step
    BY <1>1, <2>1
  <2>2. ASSUME NEW f \in Flow, Create(f) PROVE slept[g] >= Seconds
    <3>1. CASE f # g
      BY <1>1, <2>0, <2>2, <3>1 DEF Create, TypeOK
    <3>2. CASE f = g
      <4>1. program[g] = <<>>
        BY <2>0, <2>2, <3>2 DEF Create, AbsentIsBlank
      <4>2. DOMAIN step[g] = DOMAIN program[g]
        BY <2>0 DEF TypeOK
      <4> QED
        BY <1>1, <4>1, <4>2
    <3> QED
      BY <3>1, <3>2
  <2>3. ASSUME NEW f \in Flow, Resume(f) PROVE slept[g] >= Seconds
    BY <1>1, <2>0, <2>3 DEF Resume, TypeOK
  <2>4. ASSUME NEW f \in Flow, BeginStep(f) \/ StepWaits(f) \/ StepFails(f)
        PROVE  slept[g] >= Seconds
    <3>1. CASE BeginStep(f)
      BY <1>1, <2>0, <3>1 DEF BeginStep, TypeOK
    <3>2. CASE StepWaits(f)
      BY <1>1, <2>0, <3>2 DEF StepWaits, TypeOK
    <3>3. CASE StepFails(f)
      BY <1>1, <2>0, <3>3 DEF StepFails, TypeOK
    <3> QED
      BY <2>4, <3>1, <3>2, <3>3
  <2>5. ASSUME NEW f \in Flow, StepCompletes(f) PROVE slept[g] >= Seconds
    <3>1. f = g /\ i = runner.at
      BY <1>1, <2>0, <2>5 DEF StepCompletes, TypeOK
    <3>2. wait[g] = 0
      BY <1>1, <2>5, <3>1 DEF StepCompletes, KindNow
    <3>3. slept[g] \in Nat
      BY <2>0 DEF TypeOK
    <3> QED
      BY <2>0, <3>2, <3>3, SecondsAssumption DEF WaitsAddUp, NoWait
  <2> QED
    BY <1>1, <2>1, <2>2, <2>3, <2>4, <2>5
       DEF Next, Interface, Runner, RunnerStep, vars, Cancel, ResumeOfSettledFlow,
           PickFlow, FinishFlow, StepRaises, NothingReady, WakeUp, ProcessEnds, Start, Tick
<1>2. Inv /\ [Next]_vars =>
        [\A f \in Flow : \A i \in DOMAIN step[f] :
            /\ program[f][i].kind = "sleep"
            /\ step[f][i] # "completed" /\ step'[f][i] = "completed"
            => slept[f] >= Seconds]_vars
  BY <1>1
<1> QED
  BY <1>2, Invariant, PTL DEF Spec, SleepLasts
=============================================================================
